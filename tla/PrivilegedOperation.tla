------------------------ MODULE PrivilegedOperation ------------------------
(***************************************************************************)
(* Human-governed privileged operations: a reviewed plan, its approval, and *)
(* the worker that executes it or recovers an execution somebody abandoned *)
(* (control_plane/privileged_operation_service.py,                          *)
(* control_plane/privileged_operation_worker.py and the store methods of    *)
(* control_plane/storage/postgres.py they call).                            *)
(*                                                                         *)
(* Each descriptor changes one thing: "secrets" re-encrypts the managed    *)
(* secrets, "authz" writes the authorization policy, "import" the merge-   *)
(* train policy, "backup" the backup policy.  What a plan was reviewed     *)
(* against is a version of that thing; every write makes a new version.    *)
(* The right of the approver is part of the authorization policy, so it    *)
(* changes only with a version of "authz".                                 *)
(*                                                                         *)
(* Every store method is one transaction and one action, but for the write *)
(* of a backup policy: it asks for the approver's right in a second        *)
(* session, which does not lock the authorization policy, so the right may *)
(* be withdrawn before it commits.                                         *)
(*                                                                         *)
(* The reservation of an execution names the descriptor as its target.     *)
(* The write itself has a second, inner reservation, which is written and  *)
(* completed in the transaction of the write: it is complete or absent.    *)
(***************************************************************************)
EXTENDS Integers, FiniteSets

CONSTANTS
    Op,            \* operation ids
    Worker,        \* worker processes
    Kinds,         \* the descriptors in use
    MaxDrifts,     \* bound on writes that do not come from an operation
    MaxCrashes,    \* bound on worker deaths
    NoWorker,      \* no lease owner
    NoOp           \* what an idle worker is at

ASSUME PrivilegedAssumption ==
    /\ Kinds \subseteq {"secrets", "authz", "import", "backup"}
    /\ MaxDrifts \in Nat
    /\ MaxCrashes \in Nat
    /\ NoWorker \notin Worker /\ NoOp \notin Op
    /\ IsFiniteSet(Op)

VARIABLES
    op,        \* the operation records
    res,       \* the reservation of each operation's execution
    inner,     \* operations whose write is on record as completed
    version,   \* the current version of each thing
    granted,   \* the active policy lets the approver approve
    effects,   \* writes of operations, as <<operation, version written over>>
    wk,        \* what each worker is doing
    lost,      \* operations whose write was committed but never answered
    drifts,    \* writes that did not come from an operation, so far
    crashes    \* worker deaths so far

vars == <<op, res, inner, version, granted, effects, wk, lost, drifts, crashes>>

Things == {"secrets", "authz", "import", "backup"}

Versions == 0..(MaxDrifts + Cardinality(Op))

Record == [status : {"none", "planned", "approved", "revoked", "cancelled",
                     "executing", "executed", "execution_failed"},
           kind   : Things,
           plan   : Versions,       \* the pre-state the evidence was made from
           expects : BOOLEAN,       \* an import that changes provider expectations
           viewed : BOOLEAN,        \* an approval has passed its checks
           doubt  : BOOLEAN]        \* reconciliation_required of the evidence

NoRecord == [status |-> "none", kind |-> "secrets", plan |-> 0, expects |-> FALSE,
             viewed |-> FALSE, doubt |-> FALSE]

Reservation == [state : {"none", "running", "reconcile_required", "completed"},
                owner : Worker \cup {NoWorker},
                lease : {"none", "live", "past"},
                code  : {0, 200, 409}]

NoReservation == [state |-> "none", owner |-> NoWorker, lease |-> "none", code |-> 0]

Job == [pc   : {"idle", "reserve", "claim", "release", "authorize", "replan", "apply",
                "commit", "record", "complete", "settle", "mark", "fail", "distrust",
                "prepare", "reauthorize", "recover", "recommit", "adopt_record", "adopt",
                "give_up"},
        op   : Op \cup {NoOp},
        seen : Versions,            \* version of the policy that authorized it
        done : BOOLEAN,             \* effect_completed
        doubt : BOOLEAN]            \* reconciliation_required

Idle == [pc |-> "idle", op |-> NoOp, seen |-> 0, done |-> FALSE,
         doubt |-> FALSE]

Init ==
    /\ op = [o \in Op |-> NoRecord]
    /\ res = [o \in Op |-> NoReservation]
    /\ inner = {}
    /\ version = [k \in Things |-> 0]
    /\ granted = TRUE
    /\ effects = {}
    /\ wk = [w \in Worker |-> Idle]
    /\ lost = {}
    /\ drifts = 0
    /\ crashes = 0

Kind(o) == op[o].kind

(* The planner still returns the evidence that was reviewed.               *)
Fresh(o) == version[Kind(o)] = op[o].plan

Applied(o) == \E e \in effects : e[1] = o

Mine(w) == wk[w].op

(* A transaction that writes a backup policy has passed its guard and not  *)
(* committed: it holds the locks of every write of a backup policy.        *)
Committing(w) == wk[w].pc \in {"commit", "recommit"}

BackupsLocked == \E w \in Worker : Committing(w)

Goto(w, label) == wk' = [wk EXCEPT ![w].pc = label]

Finish(w) == wk' = [wk EXCEPT ![w] = Idle]

-----------------------------------------------------------------------------
(* People.                                                                 *)

(* create_typed_privileged_operation_plan stores what the planner saw.     *)
Plan(o, k) ==
    /\ op[o].status = "none"
    /\ \E changes \in BOOLEAN :
          /\ changes => k = "import"
          /\ op' = [op EXCEPT ![o] = [NoRecord EXCEPT !.status = "planned", !.kind = k,
                                                      !.plan = version[k],
                                                      !.expects = changes]]
    /\ UNCHANGED <<res, inner, version, granted, effects, wk, lost, drifts, crashes>>

(* The approval route checks the approver's right and, for policies, that  *)
(* the plan is current ...                                                 *)
View(o) ==
    /\ op[o].status = "planned"
    /\ ~ op[o].viewed
    /\ granted
    /\ Kind(o) # "secrets" => Fresh(o)
    /\ op' = [op EXCEPT ![o].viewed = TRUE]
    /\ UNCHANGED <<res, inner, version, granted, effects, wk, lost, drifts, crashes>>

(* ... and then writes the approval.                                       *)
Approve(o) ==
    /\ op[o].status = "planned"
    /\ op[o].viewed
    /\ op' = [op EXCEPT ![o].status = "approved"]
    /\ UNCHANGED <<res, inner, version, granted, effects, wk, lost, drifts, crashes>>

Cancel(o) ==
    /\ op[o].status = "planned"
    /\ op' = [op EXCEPT ![o].status = "cancelled"]
    /\ UNCHANGED <<res, inner, version, granted, effects, wk, lost, drifts, crashes>>

Revoke(o) ==
    /\ op[o].status = "approved"
    /\ op' = [op EXCEPT ![o].status = "revoked"]
    /\ UNCHANGED <<res, inner, version, granted, effects, wk, lost, drifts, crashes>>

(* Somebody else writes one of the things.  Only a write of the policy can *)
(* give or take the approver's right.                                      *)
Drift(k) ==
    /\ drifts < MaxDrifts
    /\ k = "backup" => ~ BackupsLocked
    /\ drifts' = drifts + 1
    /\ version' = [version EXCEPT ![k] = @ + 1]
    /\ IF k = "authz" THEN granted' \in BOOLEAN ELSE UNCHANGED granted
    /\ UNCHANGED <<op, res, inner, effects, wk, lost, crashes>>

-----------------------------------------------------------------------------
(* The reservation of an execution.                                        *)

Expire(r) == [r EXCEPT !.state = "reconcile_required"]

Expired(o) == res[o].state = "running" /\ res[o].lease = "past"

(* Mutated: only a running reservation counts.                             *)
HoldersRunning(o) ==
    {p \in Op \ {o} : Kind(p) = Kind(o) /\ res[p].state = "running"}

(* The operations that hold the target of an operation.                    *)
Holders(o) ==
    {p \in Op \ {o} : Kind(p) = Kind(o) /\ res[p].state \in {"running", "reconcile_required"}}

(* An operation of the list of approved ones: its record is only as old as *)
(* the list.                                                               *)
PickApproved(w, o) ==
    /\ wk[w].pc = "idle"
    /\ op[o].status = "approved"
    /\ wk' = [wk EXCEPT ![w].pc = "reserve", ![w].op = o]
    /\ UNCHANGED <<op, res, inner, version, granted, effects, lost, drifts, crashes>>

(* reserve_mutation acquires a free key on a free target; anything else it *)
(* finds is left alone, but for an expired lease.                          *)
Reserve(w) ==
    LET o == Mine(w) IN
    /\ wk[w].pc = "reserve"
    /\ IF res[o].state = "none" /\ Holders(o) = {}
       THEN /\ res' = [res EXCEPT ![o] = [state |-> "running", owner |-> w,
                                          lease |-> "live", code |-> 0]]
            /\ Goto(w, "claim")
       ELSE /\ res' = [p \in Op |->
                         IF p \in {o} \cup Holders(o) /\ Expired(p) THEN Expire(res[p])
                                                                   ELSE res[p]]
            /\ Finish(w)
    /\ UNCHANGED <<op, inner, version, granted, effects, lost, drifts, crashes>>

(* Mutated: a claim that was refused is treated as one that was made.      *)
ClaimAnyway(w) ==
    LET o == Mine(w) IN
    /\ wk[w].pc = "claim"
    /\ op' = IF op[o].status = "approved" THEN [op EXCEPT ![o].status = "executing"] ELSE op
    /\ Goto(w, "authorize")
    /\ UNCHANGED <<res, inner, version, granted, effects, lost, drifts, crashes>>

(* The transition to executing: refused when the operation was revoked.    *)
Claim(w) ==
    LET o == Mine(w) IN
    /\ wk[w].pc = "claim"
    /\ op' = IF op[o].status = "approved" THEN [op EXCEPT ![o].status = "executing"] ELSE op
    /\ Goto(w, IF op'[o].status = "executing" THEN "authorize" ELSE "release")
    /\ UNCHANGED <<res, inner, version, granted, effects, lost, drifts, crashes>>

(* What complete_mutation_reservation leaves: completed in time, for       *)
(* reconciliation when the lease is past, and as it was otherwise.         *)
Completed(w, code) ==
    LET r == res[Mine(w)] IN
    IF r.state # "running" \/ r.owner # w THEN r
    ELSE IF r.lease = "past" THEN Expire(r)
    ELSE [r EXCEPT !.state = "completed", !.code = code]

(* _complete_reservation of a revoked operation; its answer is not used.   *)
Release(w) ==
    /\ wk[w].pc = "release"
    /\ res' = [res EXCEPT ![Mine(w)] = Completed(w, 409)]
    /\ Finish(w)
    /\ UNCHANGED <<op, inner, version, granted, effects, lost, drifts, crashes>>

-----------------------------------------------------------------------------
(* An execution.                                                           *)

(* An exception: failed before the effect as far as the worker knows.      *)
Raise(w) == wk' = [wk EXCEPT ![w].pc = IF wk[w].done THEN "mark" ELSE "settle",
                             ![w].seen = 0, ![w].doubt = wk[w].done]

(* _authorize_approved_operation with the active policy.                   *)
Authorize(w) ==
    /\ wk[w].pc = "authorize"
    /\ \/ granted /\ wk' = [wk EXCEPT ![w].pc = "replan", ![w].seen = version["authz"]]
       \/ Raise(w)
    /\ UNCHANGED <<op, res, inner, version, granted, effects, lost, drifts, crashes>>

(* The planner runs again and must return what was approved.               *)
Replan(w) ==
    /\ wk[w].pc = "replan"
    /\ \/ Fresh(Mine(w)) /\ Goto(w, "apply")
       \/ Raise(w)
    /\ UNCHANGED <<op, res, inner, version, granted, effects, lost, drifts, crashes>>

(* Mutated: the write relies on the plan made a moment ago.                *)
WritableUncompared(o, w) ==
    /\ Kind(o) = "authz" => version["authz"] = wk[w].seen
    /\ op[o].expects => res[o].state = "running" /\ res[o].lease = "live"

(* Mutated: a policy is written under another one than authorized it.      *)
WritableUnseen(o, w) ==
    /\ Kind(o) # "authz" => Fresh(o)
    /\ op[o].expects => res[o].state = "running" /\ res[o].lease = "live"

(* What the write of anything but a backup policy compares while it holds  *)
(* its locks.  The authorization policy must be the one that authorized    *)
(* the operation; an import that changes provider expectations asks for a  *)
(* current reservation.                                                    *)
Writable(o, w) ==
    /\ Fresh(o)
    /\ Kind(o) = "authz" => version["authz"] = wk[w].seen
    /\ op[o].expects => res[o].state = "running" /\ res[o].lease = "live"

(* Mutated: the guard of a backup policy does not ask for the right again. *)
GuardUnasked(w) ==
    LET o == Mine(w) IN
    /\ wk[w].pc \in {"apply", "recover"}
    /\ Kind(o) = "backup" /\ o \notin inner
    /\ ~ BackupsLocked
    /\ Fresh(o)
    /\ wk' = [wk EXCEPT ![w].pc = IF @ = "apply" THEN "commit" ELSE "recommit",
                        ![w].seen = version["authz"]]
    /\ UNCHANGED <<op, res, inner, version, granted, effects, lost, drifts, crashes>>

(* The transaction of a backup policy up to its revision_guard: a free     *)
(* inner reservation, the locks, then the right in the policy that a       *)
(* second session reads, and the plan.                                     *)
Guard(w) ==
    LET o == Mine(w) IN
    /\ wk[w].pc \in {"apply", "recover"}
    /\ Kind(o) = "backup" /\ o \notin inner
    /\ ~ BackupsLocked
    /\ granted
    /\ Fresh(o)
    /\ wk' = [wk EXCEPT ![w].pc = IF @ = "apply" THEN "commit" ELSE "recommit",
                        ![w].seen = version["authz"]]
    /\ UNCHANGED <<op, res, inner, version, granted, effects, lost, drifts, crashes>>

(* The write of an operation, with its inner reservation.  A policy may    *)
(* drop the rule it was approved under.                                    *)
Write(o) ==
    /\ effects' = effects \cup {<<o, version[Kind(o)]>>}
    /\ version' = [version EXCEPT ![Kind(o)] = @ + 1]
    /\ inner' = inner \cup {o}
    /\ IF Kind(o) = "authz" THEN granted' \in BOOLEAN ELSE UNCHANGED granted

(* The write was made before, by this operation: a completed inner         *)
(* reservation, or the rotation events under the operation's token.        *)
Done(w) == wk' = [wk EXCEPT ![w].pc = "record", ![w].seen = 0, ![w].done = TRUE]

(* A write of an executor; an answer that is lost is an exception.         *)
Wrote(w) ==
    /\ Write(Mine(w))
    /\ \/ Done(w) /\ UNCHANGED lost
       \/ Raise(w) /\ lost' = lost \cup {Mine(w)}

(* The typed executor.                                                     *)
Apply(w) ==
    LET o == Mine(w) IN
    /\ wk[w].pc = "apply"
    /\ \/ /\ Kind(o) # "backup" /\ o \notin inner
          /\ Writable(o, w)
          /\ Wrote(w)
       \/ /\ o \in inner
          /\ Kind(o) \in {"secrets", "backup"}
          /\ Done(w)
          /\ UNCHANGED <<inner, version, granted, effects, lost>>
       \/ /\ Raise(w)
          /\ UNCHANGED <<inner, version, granted, effects, lost>>
    /\ UNCHANGED <<op, res, drifts, crashes>>

(* The transaction of a backup policy after its guard: it compares nothing *)
(* more, and may fail.                                                     *)
Commit(w) ==
    /\ wk[w].pc = "commit"
    /\ \/ Wrote(w)
       \/ Raise(w) /\ UNCHANGED <<inner, version, granted, effects, lost>>
    /\ UNCHANGED <<op, res, drifts, crashes>>

(* The read-back after the write fails.                                    *)
ReadBackFails(w) ==
    /\ wk[w].pc = "record"
    /\ Raise(w)
    /\ UNCHANGED <<op, res, inner, version, granted, effects, lost, drifts, crashes>>

(* The transition to executed; a worker that finds another terminal status *)
(* only leaves its reservation for reconciliation.                         *)
RecordExecuted(w) ==
    LET o == Mine(w) IN
    /\ wk[w].pc = "record"
    /\ op' = IF op[o].status = "executing" THEN [op EXCEPT ![o].status = "executed"] ELSE op
    /\ \/ Goto(w, IF op'[o].status = "executed" THEN "complete" ELSE "distrust")
       \/ Raise(w)
    /\ UNCHANGED <<res, inner, version, granted, effects, lost, drifts, crashes>>

CompleteExecuted(w) ==
    /\ wk[w].pc = "complete"
    /\ res' = [res EXCEPT ![Mine(w)] = Completed(w, 200)]
    /\ \/ res'[Mine(w)].code = 200 /\ Finish(w)
       \/ res'[Mine(w)].code # 200 /\ Goto(w, "distrust")
       \/ Raise(w)
    /\ UNCHANGED <<op, inner, version, granted, effects, lost, drifts, crashes>>

(* Mutated: a failure is settled although the lease is past.               *)
SettleLate(w) ==
    /\ wk[w].pc = "settle"
    /\ LET r == res[Mine(w)] IN
       res' = [res EXCEPT ![Mine(w)] =
                 IF r.owner = w THEN [r EXCEPT !.state = "completed", !.code = 409] ELSE r]
    /\ wk' = [wk EXCEPT ![w].pc = "fail", ![w].doubt = FALSE]
    /\ UNCHANGED <<op, inner, version, granted, effects, lost, drifts, crashes>>

(* _complete_reservation, for a failure before the effect.  The typed      *)
(* denial of an import may settle a reservation that is past its lease.    *)
Settle(w) ==
    LET o == Mine(w)
        denied == [Completed(w, 409) EXCEPT !.state = "completed", !.code = 409]
    IN
    /\ wk[w].pc = "settle"
    /\ \/ /\ res' = [res EXCEPT ![o] = Completed(w, 409)]
          /\ wk' = [wk EXCEPT ![w].pc = IF res'[o].code = 409 THEN "fail" ELSE "mark",
                              ![w].doubt = res'[o].code # 409]
       \/ /\ Kind(o) = "import" /\ op[o].expects
          /\ o \notin inner
          /\ res[o].state \in {"running", "reconcile_required"}
          /\ res[o].owner = w
          /\ res' = [res EXCEPT ![o] = denied]
          /\ wk' = [wk EXCEPT ![w].pc = "fail", ![w].doubt = FALSE]
    /\ UNCHANGED <<op, inner, version, granted, effects, lost, drifts, crashes>>

(* What mark_mutation_reconcile_required leaves.                           *)
Marked(w) ==
    LET r == res[Mine(w)] IN
    IF r.state = "running" /\ r.owner = w THEN Expire(r) ELSE r

Mark(w) ==
    /\ wk[w].pc = "mark"
    /\ res' = [res EXCEPT ![Mine(w)] = Marked(w)]
    /\ wk' = [wk EXCEPT ![w].pc = "fail", ![w].doubt = TRUE]
    /\ UNCHANGED <<op, inner, version, granted, effects, lost, drifts, crashes>>

Distrust(w) ==
    /\ wk[w].pc = "distrust"
    /\ res' = [res EXCEPT ![Mine(w)] = Marked(w)]
    /\ Finish(w)
    /\ UNCHANGED <<op, inner, version, granted, effects, lost, drifts, crashes>>

(* The transition to execution_failed, from executing only.                *)
Failed(o, doubt) ==
    IF op[o].status = "executing"
    THEN [op EXCEPT ![o].status = "execution_failed", ![o].doubt = doubt]
    ELSE op

Fail(w) ==
    /\ wk[w].pc = "fail"
    /\ op' = Failed(Mine(w), wk[w].doubt)
    /\ Finish(w)
    /\ UNCHANGED <<res, inner, version, granted, effects, lost, drifts, crashes>>

-----------------------------------------------------------------------------
(* reconcile_stale_privileged_operations.                                  *)

PickExecuting(w, o) ==
    /\ wk[w].pc = "idle"
    /\ op[o].status = "executing"
    /\ wk' = [wk EXCEPT ![w].pc = "prepare", ![w].op = o]
    /\ UNCHANGED <<op, res, inner, version, granted, effects, lost, drifts, crashes>>

(* Mutated: an expired lease is not turned into a reconciliation.          *)
PreparePatient(w) ==
    LET o == Mine(w) IN
    /\ wk[w].pc = "prepare"
    /\ IF res[o].state = "reconcile_required" THEN Goto(w, "reauthorize") ELSE Finish(w)
    /\ UNCHANGED <<op, res, inner, version, granted, effects, lost, drifts, crashes>>

(* prepare_db_only_mutation hands out what is past its lease.              *)
Prepare(w) ==
    LET o == Mine(w) IN
    /\ wk[w].pc = "prepare"
    /\ res' = IF Expired(o) THEN [res EXCEPT ![o] = Expire(@)] ELSE res
    /\ IF res'[o].state = "reconcile_required" THEN Goto(w, "reauthorize") ELSE Finish(w)
    /\ UNCHANGED <<op, inner, version, granted, effects, lost, drifts, crashes>>

Reauthorize(w) ==
    /\ wk[w].pc = "reauthorize"
    /\ \/ granted /\ Goto(w, "recover")
       \/ Goto(w, "give_up")
    /\ UNCHANGED <<op, res, inner, version, granted, effects, lost, drifts, crashes>>

(* Mutated: recovery takes the reviewed version for the one that is there. *)
RecoveredUnread(o) == TRUE

(* A completed inner reservation and exactly the version it wrote.         *)
Recovered(o) == o \in inner /\ version[Kind(o)] = op[o].plan + 1

(* Secrets and backup policies run their executor again under the same     *)
(* key; policies are only read back.                                       *)
Recover(w) ==
    LET o == Mine(w)
        again == Kind(o) \in {"secrets", "backup"}
    IN
    /\ wk[w].pc = "recover"
    /\ \/ /\ Kind(o) = "secrets" /\ o \notin inner
          /\ Writable(o, w)
          /\ Write(o)
          /\ \E label \in {"adopt_record", "give_up"} : Goto(w, label)
       \/ /\ IF again THEN o \in inner ELSE Recovered(o)
          /\ Goto(w, "adopt_record")
          /\ UNCHANGED <<inner, version, granted, effects>>
       \/ /\ Goto(w, "give_up")
          /\ UNCHANGED <<inner, version, granted, effects>>
    /\ UNCHANGED <<op, res, lost, drifts, crashes>>

(* The same for a backup policy, after its guard.                          *)
Recommit(w) ==
    /\ wk[w].pc = "recommit"
    /\ \/ /\ Write(Mine(w))
          /\ \E label \in {"adopt_record", "give_up"} : Goto(w, label)
       \/ /\ Goto(w, "give_up")
          /\ UNCHANGED <<inner, version, granted, effects>>
    /\ UNCHANGED <<op, res, lost, drifts, crashes>>

AdoptRecord(w) ==
    LET o == Mine(w) IN
    /\ wk[w].pc = "adopt_record"
    /\ op' = IF op[o].status = "executing" THEN [op EXCEPT ![o].status = "executed"] ELSE op
    /\ IF op'[o].status = "executed" THEN Goto(w, "adopt") ELSE Finish(w)
    /\ UNCHANGED <<res, inner, version, granted, effects, lost, drifts, crashes>>

(* adopt_reconciled_mutation.                                              *)
Adopt(w) ==
    LET o == Mine(w) IN
    /\ wk[w].pc = "adopt"
    /\ res' = IF res[o].state = "reconcile_required"
              THEN [res EXCEPT ![o].state = "completed", ![o].code = 200]
              ELSE res
    /\ Finish(w)
    /\ UNCHANGED <<op, inner, version, granted, effects, lost, drifts, crashes>>

GiveUp(w) ==
    /\ wk[w].pc = "give_up"
    /\ op' = Failed(Mine(w), TRUE)
    /\ Finish(w)
    /\ UNCHANGED <<res, inner, version, granted, effects, lost, drifts, crashes>>

-----------------------------------------------------------------------------
(* Time and failures.                                                      *)

LeaseRunsOut(o) ==
    /\ res[o].state = "running"
    /\ res[o].lease = "live"
    /\ res' = [res EXCEPT ![o].lease = "past"]
    /\ UNCHANGED <<op, inner, version, granted, effects, wk, lost, drifts, crashes>>

(* The process dies, or its poll ends with an error.                       *)
Crash(w) ==
    /\ wk[w].pc # "idle"
    /\ crashes < MaxCrashes
    /\ crashes' = crashes + 1
    /\ Finish(w)
    /\ UNCHANGED <<op, res, inner, version, granted, effects, lost, drifts>>

People(o) ==
    \/ \E k \in Kinds : Plan(o, k)
    \/ View(o)
    \/ Approve(o)
    \/ Cancel(o)
    \/ Revoke(o)

Execute(w) ==
    \/ Reserve(w)
    \/ Claim(w)
    \/ Release(w)
    \/ Authorize(w)
    \/ Replan(w)
    \/ Guard(w)
    \/ Apply(w)
    \/ Commit(w)
    \/ ReadBackFails(w)
    \/ RecordExecuted(w)
    \/ CompleteExecuted(w)
    \/ Settle(w)
    \/ Mark(w)
    \/ Distrust(w)
    \/ Fail(w)

Reconcile(w) ==
    \/ Prepare(w)
    \/ Reauthorize(w)
    \/ Recover(w)
    \/ Recommit(w)
    \/ AdoptRecord(w)
    \/ Adopt(w)
    \/ GiveUp(w)

Next ==
    \/ \E o \in Op : People(o) \/ LeaseRunsOut(o)
    \/ \E k \in Kinds \cup {"authz"} : Drift(k)
    \/ \E w \in Worker : Execute(w) \/ Reconcile(w) \/ Crash(w)
    \/ \E w \in Worker, o \in Op : PickApproved(w, o) \/ PickExecuting(w, o)

Spec == Init /\ [][Next]_vars

(* Workers keep polling, every poll goes through the executing operations, *)
(* and the clock runs.                                                     *)
FairSpec ==
    /\ Spec
    /\ \A w \in Worker : WF_vars(Execute(w) \/ Reconcile(w))
    /\ \A o \in Op : WF_vars(LeaseRunsOut(o)) /\ SF_vars(\E w \in Worker : PickExecuting(w, o))

-----------------------------------------------------------------------------
(* Properties.                                                             *)

(* Type invariant: every variable of the model keeps its shape.            *)
TypeOK ==
    /\ op \in [Op -> Record]
    /\ res \in [Op -> Reservation]
    /\ inner \subseteq Op
    /\ version \in [Things -> Versions]
    /\ granted \in BOOLEAN
    /\ effects \subseteq Op \X Versions
    /\ wk \in [Worker -> Job]
    /\ lost \subseteq Op
    /\ drifts \in 0..MaxDrifts
    /\ crashes \in 0..MaxCrashes

(* "Approval and execution keep the existing policy checks and compare-    *)
(* and-swap refusal for stale revisions" (docs/privileged-operations.md):  *)
(* whoever writes, when, and after whatever stall, writes over exactly the *)
(* version that was reviewed, hence once; and a withdrawn operation, which *)
(* "can never be approved or executed", never wrote, although its worker   *)
(* may hold a reservation already.                                         *)
AppliedAsReviewed ==
    \A e \in effects :
        e[2] = op[e[1]].plan /\ op[e[1]].status \notin {"cancelled", "revoked"}

(* The record tells the truth, whoever wrote it.  An operation on record   *)
(* as executed did write.  A reservation settled as failed, and an         *)
(* operation on record as failed without reconciliation, belong to one     *)
(* that did not write and never will, unless the answer to its write was   *)
(* lost.                                                                   *)
RecordIsTrue ==
    \A o \in Op :
        /\ op[o].status = "executed" => Applied(o)
        /\ \/ op[o].status = "execution_failed" /\ ~ op[o].doubt
           \/ res[o].code = 409
           => o \in lost \/ ~ Applied(o)

(* The authorization policy is written only while the approver has the     *)
(* right, although it was checked several steps before.  A backup policy   *)
(* is not: its guard reads the right "as part of the same locked write"    *)
(* (privileged_operation_worker.py:900), but a withdrawal does not take    *)
(* those locks.  What holds is that a right lost before the guard stops    *)
(* the write: one made without the right is of a transaction whose guard   *)
(* found it, in a policy that was replaced since.                          *)
AuthorizedAtEffect ==
    [][\A o \in Op :
          Applied(o)' /\ ~ Applied(o) /\ ~ granted
          => /\ Kind(o) # "authz"
             /\ Kind(o) = "backup" =>
                  \E w \in Worker : /\ Mine(w) = o /\ Committing(w)
                                     /\ wk[w].seen < version["authz"]]_vars

(* A write that nobody has put on record as executed keeps its target, be  *)
(* its worker slow, dead or told that it failed: no other operation of the *)
(* descriptor gets a running reservation, unless the answer was lost.      *)
DoubtHoldsTarget ==
    \A o \in Op \ lost, p \in Op :
        Applied(o) /\ op[o].status # "executed" /\ p # o /\ Kind(p) = Kind(o)
        => res[p].state # "running"

(* "after claim, the worker owns terminal execution": whatever crashes, a  *)
(* claimed operation is decided in the end, on its record or, when its     *)
(* worker dies between the two, on its reservation.                        *)
ClaimsAreDecided ==
    \A o \in Op :
        op[o].status = "executing"
        ~> (op[o].status \in {"executed", "execution_failed"} \/ res[o].code = 409)

-----------------------------------------------------------------------------
(* Why they hold: the inductive invariant of PrivilegedOperationProof.     *)

Claimed == {"executing", "executed", "execution_failed"}

(* Where a worker is the owner of the reservation of its operation, and    *)
(* where it recovers one that was given up.                                *)
Owning == {"claim", "release", "authorize", "replan", "apply", "commit", "record",
           "complete", "settle", "mark", "fail", "distrust"}

Reviving == {"reauthorize", "recover", "recommit", "adopt_record", "adopt", "give_up"}

(* Who may still write for an operation.                                   *)
MayWrite(w, o) ==
    /\ Mine(w) = o
    /\ \/ wk[w].pc \in {"claim", "release", "authorize", "replan", "apply", "commit",
                        "record", "complete", "settle"}
       \/ wk[w].pc \in {"reauthorize", "recover", "recommit"} /\ Kind(o) # "import"

Holding(o) == res[o].state \in {"running", "reconcile_required"}

(* What a worker relies on: its place tells whose the reservation is, how  *)
(* far the record is, and what was written.                                *)
Knows(w) ==
    /\ IF wk[w].pc = "idle" THEN wk[w] = Idle ELSE Mine(w) \in Op
    /\ wk[w].pc \in Owning => res[Mine(w)].owner = w /\ res[Mine(w)].state # "none"
    /\ wk[w].pc \in Reviving => res[Mine(w)].state \in {"reconcile_required", "completed"}
    /\ wk[w].pc = "reserve" => op[Mine(w)].status \in {"approved", "revoked"} \cup Claimed
    /\ wk[w].pc = "claim" => op[Mine(w)].status \in {"approved", "revoked"}
    /\ wk[w].pc = "release" => op[Mine(w)].status = "revoked"
    /\ wk[w].pc \notin {"idle", "reserve", "claim", "release"} => op[Mine(w)].status \in Claimed
    /\ wk[w].pc \in {"complete", "adopt"} => op[Mine(w)].status = "executed"
    /\ wk[w].pc \in {"record", "complete"} => wk[w].done
    /\ wk[w].pc \in {"record", "complete", "adopt_record"} => Mine(w) \in inner
    /\ Committing(w) =>
         Mine(w) \notin inner /\ Kind(Mine(w)) = "backup" /\ Fresh(Mine(w))
    /\ wk[w].pc \in {"replan", "apply", "commit", "recommit"} =>
         /\ wk[w].seen <= version["authz"]
         /\ wk[w].seen = version["authz"] => granted
    /\ wk[w].pc \in {"authorize", "replan", "apply", "commit", "settle"} =>
         (res[Mine(w)].state = "running" /\ Mine(w) \in inner => Mine(w) \in lost)
    /\ wk[w].pc = "fail" /\ ~ wk[w].doubt => res[Mine(w)].code = 409

(* A reservation is acquired once, for an approved operation on a free     *)
(* target; once it is settled as failed nobody can write any more.         *)
Settled(o) ==
    /\ res[o].state = "none" => res[o] = NoReservation /\ op[o].status \notin Claimed
    /\ op[o].status \in {"none", "planned", "cancelled"} => res[o].state = "none"
    /\ res[o].state = "completed" <=> res[o].code # 0
    /\ res[o].code = 200 => op[o].status = "executed"
    /\ res[o].code = 409 => \A w \in Worker : ~ MayWrite(w, o)
    /\ \A p \in Op : Holding(o) /\ Holding(p) /\ Kind(o) = Kind(p) => o = p

(* What is on record, and what was written.                                *)
Truthful(o) ==
    /\ o \in inner <=> Applied(o)
    /\ o \in inner => op[o].status \in Claimed
    /\ op[o].status = "executed" => o \in inner
    /\ op[o].status = "execution_failed" /\ ~ op[o].doubt => res[o].code = 409
    /\ res[o].code = 409 /\ o \in inner => o \in lost
    /\ o \in inner \ lost /\ op[o].status # "executed" => Holding(o)

(* The locks of backup policies are held by one transaction at a time.     *)
OneCommits == \A v, w \in Worker : Committing(v) /\ Committing(w) => v = w

VersionsBounded == \A k \in Things : version[k] <= drifts + Cardinality(inner)

(* The inductive invariant.                                                *)
Inv ==
    /\ TypeOK /\ VersionsBounded
    /\ \A w \in Worker : Knows(w)
    /\ OneCommits
    /\ \A o \in Op : Settled(o) /\ Truthful(o)
    /\ AppliedAsReviewed

=============================================================================

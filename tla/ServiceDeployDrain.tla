------------------------- MODULE ServiceDeployDrain -------------------------
(***************************************************************************)
(* Replacing the control plane without interrupting what it has started:   *)
(* the admission fence of control_plane/service_deploy_drain.py and its    *)
(* caller, control_plane/workflows/launchplane_self_deploy.py.             *)
(*                                                                         *)
(* A request to replace the service pauses admission while admitted work   *)
(* blocks it, is dispatched to Dokploy when nothing does, and reopens      *)
(* admission when the new image starts.  Every method of the fence is one  *)
(* transaction under the admission lock, which worker claims and mutation  *)
(* reservations take as well, hence one action.  A request stands for the  *)
(* image and the marker it asks for, and a process for the request that    *)
(* brought it up; all requests name the one service target.  Leases of     *)
(* admitted work are live or past, without a clock of their own.           *)
(*                                                                         *)
(* Admitted work comes in four kinds, by what tells that nobody is at it:  *)
(*   release   a client-release reservation: its executor-exit receipt;    *)
(*   web       a generic-web deploy: the receipt, or its free execution    *)
(*             lock once it is known to need reconciliation;               *)
(*   preview   a preview apply: the receipt, or its free execution lock;   *)
(*   dispatch  a workflow dispatch of the outbox: its row is not running,  *)
(*             or unmarked with a lease that is past.                      *)
(***************************************************************************)
EXTENDS Integers

CONSTANTS
    Request,        \* self-deploy requests, by fingerprint
    Booted,         \* the service that runs before the first request
    BuildOf,        \* the image each process runs
    MarkerOf,       \* the deployment marker each process carries
    SupersedesOf,   \* the marker a repair names
    NoRequest, NoMarker,
    Op,             \* provider effects that need admission
    KindOf,         \* what each of them is
    MaxAttempt,     \* bound on the attempts at one effect
    Pause,          \* how long a drain withholds admission
    Budget,         \* SERVICE_DEPLOY_DRAIN_TIMEOUT_SECONDS
    MaxNow          \* bound on the clock

Process == Request \cup {Booted}

ASSUME DrainAssumption ==
    /\ Booted \notin Request /\ NoRequest \notin Process
    /\ \A p \in Process : MarkerOf[p] # NoMarker
    /\ \A r \in Request : MarkerOf[r] # MarkerOf[Booted]
    /\ KindOf \in [Op -> {"release", "web", "preview", "dispatch"}]
    /\ MaxAttempt \in Nat \ {0} /\ MaxNow \in Nat
    /\ Pause \in Nat \ {0} /\ Budget \in Nat \ {0}

VARIABLES
    now,        \* the database clock
    fence,      \* the "service" row
    receipt,    \* the "request:..." rows
    deadline,   \* drain_deadline_at of the "budget:..." rows
    timedOut,   \* their drain_timed_out
    caller,     \* the holder of the dispatch lock
    calls,      \* what became of each call to Dokploy
    env,        \* whose image and marker the Dokploy target names
    procs,      \* the service processes that are up
    started,    \* those that were ever up
    row,        \* the rows of admitted work
    exec        \* who is at work on it

fences == <<fence, receipt, deadline, timedOut>>
provider == <<calls, env, procs, started>>
work == <<row, exec>>
vars == <<now, fences, caller, provider, work>>

FenceRow == [req     : Request \cup {NoRequest},
             state   : {"none", "draining", "dispatching", "requested",
                        "confirmed", "refused"},
             expires : 0..(MaxNow + Pause),
             prev    : Request \cup {NoRequest}]

NoFence == [req |-> NoRequest, state |-> "none", expires |-> 0, prev |-> NoRequest]

Caller == [req : Request \cup {NoRequest}, by : Process,
           at : {"env", "env_sent", "trigger", "trigger_sent", "record"}]

NoCaller == [req |-> NoRequest, by |-> Booted, at |-> "env"]

Call == {"env", "deploy"} \X Request

WorkRow == [state   : {"none", "running", "reconcile_required", "completed"},
            attempt : 0..MaxAttempt,
            lease   : {"live", "past"},
            marker  : BOOLEAN,          \* provider_operation_key is set
            exit    : 0..MaxAttempt]    \* attempt of the executor-exit receipt

NoWork == [state |-> "none", attempt |-> 0, lease |-> "past", marker |-> FALSE, exit |-> 0]

(* An executor has begun when it may act on the provider.                  *)
Executor == [op : Op, attempt : 1..MaxAttempt, by : Process, begun : BOOLEAN]

Init ==
    /\ now = 0
    /\ fence = NoFence
    /\ receipt = [r \in Request |-> NoFence]
    /\ deadline = [r \in Request |-> 0]
    /\ timedOut = [r \in Request |-> FALSE]
    /\ caller = NoCaller
    /\ calls = [c \in Call |-> "none"]
    /\ env = Booted
    /\ procs = {Booted}
    /\ started = {Booted}
    /\ row = [o \in Op |-> NoWork]
    /\ exec = {}

-----------------------------------------------------------------------------
(* Who may start work, and who is at work.                                 *)

SameBuild(r, p) == BuildOf[r] = BuildOf[p] /\ MarkerOf[r] = MarkerOf[p]

AdmissionAllowed(p) ==
    \/ fence.state = "none"
    \/ fence.state = "draining" /\ fence.expires <= now
    \/ fence.state = "confirmed" /\ SameBuild(fence.req, p)

ExitRecorded(o) == row[o].state = "reconcile_required" /\ row[o].exit = row[o].attempt

(* The target's execution lock is held from before the reservation until   *)
(* the executor is gone.                                                   *)
LockKind(o) == KindOf[o] \in {"web", "preview"}
LockFree(o) == \A e \in exec : e.op # o

(* Mutated: an expired lease alone counts as nobody at work.               *)
ExecutionExcludedByLease(o) ==
    \/ ExitRecorded(o)
    \/ /\ row[o].lease = "past"
       /\ KindOf[o] = "preview" \/ (KindOf[o] = "web" /\ row[o].state = "reconcile_required")

ExecutionExcluded(o) ==
    \/ ExitRecorded(o)
    \/ /\ row[o].lease = "past"
       /\ KindOf[o] = "preview" \/ (KindOf[o] = "web" /\ row[o].state = "reconcile_required")
       /\ LockFree(o)

Blocks(o) ==
    IF KindOf[o] = "dispatch"
    THEN row[o].state = "running" /\ (row[o].marker \/ row[o].lease = "live")
    ELSE row[o].state \in {"running", "reconcile_required"} /\ ~ ExecutionExcluded(o)

Blockers == {o \in Op : Blocks(o)}

-----------------------------------------------------------------------------
(* A self-deploy request, sent once or polled again.                       *)

Write(f) ==
    /\ fence' = f
    /\ receipt' = [receipt EXCEPT ![f.req] = f]

RepairMatches(r) == fence.state # "none" /\ SupersedesOf[r] = MarkerOf[fence.req]

ContinuingDrain(r) == fence.req = r /\ fence.state = "draining"

MarkerUsed(r) ==
    \E q \in Request \ {r} : receipt[q].state # "none" /\ MarkerOf[q] = MarkerOf[r]

(* Mutated: a refused request may be sent again.                           *)
MayPrepareRefused(p, r) ==
    /\ receipt[r].state \in {"none", "draining", "refused"}
    /\ ~ timedOut[r]
    /\ MarkerOf[r] # MarkerOf[p]
    /\ ~ MarkerUsed(r)
    /\ SupersedesOf[r] # NoMarker => RepairMatches(r) \/ ContinuingDrain(r)
    /\ fence.state \in {"dispatching", "requested"} => RepairMatches(r)
    /\ fence.state = "draining" /\ fence.req # r => fence.expires <= now

(* What prepare asks before it touches anything.                           *)
MayPrepare(p, r) ==
    /\ receipt[r].state \in {"none", "draining"}
    /\ ~ timedOut[r]
    /\ MarkerOf[r] # MarkerOf[p]
    /\ ~ MarkerUsed(r)
    /\ SupersedesOf[r] # NoMarker => RepairMatches(r) \/ ContinuingDrain(r)
    /\ fence.state \in {"dispatching", "requested"} => RepairMatches(r)
    /\ fence.state = "draining" /\ fence.req # r => fence.expires <= now

Polled(r) == receipt[r].state # "none"

OutOfTime(r) == Polled(r) /\ now >= deadline[r]

(* The fence of a request that drains or dispatches now.                   *)
FenceOf(r, state, expires) ==
    [req |-> r, state |-> state, expires |-> expires,
     prev |-> IF fence.req = r THEN fence.prev ELSE fence.req]

StartBudget(r) ==
    deadline' = [deadline EXCEPT ![r] = IF Polled(r) THEN @ ELSE now + Budget]

(* prepare, polled after its absolute deadline: only the pause ends.       *)
DrainTimesOut(p, r) ==
    /\ caller.req = NoRequest
    /\ p \in procs
    /\ MayPrepare(p, r)
    /\ OutOfTime(r)
    /\ Write([receipt[r] EXCEPT !.expires = now])
    /\ timedOut' = [timedOut EXCEPT ![r] = TRUE]
    /\ UNCHANGED <<now, deadline, caller, provider, work>>

(* Mutated: polling keeps a drain alive beyond its deadline.               *)
DrainOn(p, r) ==
    /\ caller.req = NoRequest
    /\ p \in procs
    /\ MayPrepare(p, r)
    /\ Blockers # {}
    /\ Write(FenceOf(r, "draining", now + Pause))
    /\ StartBudget(r)
    /\ UNCHANGED <<now, timedOut, caller, provider, work>>

(* prepare, while admitted work blocks the replacement.                    *)
Drain(p, r) ==
    /\ caller.req = NoRequest
    /\ p \in procs
    /\ MayPrepare(p, r)
    /\ ~ OutOfTime(r)
    /\ Blockers # {}
    /\ Write(FenceOf(r, "draining", now + Pause))
    /\ StartBudget(r)
    /\ UNCHANGED <<now, timedOut, caller, provider, work>>

(* prepare, when nothing does: this caller owns the dispatch.              *)
OwnDispatch(p, r) ==
    /\ caller.req = NoRequest
    /\ p \in procs
    /\ MayPrepare(p, r)
    /\ ~ OutOfTime(r)
    /\ Blockers = {}
    /\ Write(FenceOf(r, "dispatching", 0))
    /\ StartBudget(r)
    /\ caller' = [req |-> r, by |-> p, at |-> "env"]
    /\ UNCHANGED <<now, timedOut, provider, work>>

(* A call to Dokploy; "again" is a call that was made before.              *)
SendCall(kind, after) ==
    /\ calls' = [calls EXCEPT ![<<kind, caller.req>>] = IF @ = "none" THEN "sent" ELSE "again"]
    /\ caller' = [caller EXCEPT !.at = after]
    /\ UNCHANGED <<now, fences, env, procs, started, work>>

UpdateEnv ==
    /\ caller.req # NoRequest /\ caller.at = "env"
    /\ SendCall("env", "env_sent")

TriggerDeployment ==
    /\ caller.req # NoRequest /\ caller.at = "trigger"
    /\ SendCall("deploy", "trigger_sent")

Answered ==
    /\ caller.req # NoRequest
    /\ \/ /\ caller.at = "env_sent" /\ calls[<<"env", caller.req>>] = "landed"
          /\ caller' = [caller EXCEPT !.at = "trigger"]
       \/ /\ caller.at = "trigger_sent" /\ calls[<<"deploy", caller.req>>] \in {"landed", "up"}
          /\ caller' = [caller EXCEPT !.at = "record"]
    /\ UNCHANGED <<now, fences, provider, work>>

(* Any other error leaves the outcome unknown and the fence as it is.      *)
OutcomeUnknown ==
    /\ caller.req # NoRequest /\ caller.at \in {"env_sent", "trigger_sent", "record"}
    /\ caller' = NoCaller
    /\ UNCHANGED <<now, fences, provider, work>>

(* Mutated: the fence of the request before is not put back.               *)
RecordPreEffectRefusalOpens ==
    /\ caller.req # NoRequest /\ caller.at = "env_sent"
    /\ calls[<<"env", caller.req>>] = "dropped"
    /\ fence.req = caller.req /\ fence.state = "dispatching"
    /\ receipt' = [receipt EXCEPT ![caller.req] = [fence EXCEPT !.state = "refused"]]
    /\ fence' = NoFence
    /\ caller' = NoCaller
    /\ UNCHANGED <<now, deadline, timedOut, provider, work>>

(* Mutated: any failed env update counts as refused.                       *)
RecordPreEffectRefusalAny ==
    /\ caller.req # NoRequest /\ caller.at = "env_sent"
    /\ fence.req = caller.req /\ fence.state = "dispatching"
    /\ receipt' = [receipt EXCEPT ![caller.req] = [fence EXCEPT !.state = "refused"]]
    /\ fence' = IF fence.prev = NoRequest THEN NoFence ELSE receipt[fence.prev]
    /\ caller' = NoCaller
    /\ UNCHANGED <<now, deadline, timedOut, provider, work>>

(* A 4xx answer to the env update: record_pre_effect_refusal puts the      *)
(* fence of the request before back.                                       *)
RecordPreEffectRefusal ==
    /\ caller.req # NoRequest /\ caller.at = "env_sent"
    /\ calls[<<"env", caller.req>>] = "dropped"
    /\ fence.req = caller.req /\ fence.state = "dispatching"
    /\ receipt' = [receipt EXCEPT ![caller.req] = [fence EXCEPT !.state = "refused"]]
    /\ fence' = IF fence.prev = NoRequest THEN NoFence ELSE receipt[fence.prev]
    /\ caller' = NoCaller
    /\ UNCHANGED <<now, deadline, timedOut, provider, work>>

RecordDispatch ==
    /\ caller.req # NoRequest /\ caller.at = "record"
    /\ IF fence.req = caller.req /\ fence.state = "dispatching"
       THEN Write([fence EXCEPT !.state = "requested"])
       ELSE UNCHANGED <<fence, receipt>>
    /\ caller' = NoCaller
    /\ UNCHANGED <<now, deadline, timedOut, provider, work>>

(* Mutated: the marker is not compared.                                    *)
ConfirmStartupByImage(p) ==
    /\ p \in procs
    /\ fence.state \in {"dispatching", "requested"}
    /\ BuildOf[fence.req] = BuildOf[p]
    /\ Write([fence EXCEPT !.state = "confirmed"])
    /\ UNCHANGED <<now, deadline, timedOut, caller, provider, work>>

(* At startup, and again whenever the runtime status is read.              *)
ConfirmStartup(p) ==
    /\ p \in procs
    /\ fence.state \in {"dispatching", "requested"}
    /\ SameBuild(fence.req, p)
    /\ Write([fence EXCEPT !.state = "confirmed"])
    /\ UNCHANGED <<now, deadline, timedOut, caller, provider, work>>

-----------------------------------------------------------------------------
(* Admitted work.                                                          *)

(* The row that a new executor finds free: new, to be retried because no   *)
(* effect of it is possible any more (ProviderOperation!ExclusiveEffect),  *)
(* or, for an unmarked dispatch, left by a worker whose lease is past.     *)
Startable(o) ==
    /\ row[o].attempt < MaxAttempt
    /\ \/ row[o].state = "none"
       \/ /\ row[o].state = "reconcile_required" /\ KindOf[o] # "dispatch"
          /\ \A e \in exec : e.op = o => ~ e.begun
       \/ /\ KindOf[o] = "dispatch" /\ row[o].state = "running"
          /\ ~ row[o].marker /\ row[o].lease = "past"
    /\ LockKind(o) => LockFree(o)

Take(p, o) ==
    /\ row' = [row EXCEPT ![o].state = "running", ![o].attempt = @ + 1, ![o].lease = "live"]
    /\ exec' = exec \cup {[op |-> o, attempt |-> row[o].attempt + 1, by |-> p, begun |-> FALSE]}
    /\ UNCHANGED <<now, fences, caller, provider>>

Admit(p, o) ==
    /\ p \in procs
    /\ AdmissionAllowed(p)
    /\ Startable(o)
    /\ Take(p, o)

(* A marked dispatch may be claimed under the fence, to look for its run.  *)
ClaimMarked(p, o) ==
    /\ p \in procs
    /\ KindOf[o] = "dispatch" /\ row[o].marker
    /\ \/ row[o].state = "reconcile_required"
       \/ row[o].state = "running" /\ row[o].lease = "past"
    /\ row[o].attempt < MaxAttempt
    /\ Take(p, o)

Holds(e) == row[e.op].state = "running" /\ row[e.op].attempt = e.attempt

(* Mutated: the lease is not checked.                                      *)
BeginEffectLate(e) ==
    /\ Holds(e) /\ ~ e.begun
    /\ KindOf[e.op] = "dispatch" => ~ row[e.op].marker
    /\ row' = [row EXCEPT ![e.op].marker = KindOf[e.op] = "dispatch"]
    /\ exec' = (exec \ {e}) \cup {[e EXCEPT !.begun = TRUE]}
    /\ UNCHANGED <<now, fences, caller, provider>>

(* An executor may act once its checkpoint, or its dispatch's provider     *)
(* start, is on record.                                                    *)
BeginEffect(e) ==
    /\ Holds(e) /\ ~ e.begun
    /\ row[e.op].lease = "live"
    /\ KindOf[e.op] = "dispatch" => ~ row[e.op].marker
    /\ row' = [row EXCEPT ![e.op].marker = KindOf[e.op] = "dispatch"]
    /\ exec' = (exec \ {e}) \cup {[e EXCEPT !.begun = TRUE]}
    /\ UNCHANGED <<now, fences, caller, provider>>

(* Its worker is done: delivered, in doubt, or no longer the owner.        *)
FinishDispatch(e) ==
    /\ KindOf[e.op] = "dispatch"
    /\ exec' = exec \ {e}
    /\ IF Holds(e) /\ row[e.op].lease = "live" /\ row[e.op].marker
       THEN \E state \in {"completed", "reconcile_required"} :
               row' = [row EXCEPT ![e.op].state = state, ![e.op].lease = "past"]
       ELSE UNCHANGED row
    /\ UNCHANGED <<now, fences, caller, provider>>

(* Its executor completes a reservation: under its lease, or, found in     *)
(* doubt, by adopting its own outcome (_complete_or_adopt_outcome).        *)
CompleteReservation(e) ==
    /\ KindOf[e.op] # "dispatch"
    /\ row[e.op].attempt = e.attempt
    /\ \/ row[e.op].state = "running" /\ row[e.op].lease = "live"
       \/ row[e.op].state = "reconcile_required"
    /\ row' = [row EXCEPT ![e.op].state = "completed", ![e.op].lease = "past"]
    /\ exec' = exec \ {e}
    /\ UNCHANGED <<now, fences, caller, provider>>

(* Mutated: the execution lock of a preview is not taken.                  *)
AdoptUnlocked(o) ==
    /\ KindOf[o] # "dispatch"
    /\ \/ row[o].state = "reconcile_required"
       \/ row[o].state = "running" /\ row[o].lease = "past" /\ KindOf[o] # "preview"
    /\ row' = [row EXCEPT ![o].state = "completed", ![o].lease = "past"]
    /\ UNCHANGED <<now, fences, caller, provider, exec>>

(* Another request of its key, or its recovery, finds the effect at the    *)
(* provider and completes a reservation in doubt, or one whose lease is    *)
(* past on reviewed evidence.  The executor is not asked: only previews    *)
(* are reconciled under their execution lock.                              *)
Adopt(o) ==
    /\ KindOf[o] # "dispatch"
    /\ \/ row[o].state = "reconcile_required"
       \/ row[o].state = "running" /\ row[o].lease = "past" /\ KindOf[o] # "preview"
    /\ KindOf[o] = "preview" => LockFree(o)
    /\ row' = [row EXCEPT ![o].state = "completed", ![o].lease = "past"]
    /\ UNCHANGED <<now, fences, caller, provider, exec>>

(* Its executor gives a reservation up before any effect: the row is       *)
(* deleted.  Its attempt stays, to tell later executors from earlier ones. *)
GiveUp(e) ==
    /\ KindOf[e.op] # "dispatch"
    /\ Holds(e) /\ ~ e.begun
    /\ row' = [row EXCEPT ![e.op].state = "none", ![e.op].lease = "past"]
    /\ exec' = exec \ {e}
    /\ UNCHANGED <<now, fences, caller, provider>>

(* Left in doubt by its executor, or by a request that finds its lease past. *)
MarkReconcileRequired(o) ==
    /\ KindOf[o] # "dispatch"
    /\ row[o].state = "running"
    /\ row[o].lease = "past" \/ \E e \in exec : e.op = o /\ Holds(e)
    /\ row' = [row EXCEPT ![o].state = "reconcile_required"]
    /\ UNCHANGED <<now, fences, caller, provider, exec>>

(* Mutated: the receipt is written for whatever attempt the row is at.     *)
RecordExecutorExitOfAny(e) ==
    /\ KindOf[e.op] # "dispatch"
    /\ exec' = exec \ {e}
    /\ IF row[e.op].state = "reconcile_required"
       THEN row' = [row EXCEPT ![e.op].exit = row[e.op].attempt]
       ELSE UNCHANGED row
    /\ UNCHANGED <<now, fences, caller, provider>>

(* The executor leaves; its receipt is for its own attempt.                *)
RecordExecutorExit(e) ==
    /\ KindOf[e.op] # "dispatch"
    /\ exec' = exec \ {e}
    /\ \/ /\ row[e.op].state = "reconcile_required" /\ row[e.op].attempt = e.attempt
          /\ row' = [row EXCEPT ![e.op].exit = e.attempt]
       \/ UNCHANGED row
    /\ UNCHANGED <<now, fences, caller, provider>>

-----------------------------------------------------------------------------
(* The environment.                                                        *)

(* Dokploy gets to a call: it changes the target's env or queues a         *)
(* deployment, which later starts what the env names by then.              *)
Land(c) ==
    /\ calls[c] = "sent"
    /\ calls' = [calls EXCEPT ![c] = "landed"]
    /\ env' = IF c[1] = "env" THEN c[2] ELSE env
    /\ UNCHANGED <<now, fences, caller, procs, started, work>>

Startup(r) ==
    /\ calls[<<"deploy", r>>] = "landed"
    /\ calls' = [calls EXCEPT ![<<"deploy", r>>] = "up"]
    /\ procs' = procs \cup {env}
    /\ started' = started \cup {env}
    /\ UNCHANGED <<now, fences, caller, env, work>>

Drop(c) ==
    /\ calls[c] = "sent"
    /\ calls' = [calls EXCEPT ![c] = "dropped"]
    /\ UNCHANGED <<now, fences, caller, env, procs, started, work>>

(* A process dies and comes back, or, replaced, stays away.                *)
Crash(p) ==
    /\ p \in procs
    /\ exec' = {e \in exec : e.by # p}
    /\ caller' = IF caller.by = p THEN NoCaller ELSE caller
    /\ procs' \in {procs, procs \ {p}} \ {{}}
    /\ UNCHANGED <<now, fences, calls, env, started, row>>

LeaseExpires(o) ==
    /\ row[o].state \in {"running", "reconcile_required"} /\ row[o].lease = "live"
    /\ row' = [row EXCEPT ![o].lease = "past"]
    /\ UNCHANGED <<now, fences, caller, provider, exec>>

Tick ==
    /\ now < MaxNow
    /\ now' = now + 1
    /\ UNCHANGED <<fences, caller, provider, work>>

Next ==
    \/ \E p \in Process, r \in Request :
          DrainTimesOut(p, r) \/ Drain(p, r) \/ OwnDispatch(p, r)
    \/ UpdateEnv \/ TriggerDeployment \/ Answered \/ OutcomeUnknown
    \/ RecordPreEffectRefusal \/ RecordDispatch
    \/ \E p \in Process : ConfirmStartup(p) \/ Crash(p)
    \/ \E p \in Process, o \in Op : Admit(p, o) \/ ClaimMarked(p, o)
    \/ \E e \in exec :
          BeginEffect(e) \/ FinishDispatch(e) \/ CompleteReservation(e)
            \/ RecordExecutorExit(e) \/ GiveUp(e)
    \/ \E o \in Op : MarkReconcileRequired(o) \/ Adopt(o) \/ LeaseExpires(o)
    \/ \E c \in Call : Land(c) \/ Drop(c)
    \/ \E r \in Request : Startup(r)
    \/ Tick

Spec == Init /\ [][Next]_vars

-----------------------------------------------------------------------------
(* Properties.                                                             *)

(* Type invariant: every variable keeps its shape.                         *)
TypeOK ==
    /\ now \in 0..MaxNow
    /\ fence \in FenceRow
    /\ receipt \in [Request -> FenceRow]
    /\ deadline \in [Request -> 0..(MaxNow + Budget)]
    /\ timedOut \in [Request -> BOOLEAN]
    /\ caller \in Caller
    /\ calls \in [Call -> {"none", "sent", "landed", "up", "dropped", "again"}]
    /\ env \in Process
    /\ procs \subseteq Process
    /\ started \subseteq Process
    /\ row \in [Op -> WorkRow]
    /\ exec \subseteq Executor

InDoubt == {"dispatching", "requested"}

(* "running work must commit before replacement is dispatched"             *)
(* (service_deploy_drain.py:4): from the moment a replacement may be       *)
(* dispatched until it is up, the executor of a reservation, be it slow,   *)
(* past its lease, or one of several attempts, can be at its effect only   *)
(* if the outcome of that very attempt was committed meanwhile: another    *)
(* adopted it, which nobody can do for a preview.                          *)
ReplacementWaits ==
    fence.state \in InDoubt =>
        \A e \in exec : KindOf[e.op] # "dispatch" /\ e.begun =>
            /\ KindOf[e.op] # "preview"
            /\ row[e.op].state = "completed" /\ row[e.op].attempt = e.attempt

(* "No new provider effect was admitted while the service drains"          *)
(* (service_deploy_drain.py:59): an executor admitted earlier that has not *)
(* begun does not begin after the replacement was dispatched.              *)
NobodyBegins ==
    [][fence.state \in InDoubt => \A e \in exec' : e.begun => e \in exec]_vars

(* "A repeated request after dispatch returns the saved state without      *)
(* dispatching again, including after a lost HTTP response"                *)
(* (service_deploy_drain.py:419): no request calls Dokploy twice.          *)
DispatchedOnce == \A c \in Call : calls[c] # "again"

(* What a receipt says of Dokploy is true, then and later.  A request      *)
(* reported as refused or timed out before effects                         *)
(* (service_deploy_drain.py:79) has none.  "only startup of its exact      *)
(* image and marker can confirm it" (service_deploy_drain.py:5): the       *)
(* process of a confirmed request was up.                                  *)
ReceiptsAreTrue ==
    \A r \in Request :
        /\ timedOut[r] \/ receipt[r].state = "refused"
           => /\ r \notin started /\ env # r
              /\ \A c \in Call : c[2] = r => calls[c] \in {"none", "dropped"}
              /\ caller.req # r
        /\ receipt[r].state = "confirmed" => r \in started

(* A dispatch in doubt is not forgotten: its request is the current fence, *)
(* or another request has taken it over and was not refused since.         *)
InDoubtIsFenced ==
    \A r \in Request :
        receipt[r].state \in InDoubt
        => \/ fence.req = r
           \/ \E q \in Request : receipt[q].prev = r /\ receipt[q].state # "refused"

(* "The absolute pre-effect budget elapsed" (service_deploy_drain.py:83):  *)
(* however often it is polled, a drain withholds admission no longer than  *)
(* one pause beyond its deadline.                                          *)
PauseIsBounded ==
    fence.state = "draining" /\ fence.expires > now
    => fence.expires < deadline[fence.req] + Pause

-----------------------------------------------------------------------------
(* Why they hold: the inductive invariant of ServiceDeployDrainProof.      *)

(* The fence is the receipt of its request; a receipt names its request    *)
(* and an earlier one; no two of them carry one marker; a repair follows   *)
(* the request that its marker names.                                      *)
ReceiptsAgree ==
    /\ fence = NoFence \/ (fence.req \in Request /\ fence = receipt[fence.req])
    /\ \A r \in Request :
         receipt[r] # NoFence =>
             /\ receipt[r].req = r /\ Polled(r)
             /\ receipt[r].prev \in Request \ {r} => Polled(receipt[r].prev)
             /\ receipt[r].prev # r
             /\ \A q \in Request \ {r} : Polled(q) => MarkerOf[q] # MarkerOf[r]
             /\ SupersedesOf[r] # NoMarker =>
                  /\ receipt[r].prev \in Request
                  /\ MarkerOf[receipt[r].prev] = SupersedesOf[r]

(* Nothing was sent for a request that only drains, each call is sent in   *)
(* its turn, and what runs was asked for.                                  *)
CallsInTurn ==
    /\ \A r \in Request :
         /\ receipt[r].state \in {"none", "draining"}
            => caller.req # r /\ calls[<<"env", r>>] = "none" /\ calls[<<"deploy", r>>] = "none"
         /\ caller.req = r /\ caller.at = "env" => calls[<<"env", r>>] = "none"
         /\ caller.req = r /\ caller.at \in {"env", "env_sent", "trigger"}
            => calls[<<"deploy", r>>] = "none"
         /\ timedOut[r] => receipt[r].state = "draining"
         /\ (env = r \/ r \in started) => calls[<<"env", r>>] = "landed"
    /\ procs \subseteq started

(* A dispatch in doubt is the fence or has a repair that is not refused.   *)
DoubtIsRepaired ==
    \A r \in Request :
        receipt[r].state \in InDoubt
        => \/ fence.req = r
           \/ \E q \in Request : /\ SupersedesOf[q] = MarkerOf[r]
                                 /\ receipt[q].prev = r /\ receipt[q].state # "refused"

(* No drain of the past or the present outlives its budget.                *)
DrainsAreBounded ==
    \A r \in Request :
        receipt[r].state = "draining" /\ receipt[r].expires > now
        => receipt[r].expires < deadline[r] + Pause

(* One executor per attempt, none after its receipt; one that acts for a   *)
(* reservation is at the current attempt, and a preview is not completed   *)
(* behind its back.                                                        *)
ExecutorsAgree ==
    /\ \A o \in Op : row[o].exit <= row[o].attempt
    /\ \A e \in exec :
         /\ e.attempt <= row[e.op].attempt /\ e.attempt # row[e.op].exit
         /\ \A x \in exec : x.op = e.op /\ x.attempt = e.attempt => x = e
         /\ KindOf[e.op] # "dispatch" /\ e.begun =>
              /\ e.attempt = row[e.op].attempt
              /\ \/ row[e.op].state \in {"running", "reconcile_required"}
                 \/ row[e.op].state = "completed" /\ KindOf[e.op] # "preview"

(* Whoever is still in time to begin.                                      *)
MayBegin(e) ==
    /\ Holds(e) /\ ~ e.begun
    /\ row[e.op].lease = "live"
    /\ KindOf[e.op] = "dispatch" => ~ row[e.op].marker

DoubtIsQuiet == fence.state \in InDoubt => \A e \in exec : ~ MayBegin(e)

(* The inductive invariant.                                                *)
Inv ==
    /\ TypeOK
    /\ ReceiptsAgree /\ CallsInTurn /\ DoubtIsRepaired /\ DrainsAreBounded
    /\ ExecutorsAgree /\ DoubtIsQuiet
    /\ ReplacementWaits /\ DispatchedOnce /\ ReceiptsAreTrue

=============================================================================

--------------------------- MODULE OutboxDelivery ---------------------------
(***************************************************************************)
(* The transactional outbox: delivery rows, the worker loop that claims    *)
(* them (control_plane/outbox_worker.py, the outbox methods of             *)
(* control_plane/storage/postgres.py) and what each kind of delivery does  *)
(* when it finds the marker of an earlier, interrupted send:               *)
(*   dispatch  a GitHub workflow dispatch only looks for its run;          *)
(*   issue     a GitHub issue notice looks for its marker, then sends;     *)
(*   discord   a Discord notice, digest or reminder gives up;              *)
(*   email     an e-mail notice gives up as well.                          *)
(*                                                                         *)
(* Every store method is one transaction, hence one action.  The database  *)
(* clock appears as what it decides: a row is due or not, and a lease is   *)
(* live, at its exact end ("edge": neither completable nor claimable), or  *)
(* past.  A worker of the model is a lease owner; a restarted process may  *)
(* come back under the same name.                                          *)
(***************************************************************************)
EXTENDS Integers

CONSTANTS
    Worker,        \* lease owners
    Delivery,      \* delivery rows, one per dedupe key
    KindOf,        \* what each delivery is
    FailuresOf,    \* the failure notices a recovery notice waits for
    MaxAttempts,   \* max_attempts
    NoWorker       \* no lease owner

ASSUME OutboxAssumption ==
    /\ Delivery # {}
    /\ KindOf \in [Delivery -> {"dispatch", "issue", "discord", "email"}]
    /\ FailuresOf \in [Delivery -> SUBSET Delivery]
    /\ \A d \in Delivery : FailuresOf[d] # {} => KindOf[d] # "dispatch"
    /\ \A d \in Delivery : \A f \in FailuresOf[d] : KindOf[f] = KindOf[d]
    /\ MaxAttempts \in Nat \ {0}
    /\ NoWorker \notin Worker

VARIABLES
    box,       \* the delivery rows
    pc,        \* where each worker is
    rec,       \* the claimed record each worker holds
    out,       \* the result each worker is about to store
    flight,    \* provider calls under way, as <<delivery, attempt>>
    taken      \* provider calls that took hold

vars == <<box, pc, rec, out, flight, taken>>

Calls == Delivery \X (1..MaxAttempts)

Row == [state   : {"none", "pending", "running", "reconcile_required",
                   "delivered", "failed"},
        owner   : Worker \cup {NoWorker},
        lease   : {"none", "live", "edge", "past"},
        attempt : 0..MaxAttempts,
        due     : BOOLEAN,
        marker  : BOOLEAN,          \* provider_operation_key is set
        seen    : SUBSET Calls,     \* previous_run_ids
        sent    : BOOLEAN]          \* a delivered attempt is on record

NoRow == [state |-> "none", owner |-> NoWorker, lease |-> "none", attempt |-> 0,
          due |-> FALSE, marker |-> FALSE, seen |-> {}, sent |-> FALSE]

Claimed == [id : Delivery, attempt : 1..MaxAttempts, marker : BOOLEAN,
            seen : SUBSET Calls]

Result == [state : {"pending", "reconcile_required", "delivered", "failed"},
           marker : BOOLEAN, sent : BOOLEAN]

(* Between two deliveries a worker holds nothing.                          *)
NoClaim == [id |-> CHOOSE d \in Delivery : TRUE, attempt |-> 1, marker |-> FALSE,
            seen |-> {}]
NoResult == [state |-> "failed", marker |-> FALSE, sent |-> FALSE]

Unsettled(d) == box[d].state \in {"pending", "running", "reconcile_required"}

Runs == {r \in taken : KindOf[r[1]] = "dispatch"}

Call(w) == <<rec[w].id, rec[w].attempt>>
Kind(w) == KindOf[rec[w].id]

Init ==
    /\ box = [d \in Delivery |-> NoRow]
    /\ pc = [w \in Worker |-> "idle"]
    /\ rec = [w \in Worker |-> NoClaim]
    /\ out = [w \in Worker |-> NoResult]
    /\ flight = {}
    /\ taken = {}

Goto(w, label) == pc' = [pc EXCEPT ![w] = label]

(* The worker is free again.                                               *)
Finish(w) ==
    /\ rec' = [rec EXCEPT ![w] = NoClaim]
    /\ out' = [out EXCEPT ![w] = NoResult]
    /\ Goto(w, "idle")

(* The worker will store this result.                                      *)
Return(w, state, marker, sent) ==
    /\ out' = [out EXCEPT ![w] = [state |-> state, marker |-> marker, sent |-> sent]]
    /\ Goto(w, "complete")
    /\ UNCHANGED rec

-----------------------------------------------------------------------------
(* The delivery rows.                                                      *)

(* enqueue_outbox_delivery_with_idempotency: a dedupe key that has a row   *)
(* keeps it.  A recovery is observed after the failures it ends.           *)
Enqueue(d) ==
    /\ box[d].state = "none"
    /\ \A f \in FailuresOf[d] : box[f].state # "none"
    /\ box' = [box EXCEPT ![d] = [NoRow EXCEPT !.state = "pending", !.due = TRUE]]
    /\ UNCHANGED <<pc, rec, out, flight, taken>>

(* Mutated: the row of a dead worker is not selected.                      *)
ClaimableIdleOnly(d, admitted) ==
    /\ box[d].state \in {"pending", "reconcile_required"}
    /\ box[d].due
    /\ \A f \in FailuresOf[d] : ~ Unsettled(f)
    /\ admitted \/ KindOf[d] # "dispatch" \/ box[d].marker

(* The rows claim_next_outbox_delivery_record selects from.                *)
Claimable(d, admitted) ==
    /\ Unsettled(d)
    /\ box[d].due
    /\ box[d].state = "running" => box[d].lease = "past"
    /\ \A f \in FailuresOf[d] : ~ Unsettled(f)
    /\ admitted \/ KindOf[d] # "dispatch" \/ box[d].marker

(* Mutated: one attempt too many.                                          *)
ClaimOnceMore(w, d, admitted) ==
    /\ pc[w] = "idle"
    /\ Claimable(d, admitted)
    /\ box[d].attempt <= MaxAttempts
    /\ box' = [box EXCEPT ![d].state = "running", ![d].owner = w, ![d].lease = "live",
                          ![d].attempt = @ + 1]
    /\ rec' = [rec EXCEPT ![w] = [id |-> d, attempt |-> box[d].attempt + 1,
                                  marker |-> box[d].marker, seen |-> box[d].seen]]
    /\ Goto(w, "claimed")
    /\ UNCHANGED <<out, flight, taken>>

(* claim_next_outbox_delivery_record takes a row over for one attempt.     *)
Claim(w, d, admitted) ==
    /\ pc[w] = "idle"
    /\ Claimable(d, admitted)
    /\ box[d].attempt < MaxAttempts
    /\ box' = [box EXCEPT ![d].state = "running", ![d].owner = w, ![d].lease = "live",
                          ![d].attempt = @ + 1]
    /\ rec' = [rec EXCEPT ![w] = [id |-> d, attempt |-> box[d].attempt + 1,
                                  marker |-> box[d].marker, seen |-> box[d].seen]]
    /\ Goto(w, "claimed")
    /\ UNCHANGED <<out, flight, taken>>

(* ... or ends a row whose attempts are used up.                           *)
Exhaust(w, d, admitted) ==
    /\ pc[w] = "idle"
    /\ Claimable(d, admitted)
    /\ box[d].attempt >= MaxAttempts
    /\ box' = [box EXCEPT ![d].state = "failed", ![d].owner = NoWorker,
                          ![d].lease = "none"]
    /\ UNCHANGED <<pc, rec, out, flight, taken>>

(* Mutated: any worker may write a running row.                            *)
OwnsAnyones(w) ==
    LET r == box[rec[w].id] IN r.state = "running" /\ r.lease = "live"

(* The checks of _update_running_outbox_delivery.                          *)
Owns(w) ==
    LET r == box[rec[w].id] IN
    /\ r.state = "running"
    /\ r.owner = w
    /\ r.lease = "live"

(* complete_outbox_delivery_record; a retry waits for its backoff.         *)
Complete(w) ==
    /\ pc[w] = "complete"
    /\ IF Owns(w)
       THEN box' = [box EXCEPT ![rec[w].id].state = out[w].state,
                               ![rec[w].id].owner = NoWorker,
                               ![rec[w].id].lease = "none",
                               ![rec[w].id].marker = out[w].marker,
                               ![rec[w].id].seen = rec[w].seen,
                               ![rec[w].id].sent = out[w].sent,
                               ![rec[w].id].due = out[w].state \in {"delivered", "failed"}]
       ELSE UNCHANGED box
    /\ Finish(w)
    /\ UNCHANGED <<flight, taken>>

-----------------------------------------------------------------------------
(* A claimed delivery, up to its provider call.                            *)

Recovery(w) == FailuresOf[rec[w].id] # {}

(* A recovery notice follows a failure notice that was delivered, or for   *)
(* an issue one that may have opened it.                                   *)
FailureShown(w) ==
    \E f \in FailuresOf[rec[w].id] :
        box[f].sent \/ (Kind(w) = "issue" /\ box[f].marker)

(* Mutated: a recovery does not ask whether a failure was ever shown.      *)
MaySendAlways(w) == TRUE

MaySend(w) == Recovery(w) => FailureShown(w)

(* Mutated: a skipped notice is recorded like a delivered one.             *)
SkipAsDelivered(w) ==
    /\ pc[w] = "claimed"
    /\ Kind(w) # "dispatch"
    /\ Return(w, "delivered", rec[w].marker, TRUE)
    /\ UNCHANGED <<box, flight, taken>>

(* The notice is obsolete: skipped, or failed when a send may have begun.  *)
Skip(w) ==
    /\ pc[w] = "claimed"
    /\ Kind(w) # "dispatch"
    /\ Return(w, IF rec[w].marker THEN "failed" ELSE "delivered", rec[w].marker, FALSE)
    /\ UNCHANGED <<box, flight, taken>>

(* A bad payload, no credentials, an unreadable store or provider.         *)
FailBeforeSend(w) ==
    /\ pc[w] = "claimed"
    /\ \E state \in {"failed", "pending"} : Return(w, state, rec[w].marker, FALSE)
    /\ UNCHANGED <<box, flight, taken>>

(* No marker yet: a dispatch lists the runs that exist before its own.     *)
Prepare(w) ==
    /\ pc[w] = "claimed"
    /\ ~ rec[w].marker
    /\ MaySend(w)
    /\ rec' = [rec EXCEPT ![w].seen = IF Kind(w) = "dispatch" THEN Runs ELSE {}]
    /\ Goto(w, "mark")
    /\ UNCHANGED <<box, out, flight, taken>>

(* What a worker does when the marker was refused or its reply was lost.   *)
MarkFailed(w) ==
    \/ Return(w, "pending", Kind(w) \in {"dispatch", "issue"}, FALSE)
    \/ Kind(w) = "discord" /\ Finish(w)

(* mark_outbox_delivery_provider_started, before the provider call.        *)
MarkProviderStarted(w) ==
    /\ pc[w] = "mark"
    /\ \/ /\ Owns(w)
          /\ box' = [box EXCEPT ![rec[w].id].marker = TRUE, ![rec[w].id].seen = rec[w].seen]
          /\ \/ Goto(w, "send") /\ UNCHANGED <<rec, out>>
             \/ MarkFailed(w)
       \/ MarkFailed(w) /\ UNCHANGED box
       \/ Owns(w) /\ Kind(w) = "discord" /\ Return(w, "delivered", FALSE, FALSE) /\ UNCHANGED box
    /\ UNCHANGED <<flight, taken>>

Send(w) ==
    /\ pc[w] = "send"
    /\ flight' = flight \cup {Call(w)}
    /\ Goto(w, "waiting")
    /\ UNCHANGED <<box, rec, out, taken>>

-----------------------------------------------------------------------------
(* What a worker makes of the answer, of its absence, or of an old marker. *)

(* A direct send that ended before anything left: no destination secret,   *)
(* or a Discord notice that does not page.                                 *)
NotSent(w) ==
    /\ pc[w] = "send"
    /\ Kind(w) \in {"discord", "email"}
    /\ \/ Return(w, "pending", FALSE, FALSE)
       \/ Kind(w) = "discord" /\ Return(w, "delivered", FALSE, FALSE)
    /\ UNCHANGED <<box, flight, taken>>

(* _latest_workflow_dispatch_run: adopt the one run that was not there     *)
(* before the dispatch; anything else stays in doubt.                      *)
ObserveRun(w) ==
    LET new == Runs \ rec[w].seen IN
    IF \E r \in new : new = {r}
    THEN Return(w, "delivered", TRUE, TRUE)
    ELSE Return(w, "reconcile_required", TRUE, FALSE)

DispatchAnswered(w) ==
    /\ pc[w] = "waiting"
    /\ Kind(w) = "dispatch"
    /\ \/ ObserveRun(w)
       \/ \E state \in {"failed", "pending"} : Return(w, state, TRUE, FALSE)
    /\ UNCHANGED <<box, flight, taken>>

IssueAnswered(w) ==
    /\ pc[w] = "waiting"
    /\ Kind(w) = "issue"
    /\ \/ Call(w) \in taken /\ Return(w, "delivered", TRUE, TRUE)
       \/ \E state \in {"failed", "pending"} : Return(w, state, TRUE, FALSE)
    /\ UNCHANGED <<box, flight, taken>>

(* Mutated: any failed Discord send is retried, as an e-mail is.           *)
DiscordResultsRetry(w) ==
    {r \in Result : r.sent = (r.state = "delivered") /\ ~ r.marker
                     /\ (r.sent => Call(w) \in taken) /\ r.state \in {"delivered", "pending"}}

(* What a Discord send ends with.  Only a refusal (4xx, not sent) clears   *)
(* the marker; anything else that is not an answer leaves the outcome      *)
(* unknown and the delivery failed.                                        *)
DiscordResults(w) ==
    {r \in Result :
        \/ r.state = "delivered" /\ r.sent /\ Call(w) \in taken
        \/ /\ r.state \in {"failed", "pending"} /\ ~ r.marker /\ ~ r.sent
           /\ Call(w) \notin flight \cup taken
        \/ r.state = "failed" /\ r.marker /\ ~ r.sent}

(* Every error of the SMTP exchange counts as a send that did not happen.  *)
EmailResults(w) ==
    {r \in Result :
        /\ ~ r.marker
        /\ \/ r.state = "delivered" /\ r.sent /\ Call(w) \in taken
           \/ r.state = "pending" /\ ~ r.sent}

DirectAnswered(w) ==
    /\ pc[w] = "waiting"
    /\ Kind(w) \in {"discord", "email"}
    /\ \E r \in IF Kind(w) = "email" THEN EmailResults(w) ELSE DiscordResults(w) :
           Return(w, r.state, r.marker, r.sent)
    /\ UNCHANGED <<box, flight, taken>>

(* Mutated: a dispatch without a visible run is sent again.                *)
ReconcileDispatchResends(w) ==
    /\ pc[w] = "claimed"
    /\ rec[w].marker
    /\ Kind(w) = "dispatch"
    /\ \/ ObserveRun(w) /\ out'[w].state = "delivered"
       \/ Goto(w, "send") /\ UNCHANGED <<rec, out>>
    /\ UNCHANGED <<box, flight, taken>>

(* A marked dispatch only looks for its run.                               *)
ReconcileDispatch(w) ==
    /\ pc[w] = "claimed"
    /\ rec[w].marker
    /\ Kind(w) = "dispatch"
    /\ ObserveRun(w)
    /\ UNCHANGED <<box, flight, taken>>

(* A marked issue notice looks for its own marker before it sends again.   *)
ReconcileIssue(w) ==
    /\ pc[w] = "claimed"
    /\ rec[w].marker
    /\ Kind(w) = "issue"
    /\ MaySend(w)
    /\ IF \E r \in taken : r[1] = rec[w].id
       THEN Return(w, "delivered", TRUE, TRUE)
       ELSE Goto(w, "send") /\ UNCHANGED <<rec, out>>
    /\ UNCHANGED <<box, flight, taken>>

(* A marked direct send cannot be reconciled.                              *)
ReconcileDirect(w) ==
    /\ pc[w] = "claimed"
    /\ rec[w].marker
    /\ Kind(w) \in {"discord", "email"}
    /\ Return(w, "failed", TRUE, FALSE)
    /\ UNCHANGED <<box, flight, taken>>

-----------------------------------------------------------------------------
(* The environment.                                                        *)

(* The process dies, or its step raises and the loop starts over.          *)
Crash(w) ==
    /\ pc[w] # "idle"
    /\ Finish(w)
    /\ UNCHANGED <<box, flight, taken>>

Land(c) ==
    /\ c \in flight
    /\ flight' = flight \ {c}
    /\ taken' = taken \cup {c}
    /\ UNCHANGED <<box, pc, rec, out>>

Drop(c) ==
    /\ c \in flight
    /\ flight' = flight \ {c}
    /\ UNCHANGED <<box, pc, rec, out, taken>>

(* The clock reaches, then passes, the end of a lease.                     *)
LeaseRuns(d) ==
    /\ box[d].lease \in {"live", "edge"}
    /\ box' = [box EXCEPT ![d].lease = IF @ = "live" THEN "edge" ELSE "past"]
    /\ UNCHANGED <<pc, rec, out, flight, taken>>

(* The clock passes next_attempt_at.                                       *)
BecomesDue(d) ==
    /\ Unsettled(d)
    /\ ~ box[d].due
    /\ box' = [box EXCEPT ![d].due = TRUE]
    /\ UNCHANGED <<pc, rec, out, flight, taken>>

(* What a worker does with a delivery it has claimed.                      *)
Deliver(w) ==
    \/ Skip(w)
    \/ FailBeforeSend(w)
    \/ Prepare(w)
    \/ MarkProviderStarted(w)
    \/ Send(w)
    \/ NotSent(w)
    \/ DispatchAnswered(w)
    \/ IssueAnswered(w)
    \/ DirectAnswered(w)
    \/ ReconcileDispatch(w)
    \/ ReconcileIssue(w)
    \/ ReconcileDirect(w)
    \/ Complete(w)

Clock(d) == LeaseRuns(d) \/ BecomesDue(d)

Take(d, admitted) == \E w \in Worker : Claim(w, d, admitted) \/ Exhaust(w, d, admitted)

(* Whether dispatches are admitted is the deploy fence's business.         *)
Next ==
    \/ \E w \in Worker : Deliver(w) \/ Crash(w)
    \/ \E d \in Delivery : Enqueue(d) \/ Clock(d)
    \/ \E d \in Delivery, admitted \in BOOLEAN : Take(d, admitted)
    \/ \E c \in flight : Land(c) \/ Drop(c)

Spec == Init /\ [][Next]_vars

(* Workers keep looping and the clock keeps running.  The claim query      *)
(* takes the oldest due row first, so a row that stays claimable is taken  *)
(* although workers are often busy; admission is withheld only for the     *)
(* time of a service replacement.                                          *)
FairSpec ==
    /\ Spec
    /\ \A w \in Worker : WF_vars(Deliver(w))
    /\ \A d \in Delivery : WF_vars(Clock(d)) /\ SF_vars(Take(d, TRUE))

-----------------------------------------------------------------------------
(* Properties.                                                             *)

PCs == {"idle", "claimed", "mark", "send", "waiting", "complete"}

(* Type invariant: every variable of the model keeps its shape.            *)
TypeOK ==
    /\ box \in [Delivery -> Row]
    /\ pc \in [Worker -> PCs]
    /\ rec \in [Worker -> Claimed]
    /\ out \in [Worker -> Result]
    /\ flight \subseteq Calls
    /\ taken \subseteq Calls

(* Calls of a delivery that took hold or still may.                        *)
Possible(d) ==
    {c \in flight \cup taken : c[1] = d}
      \cup {Call(w) : w \in {v \in Worker : pc[v] = "send" /\ rec[v].id = d}}

Once(d) == \A c, e \in Possible(d) : c = e

(* "never automatically repeats the POST after that marker exists"         *)
(* (docs/operations.md:502): of all attempts at a workflow dispatch, by    *)
(* slow, crashed and restarted workers, at most one ever reaches GitHub.   *)
DispatchedOnce == \A d \in Delivery : KindOf[d] = "dispatch" => Once(d)

(* The same for Discord, whose refusals clear the marker and are retried:  *)
(* nothing is sent again while an earlier send may have taken hold.        *)
DiscordSentOnce == \A d \in Delivery : KindOf[d] = "discord" => Once(d)

(* "An uncertain direct send is never replayed" (docs/records.md:1708), as *)
(* far as e-mail is concerned.                                             *)
EmailSentOnce == \A d \in Delivery : KindOf[d] = "email" => Once(d)

(* A notice on record as delivered was: the recovery that relies on it, or *)
(* the reader of the attempt, is not told of a message nobody received.    *)
DeliveredIsReal ==
    \A d \in Delivery :
        box[d].sent /\ KindOf[d] # "dispatch" => \E c \in taken : c[1] = d

(* "Recovery waits for unsettled failure deliveries [...] It follows a     *)
(* delivered failure" (docs/records.md:1704): a direct recovery notice can *)
(* only be sent when a failure notice took hold.                           *)
RecoveryFollowsFailure ==
    \A d \in Delivery :
        /\ FailuresOf[d] # {}
        /\ KindOf[d] \in {"discord", "email"}
        /\ Possible(d) # {}
        => \E f \in FailuresOf[d] : \E c \in taken : c[1] = f

-----------------------------------------------------------------------------
(* Why they hold: the inductive invariant of OutboxDeliveryProof.          *)

Busy(w) == pc[w] # "idle"

(* Kinds whose marker is cleared only when no send of them took place.     *)
Exclusive(d) == KindOf[d] \in {"dispatch", "discord"}

(* The possible calls, and those a worker still waits for.                 *)
Attempted(d) ==
    {c \in flight \cup taken : c[1] = d}
      \cup {Call(w) : w \in {v \in Worker : pc[v] \in {"send", "waiting"} /\ rec[v].id = d}}

FailureTook(d) == \E f \in FailuresOf[d] : \E c \in taken : c[1] = f

(* Attempts are numbered in order, one worker each: a row that was never   *)
(* written has none, no call is of an attempt to come, no two workers are  *)
(* at the same one, and the name of an owner stands for the last of them.  *)
AttemptsInOrder ==
    /\ \A d \in Delivery : box[d].state = "none" => box[d] = NoRow
    /\ \A c \in flight \cup taken : c[2] <= box[c[1]].attempt
    /\ \A w \in Worker :
         Busy(w) => /\ rec[w].attempt <= box[rec[w].id].attempt
                    /\ Owns(w) => rec[w].attempt = box[rec[w].id].attempt
    /\ \A v, w \in Worker : Busy(v) /\ Busy(w) /\ Call(v) = Call(w) => v = w
    /\ \A w \in Worker :
         pc[w] \in {"claimed", "mark", "send"} => Call(w) \notin flight \cup taken

(* A claimed record shows the marker of its row as long as it counts.      *)
RecordsShowMarker ==
    \A w \in Worker :
        /\ pc[w] \in {"claimed", "mark"} /\ Owns(w) => rec[w].marker = box[rec[w].id].marker
        /\ pc[w] = "mark" => ~ rec[w].marker

(* A call that was attempted is the only one and shows on its row, by the  *)
(* marker or because the delivery is over.  The marker is not cleared      *)
(* otherwise.                                                              *)
MarkersCover ==
    \A d \in Delivery :
        Exclusive(d) =>
            /\ \A c, e \in Attempted(d) : c = e
            /\ Attempted(d) # {} => box[d].marker \/ box[d].state = "delivered"
            /\ \A w \in Worker :
                 pc[w] = "complete" /\ rec[w].id = d /\ Owns(w) /\ ~ out[w].marker
                 => Attempted(d) = {} \/ out[w].state = "delivered"

(* What a worker is about to store as delivered was, and what it is about  *)
(* to send as a recovery follows a failure.                                *)
ResultsAreReal ==
    \A w \in Worker :
        /\ pc[w] = "complete" /\ out[w].sent /\ Kind(w) # "dispatch"
           => \E c \in taken : c[1] = rec[w].id
        /\ pc[w] \in {"mark", "send"} /\ Recovery(w) /\ Kind(w) \in {"discord", "email"}
           => FailureTook(rec[w].id)

(* The inductive invariant.                                                *)
Inv ==
    /\ TypeOK
    /\ AttemptsInOrder
    /\ RecordsShowMarker
    /\ MarkersCover
    /\ ResultsAreReal
    /\ DeliveredIsReal
    /\ RecoveryFollowsFailure

-----------------------------------------------------------------------------
(* Properties of steps and of behaviours.                                  *)

(* "stale holders cannot record terminal state after another worker        *)
(* reclaims the delivery" (docs/records.md:430): a completion is accepted  *)
(* only for the current attempt, although only the owner is compared.      *)
StaleHolderFenced ==
    [][\A w \in Worker :
          pc[w] = "complete" /\ pc'[w] = "idle" /\ box' # box
          => rec[w].attempt = box[rec[w].id].attempt]_vars

(* Every queued delivery is settled in the end, whatever its provider,     *)
(* its workers and its predecessors do.                                    *)
DeliveriesSettle ==
    \A d \in Delivery :
        box[d].state # "none" ~> box[d].state \in {"delivered", "failed"}

=============================================================================

------------------------ MODULE OutboxDeliveryProof ------------------------
(***************************************************************************)
(* Proofs about OutboxDelivery for every set of workers and deliveries and *)
(* every number of attempts.                                               *)
(*                                                                         *)
(* The argument: attempts at a row are numbered and each belongs to one    *)
(* worker, so whoever passes the owner check holds the last attempt and    *)
(* knows the marker of the row (AttemptsInOrder, RecordsShowMarker).  For  *)
(* dispatches and Discord notices the marker stays set as long as a send   *)
(* may take hold (MarkersCover): the next worker finds it and sends        *)
(* nothing.                                                                *)
(***************************************************************************)
EXTENDS OutboxDelivery, TLAPS

-----------------------------------------------------------------------------
(* Types.                                                                  *)

LEMMA NoClaimType == NoClaim \in Claimed /\ NoResult \in Result
<1>1. (CHOOSE d \in Delivery : TRUE) \in Delivery
  BY OutboxAssumption
<1> QED BY <1>1, OutboxAssumption DEF NoClaim, NoResult, Claimed, Result

LEMMA RowFacts ==
    ASSUME TypeOK, NEW d \in Delivery
    PROVE  /\ box[d] \in Row
           /\ box[d].attempt \in 0..MaxAttempts /\ box[d].attempt \in Int
           /\ box[d].marker \in BOOLEAN /\ box[d].sent \in BOOLEAN
           /\ box[d].owner \in Worker \cup {NoWorker}
BY OutboxAssumption DEF TypeOK, Row

LEMMA WorkerFacts ==
    ASSUME TypeOK, NEW w \in Worker
    PROVE  /\ pc[w] \in PCs
           /\ rec[w] \in Claimed /\ rec[w].id \in Delivery
           /\ rec[w].attempt \in 1..MaxAttempts /\ rec[w].attempt \in Int
           /\ rec[w].marker \in BOOLEAN /\ rec[w].seen \subseteq Calls
           /\ Call(w) \in Calls /\ Call(w)[1] = rec[w].id /\ Call(w)[2] = rec[w].attempt
           /\ out[w] \in Result
BY OutboxAssumption DEF TypeOK, Claimed, Call, Calls

LEMMA RunsType == TypeOK => Runs \subseteq Calls
BY DEF TypeOK, Runs

LEMMA FinishType ==
    ASSUME TypeOK, NEW w \in Worker, Finish(w)
    PROVE  pc' \in [Worker -> PCs] /\ rec' \in [Worker -> Claimed] /\ out' \in [Worker -> Result]
BY NoClaimType DEF TypeOK, Finish, Goto, PCs

LEMMA ReturnType ==
    ASSUME TypeOK, NEW w \in Worker,
           NEW state \in {"pending", "reconcile_required", "delivered", "failed"},
           NEW marker \in BOOLEAN, NEW sent \in BOOLEAN,
           Return(w, state, marker, sent)
    PROVE  pc' \in [Worker -> PCs] /\ rec' \in [Worker -> Claimed] /\ out' \in [Worker -> Result]
BY DEF TypeOK, Return, Goto, PCs, Result

LEMMA MarkFailedType ==
    ASSUME TypeOK, NEW w \in Worker, MarkFailed(w)
    PROVE  pc' \in [Worker -> PCs] /\ rec' \in [Worker -> Claimed] /\ out' \in [Worker -> Result]
<1>1. CASE Return(w, "pending", Kind(w) \in {"dispatch", "issue"}, FALSE)
  <2>1. (Kind(w) \in {"dispatch", "issue"}) \in BOOLEAN
    OBVIOUS
  <2> QED BY <1>1, <2>1, ReturnType
<1>2. CASE Finish(w)
  BY <1>2, FinishType
<1> QED BY <1>1, <1>2 DEF MarkFailed

LEMMA ObserveType ==
    ASSUME TypeOK, NEW w \in Worker, ObserveRun(w)
    PROVE  pc' \in [Worker -> PCs] /\ rec' \in [Worker -> Claimed] /\ out' \in [Worker -> Result]
<1>1. Return(w, "delivered", TRUE, TRUE) \/ Return(w, "reconcile_required", TRUE, FALSE)
  BY DEF ObserveRun
<1> QED BY <1>1, ReturnType

(* What an accepted completion writes.                                     *)
LEMMA CompletedRow ==
    ASSUME TypeOK, NEW w \in Worker, Complete(w), Owns(w)
    PROVE  \E r \in Row : /\ box' = [box EXCEPT ![rec[w].id] = r]
                          /\ r.state = out[w].state /\ r.owner = NoWorker
                          /\ r.attempt = box[rec[w].id].attempt
                          /\ r.marker = out[w].marker /\ r.sent = out[w].sent
<1>1. PICK d \in Delivery : d = rec[w].id
  BY WorkerFacts
<1>2. box[d] \in Row /\ rec[w].seen \subseteq Calls /\ out[w] \in Result
  BY RowFacts, WorkerFacts
<1> DEFINE over == out[w].state \in {"delivered", "failed"}
           r == [box[d] EXCEPT !.state = out[w].state, !.owner = NoWorker,
                               !.lease = "none", !.marker = out[w].marker,
                               !.seen = rec[w].seen, !.sent = out[w].sent,
                               !.due = over]
<1>3. box' = [box EXCEPT ![d] = r]
  <2>1. box' = [box EXCEPT ![rec[w].id].state = out[w].state,
                           ![rec[w].id].owner = NoWorker,
                           ![rec[w].id].lease = "none",
                           ![rec[w].id].marker = out[w].marker,
                           ![rec[w].id].seen = rec[w].seen,
                           ![rec[w].id].sent = out[w].sent,
                           ![rec[w].id].due = over]
    BY Zenon DEF Complete
  <2> HIDE DEF over
  <2> QED BY <1>1, <2>1, Zenon
<1>4. over \in BOOLEAN
  OBVIOUS
<1>5. /\ r \in Row
      /\ r.state = out[w].state /\ r.owner = NoWorker
      /\ r.attempt = box[d].attempt
      /\ r.marker = out[w].marker /\ r.sent = out[w].sent
  <2> HIDE DEF over
  <2> QED BY <1>2, <1>4 DEF Row, Result
<1> HIDE DEF r
<1> QED BY <1>1, <1>3, <1>5

(* A delivery step keeps the types.                                        *)
LEMMA DeliverType ==
    ASSUME TypeOK, NEW w \in Worker, Deliver(w)
    PROVE  TypeOK'
<1> USE WorkerFacts
<1>1. CASE Skip(w)
  <2>1. PICK state \in {"failed", "delivered"} : Return(w, state, rec[w].marker, FALSE)
    BY <1>1 DEF Skip
  <2> QED BY <1>1, <2>1, ReturnType DEF Skip, TypeOK
<1>2. CASE FailBeforeSend(w)
  BY <1>2, ReturnType DEF FailBeforeSend, TypeOK
<1>3. CASE Prepare(w)
  <2>1. rec' \in [Worker -> Claimed]
    BY <1>3, RunsType DEF Prepare, TypeOK, Claimed
  <2>2. pc' \in [Worker -> PCs]
    BY <1>3 DEF Prepare, TypeOK, PCs, Goto
  <2> QED BY <1>3, <2>1, <2>2 DEF Prepare, TypeOK
<1>4. CASE MarkProviderStarted(w)
  <2>1. box' \in [Delivery -> Row]
    <3>1. PICK d \in Delivery : d = rec[w].id
      BY WorkerFacts
    <3>2. box[d] \in Row /\ rec[w].seen \subseteq Calls
      BY RowFacts, WorkerFacts
    <3>3. [box[d] EXCEPT !.marker = TRUE, !.seen = rec[w].seen] \in Row
      BY <3>2 DEF Row
    <3>4. UNCHANGED box \/ box' = [box EXCEPT ![d] = [box[d] EXCEPT !.marker = TRUE,
                                                                 !.seen = rec[w].seen]]
      BY <1>4, <3>1 DEF MarkProviderStarted
    <3> QED BY <3>3, <3>4 DEF TypeOK
  <2>2. pc' \in [Worker -> PCs] /\ rec' \in [Worker -> Claimed] /\ out' \in [Worker -> Result]
    <3>1. CASE Goto(w, "send") /\ UNCHANGED <<rec, out>>
      BY <3>1 DEF TypeOK, PCs, Goto
    <3>2. CASE MarkFailed(w)
      BY <3>2, MarkFailedType
    <3>3. CASE Return(w, "delivered", FALSE, FALSE)
      BY <3>3, ReturnType
    <3> QED BY <1>4, <3>1, <3>2, <3>3 DEF MarkProviderStarted
  <2> QED BY <1>4, <2>1, <2>2 DEF MarkProviderStarted, TypeOK
<1>5. CASE Send(w)
  BY <1>5 DEF Send, TypeOK, Goto, PCs
<1>6. CASE NotSent(w)
  <2>1. PICK state \in {"pending", "delivered"} : Return(w, state, FALSE, FALSE)
    BY <1>6 DEF NotSent
  <2> QED BY <1>6, <2>1, ReturnType DEF NotSent, TypeOK
<1>7. CASE DispatchAnswered(w)
  BY <1>7, ReturnType, ObserveType DEF DispatchAnswered, TypeOK
<1>8. CASE IssueAnswered(w)
  BY <1>8, ReturnType DEF IssueAnswered, TypeOK
<1>9. CASE DirectAnswered(w)
  <2>1. PICK r \in Result : Return(w, r.state, r.marker, r.sent)
    BY <1>9 DEF DirectAnswered, EmailResults, DiscordResults
  <2> QED BY <1>9, <2>1, ReturnType DEF DirectAnswered, TypeOK, Result
<1>10. CASE ReconcileDispatch(w)
  BY <1>10, ObserveType DEF ReconcileDispatch, TypeOK
<1>11. CASE ReconcileIssue(w)
  <2>1. CASE Return(w, "delivered", TRUE, TRUE)
    BY <1>11, <2>1, ReturnType DEF ReconcileIssue, TypeOK
  <2>2. CASE Goto(w, "send") /\ UNCHANGED <<rec, out>>
    BY <1>11, <2>2 DEF ReconcileIssue, TypeOK, Goto, PCs
  <2> QED BY <1>11, <2>1, <2>2 DEF ReconcileIssue
<1>12. CASE ReconcileDirect(w)
  BY <1>12, ReturnType DEF ReconcileDirect, TypeOK
<1>13. CASE Complete(w)
  <2>1. box' \in [Delivery -> Row]
    <3>1. CASE Owns(w)
      BY <1>13, <3>1, CompletedRow DEF TypeOK
    <3>2. CASE ~ Owns(w)
      BY <1>13, <3>2 DEF Complete, TypeOK
    <3> QED BY <3>1, <3>2
  <2> QED BY <1>13, <2>1, FinishType DEF Complete, TypeOK
<1> QED BY <1>1, <1>2, <1>3, <1>4, <1>5, <1>6, <1>7, <1>8, <1>9, <1>10, <1>11, <1>12, <1>13
        DEF Deliver

(* A claim keeps the types.                                                *)
LEMMA ClaimType ==
    ASSUME TypeOK, NEW w \in Worker, NEW d \in Delivery, NEW admitted \in BOOLEAN,
           Claim(w, d, admitted)
    PROVE  TypeOK'
<1>1. box[d].attempt + 1 \in 1..MaxAttempts /\ box[d] \in Row
  BY RowFacts, OutboxAssumption DEF Claim
<1>2. box' \in [Delivery -> Row]
  BY <1>1 DEF Claim, TypeOK, Row
<1>3. rec' \in [Worker -> Claimed]
  BY <1>1 DEF Claim, TypeOK, Row, Claimed
<1> QED BY <1>2, <1>3 DEF Claim, TypeOK, PCs, Goto

(* So does every step.                                                     *)
LEMMA NextType ==
    ASSUME TypeOK, [Next]_vars
    PROVE  TypeOK'
<1>1. CASE \E w \in Worker : Deliver(w)
  BY <1>1, DeliverType
<1>2. CASE \E w \in Worker : Crash(w)
  BY <1>2, FinishType DEF Crash, TypeOK
<1>3. CASE \E d \in Delivery : Enqueue(d)
  <2>1. [NoRow EXCEPT !.state = "pending", !.due = TRUE] \in Row
    <3>1. 0 \in 0..MaxAttempts /\ {} \in SUBSET Calls
      BY OutboxAssumption
    <3> HIDE DEF Calls
    <3> QED BY <3>1 DEF NoRow, Row
  <2> QED BY <1>3, <2>1 DEF Enqueue, TypeOK
<1>4. CASE \E d \in Delivery : Clock(d)
  <2> SUFFICES ASSUME NEW d \in Delivery, Clock(d)
               PROVE  TypeOK'
    BY <1>4
  <2>1. /\ [box[d] EXCEPT !.lease = IF box[d].lease = "live" THEN "edge" ELSE "past"] \in Row
        /\ [box[d] EXCEPT !.due = TRUE] \in Row
    BY RowFacts DEF Row
  <2>2. PICK r \in Row : box' = [box EXCEPT ![d] = r]
    <3>1. CASE LeaseRuns(d)
      BY <2>1, <3>1 DEF LeaseRuns
    <3>2. CASE BecomesDue(d)
      BY <2>1, <3>2 DEF BecomesDue
    <3> QED BY <3>1, <3>2 DEF Clock
  <2>3. box' \in [Delivery -> Row]
    BY <2>2 DEF TypeOK
  <2> QED BY <2>3 DEF Clock, LeaseRuns, BecomesDue, TypeOK
<1>5. CASE \E d \in Delivery, admitted \in BOOLEAN : Take(d, admitted)
  <2> SUFFICES ASSUME NEW d \in Delivery, NEW admitted \in BOOLEAN, NEW w \in Worker,
                      Claim(w, d, admitted) \/ Exhaust(w, d, admitted)
               PROVE  TypeOK'
    BY <1>5 DEF Take
  <2>1. CASE Claim(w, d, admitted)
    BY <2>1, ClaimType
  <2>2. CASE Exhaust(w, d, admitted)
    <3>1. [box[d] EXCEPT !.state = "failed", !.owner = NoWorker, !.lease = "none"] \in Row
      BY RowFacts DEF Row
    <3>2. box' = [box EXCEPT ![d] = [box[d] EXCEPT !.state = "failed", !.owner = NoWorker,
                                                   !.lease = "none"]]
      BY <2>2 DEF Exhaust
    <3> QED BY <2>2, <3>1, <3>2 DEF Exhaust, TypeOK
  <2> QED BY <2>1, <2>2
<1>6. CASE \E c \in flight : Land(c) \/ Drop(c)
  BY <1>6 DEF Land, Drop, TypeOK
<1>7. CASE UNCHANGED vars
  BY <1>7 DEF vars, TypeOK
<1> QED BY <1>1, <1>2, <1>3, <1>4, <1>5, <1>6, <1>7 DEF Next

(* Type invariant of every behaviour.                                      *)
THEOREM TypesHold == Spec => []TypeOK
<1>1. Init => TypeOK
  BY NoClaimType, OutboxAssumption DEF Init, TypeOK, Row, NoRow, PCs
<1>2. TypeOK /\ [Next]_vars => TypeOK'
  BY NextType
<1> QED BY <1>1, <1>2, PTL DEF Spec

-----------------------------------------------------------------------------
(* Calls.                                                                  *)

LEMMA AttemptedMember ==
    ASSUME NEW d \in Delivery, NEW c
    PROVE  c \in Attempted(d) <=>
             \/ c \in flight \cup taken /\ c[1] = d
             \/ \E v \in Worker : pc[v] \in {"send", "waiting"} /\ rec[v].id = d /\ c = Call(v)
BY DEF Attempted

LEMMA PossibleIsAttempted ==
    ASSUME NEW d \in Delivery
    PROVE  Possible(d) \subseteq Attempted(d)
BY DEF Possible, Attempted

(* A worker's own attempt is not under way twice: when it leaves its call  *)
(* behind without it being on its way, nothing is left.                    *)
LEMMA NothingLeft ==
    ASSUME TypeOK, AttemptsInOrder, NEW w \in Worker, pc[w] \in {"send", "waiting"},
           \A c, e \in Attempted(rec[w].id) : c = e,
           Call(w) \notin flight \cup taken,
           UNCHANGED <<flight, taken>>,
           pc' = [pc EXCEPT ![w] = "complete"], UNCHANGED rec
    PROVE  Attempted(rec[w].id)' = {}
<1> DEFINE d == rec[w].id
<1>1. d \in Delivery /\ Call(w) \in Attempted(d)
  BY WorkerFacts, AttemptedMember
<1> SUFFICES ASSUME NEW c, c \in Attempted(d)'
             PROVE  FALSE
  BY DEF d
<1>2. CASE c \in flight \cup taken /\ c[1] = d
  <2>1. c \in Attempted(d)
    BY <1>1, <1>2, AttemptedMember
  <2> QED BY <1>1, <1>2, <2>1
<1>3. CASE \E v \in Worker : pc'[v] \in {"send", "waiting"} /\ rec'[v].id = d /\ c = Call(v)'
  <2>1. PICK v \in Worker : pc'[v] \in {"send", "waiting"} /\ rec[v].id = d /\ c = Call(v)
    BY <1>3 DEF Call
  <2>2. v # w /\ pc[v] \in {"send", "waiting"}
    BY <2>1 DEF TypeOK
  <2>3. Call(v) \in Attempted(d)
    BY <1>1, <2>1, <2>2, AttemptedMember
  <2>4. Call(v) = Call(w) /\ Busy(v) /\ Busy(w)
    BY <1>1, <2>2, <2>3 DEF Busy
  <2> QED BY <2>2, <2>4 DEF AttemptsInOrder
<1> QED BY <1>1, <1>2, <1>3 DEF Attempted

-----------------------------------------------------------------------------
(* Steps of the rows.                                                      *)

(* The rows change in nothing but their states, and nobody comes to own    *)
(* one.                                                                    *)
LEMMA RowStep ==
    ASSUME Inv, TypeOK', UNCHANGED <<pc, rec, out, flight, taken>>,
           \A d \in Delivery :
               /\ box'[d].attempt = box[d].attempt
               /\ box'[d].marker = box[d].marker
               /\ box'[d].sent = box[d].sent
               /\ box'[d].state = "none" => box'[d] = NoRow
               /\ box[d].state = "delivered" => box'[d].state = "delivered",
           \A w \in Worker : Busy(w) /\ Owns(w)' => Owns(w)
    PROVE  Inv'
<1>1. TypeOK
  BY DEF Inv
<1>2. \A w \in Worker : Call(w)' = Call(w) /\ Kind(w)' = Kind(w) /\ rec[w].id \in Delivery
                        /\ Recovery(w)' = Recovery(w) /\ Busy(w)' = Busy(w)
  BY <1>1, WorkerFacts DEF Call, Kind, Recovery, Busy
<1>3. \A d \in Delivery : Attempted(d)' = Attempted(d) /\ Possible(d)' = Possible(d)
                          /\ FailureTook(d)' = FailureTook(d)
  BY DEF Attempted, Possible, FailureTook, Call
<1>4. AttemptsInOrder'
  <2>1. \A c \in flight \cup taken : c[2] <= box'[c[1]].attempt
    <3>1. \A c \in flight \cup taken : c[1] \in Delivery
      BY <1>1 DEF TypeOK, Calls
    <3> QED BY <3>1 DEF Inv, AttemptsInOrder
  <2>2. \A w \in Worker :
         Busy(w) => /\ rec[w].attempt <= box'[rec[w].id].attempt
                    /\ Owns(w)' => rec[w].attempt = box'[rec[w].id].attempt
    BY <1>2 DEF Inv, AttemptsInOrder
  <2> QED BY <1>2, <2>1, <2>2 DEF Inv, AttemptsInOrder
<1>5. RecordsShowMarker'
  BY <1>2 DEF Inv, RecordsShowMarker, Busy
<1>6. MarkersCover'
  BY <1>2, <1>3 DEF Inv, MarkersCover, Busy
<1>7. ResultsAreReal'
  BY <1>2, <1>3 DEF Inv, ResultsAreReal
<1>8. DeliveredIsReal' /\ RecoveryFollowsFailure'
  BY <1>3 DEF Inv, DeliveredIsReal, RecoveryFollowsFailure
<1> QED BY <1>4, <1>5, <1>6, <1>7, <1>8 DEF Inv

LEMMA EnqueueInv ==
    ASSUME Inv, TypeOK', NEW d \in Delivery, Enqueue(d)
    PROVE  Inv'
<1>1. box[d] = NoRow /\ box \in [Delivery -> Row]
  BY DEF Inv, AttemptsInOrder, TypeOK, Enqueue
<1>2. /\ box'[d] = [NoRow EXCEPT !.state = "pending", !.due = TRUE]
      /\ \A e \in Delivery \ {d} : box'[e] = box[e]
  BY <1>1 DEF Enqueue
<1>3. box'[d].state = "pending" /\ box'[d].attempt = box[d].attempt
      /\ box'[d].marker = box[d].marker /\ box'[d].sent = box[d].sent
      /\ box[d].state # "delivered"
  BY <1>1, <1>2 DEF NoRow
<1>4. \A e \in Delivery :
               /\ box'[e].attempt = box[e].attempt
               /\ box'[e].marker = box[e].marker
               /\ box'[e].sent = box[e].sent
               /\ box'[e].state = "none" => box'[e] = NoRow
               /\ box[e].state = "delivered" => box'[e].state = "delivered"
  BY <1>2, <1>3 DEF Inv, AttemptsInOrder
<1>5. \A w \in Worker : Busy(w) /\ Owns(w)' => Owns(w)
  <2> SUFFICES ASSUME NEW w \in Worker, Owns(w)' PROVE Owns(w)
    OBVIOUS
  <2>1. rec[w].id \in Delivery
    BY WorkerFacts DEF Inv
  <2> QED BY <1>2, <1>3, <2>1 DEF Owns, Enqueue
<1>6. UNCHANGED <<pc, rec, out, flight, taken>>
  BY DEF Enqueue
<1> QED BY <1>4, <1>5, <1>6, RowStep

(* One row, written before, gets another state, owner, lease or due date.  *)
LEMMA OneRowStep ==
    ASSUME Inv, TypeOK', NEW d \in Delivery, NEW r \in Row,
           box' = [box EXCEPT ![d] = r], UNCHANGED <<pc, rec, out, flight, taken>>,
           box[d].state # "none", r.state \in {box[d].state, "failed"},
           box[d].state = "delivered" => r.state = "delivered",
           r.attempt = box[d].attempt, r.marker = box[d].marker, r.sent = box[d].sent,
           \A w \in Worker : r.state = "running" /\ r.owner = w /\ r.lease = "live"
                  => box[d].state = "running" /\ box[d].owner = w /\ box[d].lease = "live"
    PROVE  Inv'
<1>1. box \in [Delivery -> Row]
  BY DEF Inv, TypeOK
<1>2. box'[d] = r /\ \A e \in Delivery \ {d} : box'[e] = box[e]
  BY <1>1
<1>3. \A e \in Delivery :
               /\ box'[e].attempt = box[e].attempt
               /\ box'[e].marker = box[e].marker
               /\ box'[e].sent = box[e].sent
               /\ box'[e].state = "none" => box'[e] = NoRow
               /\ box[e].state = "delivered" => box'[e].state = "delivered"
  BY <1>2 DEF Inv, AttemptsInOrder
<1>4. \A w \in Worker : Busy(w) /\ Owns(w)' => Owns(w)
  <2> SUFFICES ASSUME NEW w \in Worker, Owns(w)' PROVE Owns(w)
    OBVIOUS
  <2>1. rec[w].id \in Delivery
    BY WorkerFacts DEF Inv
  <2> QED BY <1>2, <2>1 DEF Owns
<1> QED BY <1>3, <1>4, RowStep

LEMMA ClockInv ==
    ASSUME Inv, TypeOK', NEW d \in Delivery, Clock(d)
    PROVE  Inv'
<1>0. box[d] \in Row
  BY RowFacts DEF Inv
<1>1. CASE LeaseRuns(d)
  <2> DEFINE r == [box[d] EXCEPT !.lease = IF box[d].lease = "live" THEN "edge" ELSE "past"]
  <2>1. box' = [box EXCEPT ![d] = r] /\ UNCHANGED <<pc, rec, out, flight, taken>>
    BY <1>1 DEF LeaseRuns
  <2>2. box[d].state # "none"
    BY <1>1 DEF LeaseRuns, Inv, AttemptsInOrder, NoRow
  <2>3. /\ r \in Row
        /\ r.state = box[d].state /\ r.attempt = box[d].attempt
        /\ r.marker = box[d].marker /\ r.sent = box[d].sent
        /\ r.lease # "live"
    BY <1>0 DEF Row
  <2> HIDE DEF r
  <2> QED BY <2>1, <2>2, <2>3, OneRowStep
<1>2. CASE BecomesDue(d)
  <2> DEFINE r == [box[d] EXCEPT !.due = TRUE]
  <2>1. box' = [box EXCEPT ![d] = r] /\ UNCHANGED <<pc, rec, out, flight, taken>>
    BY <1>2 DEF BecomesDue
  <2>2. box[d].state # "none"
    BY <1>2 DEF BecomesDue, Unsettled
  <2>3. /\ r \in Row
        /\ r.state = box[d].state /\ r.attempt = box[d].attempt
        /\ r.marker = box[d].marker /\ r.sent = box[d].sent
        /\ r.lease = box[d].lease /\ r.owner = box[d].owner
    BY <1>0 DEF Row
  <2> HIDE DEF r
  <2> QED BY <2>1, <2>2, <2>3, OneRowStep
<1> QED BY <1>1, <1>2 DEF Clock

LEMMA ExhaustInv ==
    ASSUME Inv, TypeOK', NEW w \in Worker, NEW d \in Delivery, NEW admitted \in BOOLEAN,
           Exhaust(w, d, admitted)
    PROVE  Inv'
<1>0. box[d] \in Row
  BY RowFacts DEF Inv
<1> DEFINE r == [box[d] EXCEPT !.state = "failed", !.owner = NoWorker, !.lease = "none"]
<1>1. box' = [box EXCEPT ![d] = r] /\ UNCHANGED <<pc, rec, out, flight, taken>>
  BY DEF Exhaust
<1>2. box[d].state \notin {"none", "delivered"}
  BY DEF Exhaust, Claimable, Unsettled
<1>3. /\ r \in Row
      /\ r.state = "failed" /\ r.attempt = box[d].attempt
      /\ r.marker = box[d].marker /\ r.sent = box[d].sent
  BY <1>0 DEF Row
<1> HIDE DEF r
<1> QED BY <1>1, <1>2, <1>3, OneRowStep

-----------------------------------------------------------------------------
(* Steps of a worker by itself.                                            *)

(* What a worker at a label must know of the delivery it is at.            *)
Knows(w) ==
    /\ pc[w] \in {"claimed", "mark", "send"} => Call(w) \notin flight \cup taken
    /\ pc[w] \in {"claimed", "mark"} /\ Owns(w) => rec[w].marker = box[rec[w].id].marker
    /\ pc[w] = "mark" => ~ rec[w].marker
    /\ pc[w] = "complete" /\ Exclusive(rec[w].id) /\ Owns(w) /\ ~ out[w].marker
       => Attempted(rec[w].id) = {} \/ out[w].state = "delivered"
    /\ pc[w] = "complete" /\ out[w].sent /\ Kind(w) # "dispatch"
       => \E c \in taken : c[1] = rec[w].id
    /\ pc[w] \in {"mark", "send"} /\ Recovery(w) /\ Kind(w) \in {"discord", "email"}
       => FailureTook(rec[w].id)

LEMMA WorkersKnow ==
    ASSUME Inv, NEW w \in Worker
    PROVE  Knows(w)
<1>1. rec[w].id \in Delivery
  BY WorkerFacts DEF Inv
<1> QED BY <1>1 DEF Inv, Knows, AttemptsInOrder, RecordsShowMarker, MarkersCover, ResultsAreReal

(* One worker moves on with its delivery, or leaves it.                    *)
LEMMA LocalStep ==
    ASSUME Inv, TypeOK', NEW w \in Worker, UNCHANGED <<box, flight, taken>>,
           \A v \in Worker \ {w} : pc'[v] = pc[v] /\ rec'[v] = rec[v] /\ out'[v] = out[v],
           pc'[w] # "idle" =>
               /\ pc[w] # "idle"
               /\ rec'[w].id = rec[w].id /\ rec'[w].attempt = rec[w].attempt
               /\ pc'[w] \in {"send", "waiting"} =>
                    pc[w] \in {"send", "waiting"} \/ KindOf[rec[w].id] = "issue"
               /\ Knows(w)'
    PROVE  Inv'
<1>1. TypeOK
  BY DEF Inv
<1>2. \A v \in Worker : Busy(v)' => Busy(v) /\ rec[v].id \in Delivery
                                    /\ Call(v)' = Call(v) /\ rec'[v].id = rec[v].id
                                    /\ rec'[v].attempt = rec[v].attempt
                                    /\ Owns(v)' = Owns(v)
  <2> SUFFICES ASSUME NEW v \in Worker, pc'[v] # "idle"
               PROVE  /\ pc[v] # "idle" /\ rec[v].id \in Delivery
                      /\ rec'[v].id = rec[v].id /\ rec'[v].attempt = rec[v].attempt
    BY DEF Busy, Call, Owns
  <2>1. rec[v].id \in Delivery
    BY <1>1, WorkerFacts
  <2> QED BY <2>1
<1>3. \A v \in Worker \ {w} :
         Call(v)' = Call(v) /\ Kind(v)' = Kind(v) /\ Recovery(v)' = Recovery(v)
         /\ Busy(v)' = Busy(v) /\ Owns(v)' = Owns(v)
  BY DEF Call, Kind, Recovery, Busy, Owns
<1>4. \A d \in Delivery : Exclusive(d) => Attempted(d)' \subseteq Attempted(d)
  <2> SUFFICES ASSUME NEW d \in Delivery, Exclusive(d), NEW c, c \in Attempted(d)'
               PROVE  c \in Attempted(d)
    OBVIOUS
  <2>1. CASE c \in flight \cup taken /\ c[1] = d
    BY <2>1, AttemptedMember
  <2>2. CASE \E v \in Worker : pc'[v] \in {"send", "waiting"} /\ rec'[v].id = d /\ c = Call(v)'
    <3>1. PICK v \in Worker : pc'[v] \in {"send", "waiting"} /\ rec'[v].id = d /\ c = Call(v)'
      BY <2>2
    <3>2. Call(v)' = Call(v) /\ rec[v].id = d
      BY <1>2, <3>1 DEF Busy
    <3>3. pc[v] \in {"send", "waiting"}
      BY <3>1, <3>2 DEF Exclusive
    <3> QED BY <3>1, <3>2, <3>3, AttemptedMember
  <2> QED BY <2>1, <2>2 DEF Attempted
<1>5. \A d \in Delivery : FailureTook(d)' = FailureTook(d) /\ Exclusive(d)' = Exclusive(d)
  BY DEF FailureTook, Exclusive
<1>6. AttemptsInOrder'
  <2>1. \A v \in Worker :
         Busy(v)' => /\ rec'[v].attempt <= box[rec'[v].id].attempt
                     /\ Owns(v)' => rec'[v].attempt = box[rec'[v].id].attempt
    BY <1>2 DEF Inv, AttemptsInOrder
  <2>2. \A u, v \in Worker : Busy(u)' /\ Busy(v)' /\ Call(u)' = Call(v)' => u = v
    BY <1>2 DEF Inv, AttemptsInOrder
  <2>3. \A v \in Worker :
         pc'[v] \in {"claimed", "mark", "send"} => Call(v)' \notin flight \cup taken
    BY <1>3 DEF Inv, AttemptsInOrder, Knows
  <2> QED BY <2>1, <2>2, <2>3 DEF Inv, AttemptsInOrder
<1>7. RecordsShowMarker'
  BY <1>3 DEF Inv, RecordsShowMarker, Knows
<1>8. MarkersCover'
  <2> SUFFICES ASSUME NEW d \in Delivery, Exclusive(d)
               PROVE  /\ \A c, e \in Attempted(d)' : c = e
                      /\ Attempted(d)' # {} => box[d].marker \/ box[d].state = "delivered"
                      /\ \A v \in Worker :
                           pc'[v] = "complete" /\ rec'[v].id = d /\ Owns(v)' /\ ~ out'[v].marker
                           => Attempted(d)' = {} \/ out'[v].state = "delivered"
    BY <1>5 DEF MarkersCover
  <2>1. \A c, e \in Attempted(d)' : c = e
    BY <1>4 DEF Inv, MarkersCover
  <2>2. Attempted(d)' # {} => box[d].marker \/ box[d].state = "delivered"
    BY <1>4 DEF Inv, MarkersCover
  <2>3. ASSUME NEW v \in Worker,
               pc'[v] = "complete" /\ rec'[v].id = d /\ Owns(v)' /\ ~ out'[v].marker
        PROVE  Attempted(d)' = {} \/ out'[v].state = "delivered"
    <3>1. CASE v = w
      BY <1>5, <2>3, <3>1 DEF Knows
    <3>2. CASE v # w
      <4>1. pc[v] = "complete" /\ rec[v].id = d /\ Owns(v) /\ ~ out[v].marker
            /\ out'[v] = out[v]
        BY <1>3, <2>3, <3>2
      <4>2. Attempted(d) = {} \/ out[v].state = "delivered"
        BY <4>1 DEF Inv, MarkersCover
      <4> QED BY <1>4, <4>1, <4>2
    <3> QED BY <3>1, <3>2
  <2> QED BY <2>1, <2>2, <2>3
<1>9. ResultsAreReal'
  <2> SUFFICES ASSUME NEW v \in Worker
               PROVE  (/\ pc[v] = "complete" /\ out[v].sent /\ Kind(v) # "dispatch"
                          => \E c \in taken : c[1] = rec[v].id
                       /\ pc[v] \in {"mark", "send"} /\ Recovery(v) /\ Kind(v) \in {"discord", "email"}
                          => FailureTook(rec[v].id))'
    BY DEF ResultsAreReal
  <2>1. CASE v = w
    BY <2>1 DEF Knows
  <2>2. CASE v # w
    <3>1. rec[v].id \in Delivery
      BY <1>1, WorkerFacts
    <3> QED BY <1>3, <1>5, <2>2, <3>1 DEF Inv, ResultsAreReal
  <2> QED BY <2>1, <2>2
<1>10. DeliveredIsReal'
  BY DEF Inv, DeliveredIsReal
<1>11. RecoveryFollowsFailure'
  <2> SUFFICES ASSUME NEW d \in Delivery, FailuresOf[d] # {}, KindOf[d] \in {"discord", "email"},
                      NEW c \in Possible(d)'
               PROVE  FailureTook(d)
    BY <1>5 DEF RecoveryFollowsFailure, FailureTook
  <2>1. CASE c \in flight \cup taken /\ c[1] = d
    <3>1. c \in Possible(d)
      BY <2>1 DEF Possible
    <3> QED BY <3>1 DEF Inv, RecoveryFollowsFailure, FailureTook
  <2>2. CASE \E v \in Worker : pc'[v] = "send" /\ rec'[v].id = d
    <3>1. PICK v \in Worker : pc'[v] = "send" /\ rec'[v].id = d
      BY <2>2
    <3>2. Recovery(v)' /\ Kind(v)' \in {"discord", "email"}
      BY <3>1 DEF Recovery, Kind
    <3>3. FailureTook(rec[v].id)'
      BY <1>9, <3>1, <3>2 DEF ResultsAreReal
    <3> QED BY <1>5, <3>1, <3>3
  <2> QED BY <2>1, <2>2 DEF Possible
<1> QED BY <1>6, <1>7, <1>8, <1>9, <1>10, <1>11 DEF Inv

LEMMA FinishInv ==
    ASSUME Inv, TypeOK', NEW w \in Worker, Finish(w), UNCHANGED <<box, flight, taken>>
    PROVE  Inv'
<1>1. pc'[w] = "idle"
  BY DEF Inv, TypeOK, Finish, Goto
<1>2. \A v \in Worker \ {w} : pc'[v] = pc[v] /\ rec'[v] = rec[v] /\ out'[v] = out[v]
  BY DEF Inv, TypeOK, Finish, Goto
<1> QED BY <1>1, <1>2, LocalStep

(* A worker has a result: one without a marker says that nothing was       *)
(* attempted, or is final, and one of a send that it took hold.            *)
LEMMA ReturnInv ==
    ASSUME Inv, TypeOK', NEW w \in Worker, NEW state, NEW marker, NEW sent,
           Return(w, state, marker, sent), pc[w] # "idle", UNCHANGED <<box, flight, taken>>,
           Exclusive(rec[w].id) /\ Owns(w) /\ ~ marker
               => Attempted(rec[w].id)' = {} \/ state = "delivered",
           sent /\ Kind(w) # "dispatch" => \E c \in taken : c[1] = rec[w].id
    PROVE  Inv'
<1>1. /\ pc'[w] = "complete" /\ rec' = rec
      /\ out'[w] = [state |-> state, marker |-> marker, sent |-> sent]
  BY DEF Inv, TypeOK, Return, Goto
<1>2. \A v \in Worker \ {w} : pc'[v] = pc[v] /\ rec'[v] = rec[v] /\ out'[v] = out[v]
  BY DEF Inv, TypeOK, Return, Goto
<1>3. Owns(w)' = Owns(w) /\ Kind(w)' = Kind(w)
  BY <1>1 DEF Owns, Kind
<1>4. Knows(w)'
  BY <1>1, <1>3 DEF Knows, Exclusive
<1> QED BY <1>1, <1>2, <1>4, LocalStep

(* Before a send, an unmarked row that is still owned has no attempt.      *)
LEMMA NoneBeforeMark ==
    ASSUME Inv, NEW w \in Worker, pc[w] \in {"claimed", "mark"}, Owns(w),
           Exclusive(rec[w].id), ~ rec[w].marker
    PROVE  Attempted(rec[w].id) = {} /\ ~ box[rec[w].id].marker
<1>1. rec[w].id \in Delivery
  BY WorkerFacts DEF Inv
<1>2. ~ box[rec[w].id].marker /\ box[rec[w].id].state = "running"
  BY DEF Inv, RecordsShowMarker, Owns
<1> QED BY <1>1, <1>2 DEF Inv, MarkersCover

(* A result moves no call.                                                 *)
LEMMA ReturnAttempts ==
    ASSUME TypeOK, NEW w \in Worker, NEW state, NEW marker, NEW sent,
           Return(w, state, marker, sent), UNCHANGED <<flight, taken>>, NEW d \in Delivery
    PROVE  Attempted(d)' \subseteq Attempted(d)
<1> SUFFICES ASSUME NEW c, c \in Attempted(d)'
             PROVE  c \in Attempted(d)
  OBVIOUS
<1>1. CASE c \in flight \cup taken /\ c[1] = d
  BY <1>1, AttemptedMember
<1>2. CASE \E v \in Worker : pc'[v] \in {"send", "waiting"} /\ rec'[v].id = d /\ c = Call(v)'
  <2>1. PICK v \in Worker : pc'[v] \in {"send", "waiting"} /\ rec[v].id = d /\ c = Call(v)
    BY <1>2 DEF Return, Call
  <2>2. pc[v] \in {"send", "waiting"}
    BY <2>1 DEF TypeOK, Return, Goto
  <2> QED BY <2>1, <2>2, AttemptedMember
<1> QED BY <1>1, <1>2 DEF Attempted

LEMMA SkipInv ==
    ASSUME Inv, TypeOK', NEW w \in Worker, Skip(w)
    PROVE  Inv'
<1>1. PICK state \in {"failed", "delivered"} :
         Return(w, state, rec[w].marker, FALSE) /\ (~ rec[w].marker => state = "delivered")
  BY DEF Skip
<1>2. pc[w] # "idle" /\ UNCHANGED <<box, flight, taken>>
  BY DEF Skip
<1> QED BY <1>1, <1>2, ReturnInv

LEMMA FailBeforeSendInv ==
    ASSUME Inv, TypeOK', NEW w \in Worker, FailBeforeSend(w)
    PROVE  Inv'
<1>1. PICK state \in {"failed", "pending"} : Return(w, state, rec[w].marker, FALSE)
  BY DEF FailBeforeSend
<1>2. pc[w] = "claimed" /\ UNCHANGED <<box, flight, taken>>
  BY DEF FailBeforeSend
<1>3. Exclusive(rec[w].id) /\ Owns(w) /\ ~ rec[w].marker => Attempted(rec[w].id)' = {}
  <2>1. TypeOK /\ rec[w].id \in Delivery
    BY WorkerFacts DEF Inv
  <2>2. PICK d \in Delivery : d = rec[w].id
    BY <2>1
  <2>3. Attempted(d)' \subseteq Attempted(d) /\ d = rec'[w].id
    BY <1>1, <1>2, <2>1, <2>2, ReturnAttempts DEF Return
  <2>4. Attempted(rec[w].id)' = Attempted(d)'
    BY <2>3
  <2> QED BY <1>2, <2>2, <2>3, <2>4, NoneBeforeMark
<1> QED BY <1>1, <1>2, <1>3, ReturnInv

LEMMA PrepareInv ==
    ASSUME Inv, TypeOK', NEW w \in Worker, Prepare(w)
    PROVE  Inv'
<1>1. /\ pc[w] = "claimed" /\ ~ rec[w].marker /\ MaySend(w)
      /\ UNCHANGED <<box, out, flight, taken>>
  BY DEF Prepare
<1>2. \A v \in Worker \ {w} : pc'[v] = pc[v] /\ rec'[v] = rec[v] /\ out'[v] = out[v]
  BY DEF Inv, TypeOK, Prepare, Goto
<1>3. /\ pc'[w] = "mark" /\ rec'[w].id = rec[w].id
      /\ rec'[w].attempt = rec[w].attempt /\ rec'[w].marker = rec[w].marker
  BY DEF Inv, TypeOK, Prepare, Goto, Claimed
<1>4. Call(w)' = Call(w) /\ Kind(w)' = Kind(w) /\ Recovery(w)' = Recovery(w)
      /\ Owns(w)' = Owns(w) /\ rec[w].id \in Delivery
  <2>1. TypeOK /\ rec[w].id \in Delivery
    BY WorkerFacts DEF Inv
  <2>2. Owns(w)' = Owns(w)
    BY <1>1, <1>3 DEF Owns
  <2> QED BY <1>1, <1>3, <2>1, <2>2 DEF Call, Kind, Recovery
<1>5. Recovery(w) /\ Kind(w) \in {"discord", "email"} => FailureTook(rec[w].id)
  <2> SUFFICES ASSUME Recovery(w), Kind(w) \in {"discord", "email"}
               PROVE  FailureTook(rec[w].id)
    OBVIOUS
  <2>1. PICK f \in FailuresOf[rec[w].id] : box[f].sent
    BY <1>1 DEF MaySend, FailureShown
  <2>2. f \in Delivery /\ KindOf[f] # "dispatch"
    BY <1>4, OutboxAssumption DEF Kind
  <2> QED BY <2>1, <2>2 DEF Inv, DeliveredIsReal, FailureTook
<1>6. Knows(w)'
  <2>1. Knows(w)
    BY WorkersKnow
  <2>2. FailureTook(rec[w].id)' = FailureTook(rec[w].id)
    BY <1>1, <1>3 DEF FailureTook
  <2> QED BY <1>1, <1>3, <1>4, <1>5, <2>1, <2>2 DEF Knows
<1> QED BY <1>1, <1>2, <1>3, <1>6, LocalStep

LEMMA NotSentInv ==
    ASSUME Inv, TypeOK', NEW w \in Worker, NotSent(w)
    PROVE  Inv'
<1>1. PICK state \in {"pending", "delivered"} : Return(w, state, FALSE, FALSE)
  BY DEF NotSent
<1>2. pc[w] = "send" /\ UNCHANGED <<box, flight, taken>>
  BY DEF NotSent
<1>3. Exclusive(rec[w].id) => Attempted(rec[w].id)' = {}
  <2>1. Call(w) \notin flight \cup taken /\ rec[w].id \in Delivery
    BY <1>2, WorkersKnow, WorkerFacts DEF Knows, Inv
  <2>2. pc' = [pc EXCEPT ![w] = "complete"] /\ UNCHANGED rec
    BY <1>1 DEF Return, Goto
  <2> QED BY <1>2, <2>1, <2>2, NothingLeft DEF Inv, MarkersCover
<1> QED BY <1>1, <1>2, <1>3, ReturnInv

(* The answers of providers.                                               *)
LEMMA ObserveInv ==
    ASSUME Inv, TypeOK', NEW w \in Worker, ObserveRun(w), pc[w] # "idle", Kind(w) = "dispatch",
           UNCHANGED <<box, flight, taken>>
    PROVE  Inv'
<1>1. Return(w, "delivered", TRUE, TRUE) \/ Return(w, "reconcile_required", TRUE, FALSE)
  BY DEF ObserveRun
<1> QED BY <1>1, ReturnInv

LEMMA AnsweredInv ==
    ASSUME Inv, TypeOK', NEW w \in Worker, DispatchAnswered(w) \/ IssueAnswered(w)
    PROVE  Inv'
<1>1. pc[w] # "idle" /\ UNCHANGED <<box, flight, taken>>
  BY DEF DispatchAnswered, IssueAnswered
<1>2. CASE \E state \in {"failed", "pending"} : Return(w, state, TRUE, FALSE)
  BY <1>1, <1>2, ReturnInv
<1>3. CASE Kind(w) = "dispatch" /\ ObserveRun(w)
  BY <1>1, <1>3, ObserveInv
<1>4. CASE Call(w) \in taken /\ Return(w, "delivered", TRUE, TRUE)
  <2>1. \E c \in taken : c[1] = rec[w].id
    BY <1>4, WorkerFacts DEF Inv
  <2> QED BY <1>1, <1>4, <2>1, ReturnInv
<1> QED BY <1>2, <1>3, <1>4 DEF DispatchAnswered, IssueAnswered

LEMMA DirectAnsweredInv ==
    ASSUME Inv, TypeOK', NEW w \in Worker, DirectAnswered(w)
    PROVE  Inv'
<1>1. PICK r \in Result : /\ Return(w, r.state, r.marker, r.sent)
                          /\ r.sent => Call(w) \in taken
                          /\ \/ r.state = "delivered" \/ r.marker
                             \/ Kind(w) = "email"
                             \/ Call(w) \notin flight \cup taken
  BY DEF DirectAnswered, EmailResults, DiscordResults
<1>2. pc[w] = "waiting" /\ UNCHANGED <<box, flight, taken>>
  BY DEF DirectAnswered
<1>3. r.sent => \E c \in taken : c[1] = rec[w].id
  BY <1>1, WorkerFacts DEF Inv
<1>4. Exclusive(rec[w].id) /\ ~ r.marker => Attempted(rec[w].id)' = {} \/ r.state = "delivered"
  <2> SUFFICES ASSUME Exclusive(rec[w].id), ~ r.marker, r.state # "delivered"
               PROVE  Attempted(rec[w].id)' = {}
    OBVIOUS
  <2>1. Call(w) \notin flight \cup taken /\ rec[w].id \in Delivery
    BY <1>1, WorkerFacts DEF Exclusive, Kind, Inv
  <2>2. pc' = [pc EXCEPT ![w] = "complete"] /\ UNCHANGED rec
    BY <1>1 DEF Return, Goto
  <2> QED BY <1>2, <2>1, <2>2, NothingLeft DEF Inv, MarkersCover
<1> QED BY <1>1, <1>2, <1>3, <1>4, ReturnInv

LEMMA ReconcileInv ==
    ASSUME Inv, TypeOK', NEW w \in Worker,
           ReconcileDispatch(w) \/ ReconcileIssue(w) \/ ReconcileDirect(w)
    PROVE  Inv'
<1>1. pc[w] = "claimed" /\ UNCHANGED <<box, flight, taken>>
  BY DEF ReconcileDispatch, ReconcileIssue, ReconcileDirect
<1>2. CASE ReconcileDispatch(w)
  BY <1>1, <1>2, ObserveInv DEF ReconcileDispatch
<1>3. CASE ReconcileDirect(w)
  BY <1>1, <1>3, ReturnInv DEF ReconcileDirect
<1>4. CASE ReconcileIssue(w)
  <2>1. CASE (\E r \in taken : r[1] = rec[w].id) /\ Return(w, "delivered", TRUE, TRUE)
    BY <1>1, <2>1, ReturnInv
  <2>2. CASE Goto(w, "send") /\ UNCHANGED <<rec, out>>
    <3>1. pc'[w] = "send" /\ \A v \in Worker \ {w} : pc'[v] = pc[v]
      BY <2>2 DEF Goto, Inv, TypeOK
    <3>2. KindOf[rec[w].id] = "issue" /\ Kind(w)' = "issue" /\ Call(w)' = Call(w)
      BY <1>4, <2>2 DEF ReconcileIssue, Kind, Call
    <3>3. Call(w) \notin flight \cup taken
      BY <1>1, WorkersKnow DEF Knows
    <3>4. Knows(w)'
      BY <1>1, <3>1, <3>2, <3>3 DEF Knows
    <3> QED BY <1>1, <2>2, <3>1, <3>2, <3>4, LocalStep
  <2> QED BY <1>4, <2>1, <2>2 DEF ReconcileIssue
<1> QED BY <1>2, <1>3, <1>4

-----------------------------------------------------------------------------
(* Steps of the owner of a row on that row.                                *)

LEMMA OwnerStep ==
    ASSUME Inv, TypeOK', NEW w \in Worker, Owns(w), Busy(w), UNCHANGED <<flight, taken>>,
           \A v \in Worker \ {w} : pc'[v] = pc[v] /\ rec'[v] = rec[v] /\ out'[v] = out[v],
           NEW d \in Delivery, d = rec[w].id,
           \A e \in Delivery \ {d} : box'[e] = box[e],
           box'[d].attempt = box[d].attempt, box'[d].state # "none",
           box'[d].owner \in {w, NoWorker},
           box'[d].sent /\ KindOf[d] # "dispatch" => \E c \in taken : c[1] = d,
           Exclusive(d) =>
               /\ \A c, e \in Attempted(d)' : c = e
               /\ Attempted(d)' # {} => box'[d].marker \/ box'[d].state = "delivered",
           pc'[w] # "idle" =>
               /\ rec'[w].id = rec[w].id /\ rec'[w].attempt = rec[w].attempt
               /\ Knows(w)'
    PROVE  Inv'
<1>1. TypeOK
  BY DEF Inv
<1>2. \A v \in Worker : Busy(v)' => Busy(v) /\ rec[v].id \in Delivery
                                    /\ Call(v)' = Call(v) /\ rec'[v].id = rec[v].id
                                    /\ rec'[v].attempt = rec[v].attempt
  BY <1>1, WorkerFacts DEF Busy, Call
<1>3. \A v \in Worker \ {w} :
         Call(v)' = Call(v) /\ Kind(v)' = Kind(v) /\ Recovery(v)' = Recovery(v)
         /\ Busy(v)' = Busy(v)
  BY DEF Call, Kind, Recovery, Busy
<1>4. \A v \in Worker \ {w} : Owns(v)' => rec[v].id # d /\ Owns(v)
  <2> SUFFICES ASSUME NEW v \in Worker \ {w}, Owns(v)'
               PROVE  rec[v].id # d /\ Owns(v)
    OBVIOUS
  <2>1. rec[v].id \in Delivery /\ rec'[v] = rec[v] /\ v # NoWorker
    BY <1>1, WorkerFacts, OutboxAssumption
  <2>2. rec[v].id # d
    BY <2>1 DEF Owns
  <2> QED BY <2>1, <2>2 DEF Owns
<1>5. \A e \in Delivery : FailureTook(e)' = FailureTook(e) /\ Exclusive(e)' = Exclusive(e)
  BY DEF FailureTook, Exclusive
<1>6. \A e \in Delivery \ {d} : Attempted(e)' \subseteq Attempted(e)
  <2> SUFFICES ASSUME NEW e \in Delivery \ {d}, NEW c, c \in Attempted(e)'
               PROVE  c \in Attempted(e)
    OBVIOUS
  <2>1. CASE c \in flight \cup taken /\ c[1] = e
    BY <2>1, AttemptedMember
  <2>2. CASE \E v \in Worker : pc'[v] \in {"send", "waiting"} /\ rec'[v].id = e /\ c = Call(v)'
    <3>1. PICK v \in Worker : pc'[v] \in {"send", "waiting"} /\ rec'[v].id = e /\ c = Call(v)'
      BY <2>2
    <3>2. v # w
      BY <3>1
    <3>3. pc[v] \in {"send", "waiting"} /\ rec[v].id = e /\ c = Call(v)
      BY <1>3, <3>1, <3>2
    <3> QED BY <3>3, AttemptedMember
  <2> QED BY <2>1, <2>2 DEF Attempted
<1>7. AttemptsInOrder'
  <2>1. \A c \in flight \cup taken : c[2] <= box'[c[1]].attempt
    <3>1. \A c \in flight \cup taken : c[1] \in Delivery
      BY <1>1 DEF TypeOK, Calls
    <3> QED BY <3>1 DEF Inv, AttemptsInOrder
  <2>2. \A v \in Worker :
         Busy(v)' => /\ rec'[v].attempt <= box'[rec'[v].id].attempt
                     /\ Owns(v)' => rec'[v].attempt = box'[rec'[v].id].attempt
    <3> SUFFICES ASSUME NEW v \in Worker, Busy(v)'
                 PROVE  /\ rec'[v].attempt <= box'[rec'[v].id].attempt
                        /\ Owns(v)' => rec'[v].attempt = box'[rec'[v].id].attempt
      OBVIOUS
    <3>1. box'[rec'[v].id].attempt = box[rec[v].id].attempt
      BY <1>2
    <3> QED BY <1>2, <1>4, <3>1 DEF Inv, AttemptsInOrder
  <2>3. \A u, v \in Worker : Busy(u)' /\ Busy(v)' /\ Call(u)' = Call(v)' => u = v
    BY <1>2 DEF Inv, AttemptsInOrder
  <2>4. \A v \in Worker :
         pc'[v] \in {"claimed", "mark", "send"} => Call(v)' \notin flight \cup taken
    BY <1>3 DEF Inv, AttemptsInOrder, Knows
  <2>5. \A e \in Delivery : box'[e].state = "none" => box'[e] = NoRow
    BY DEF Inv, AttemptsInOrder
  <2> QED BY <2>1, <2>2, <2>3, <2>4, <2>5 DEF AttemptsInOrder
<1>8. RecordsShowMarker'
  <2> SUFFICES ASSUME NEW v \in Worker
               PROVE  /\ pc'[v] \in {"claimed", "mark"} /\ Owns(v)'
                         => rec'[v].marker = box'[rec'[v].id].marker
                      /\ pc'[v] = "mark" => ~ rec'[v].marker
    BY DEF RecordsShowMarker
  <2>1. CASE v = w
    BY <2>1 DEF Knows
  <2>2. CASE v # w
    <3>1. rec[v].id \in Delivery
      BY <1>1, WorkerFacts
    <3> QED BY <1>4, <2>2, <3>1 DEF Inv, RecordsShowMarker
  <2> QED BY <2>1, <2>2
<1>9. MarkersCover'
  <2> SUFFICES ASSUME NEW e \in Delivery, Exclusive(e)
               PROVE  /\ \A c, f \in Attempted(e)' : c = f
                      /\ Attempted(e)' # {} => box'[e].marker \/ box'[e].state = "delivered"
                      /\ \A v \in Worker :
                           pc'[v] = "complete" /\ rec'[v].id = e /\ Owns(v)' /\ ~ out'[v].marker
                           => Attempted(e)' = {} \/ out'[v].state = "delivered"
    BY <1>5 DEF MarkersCover
  <2>1. CASE e = d
    <3> SUFFICES ASSUME NEW v \in Worker,
                        pc'[v] = "complete" /\ rec'[v].id = d /\ Owns(v)' /\ ~ out'[v].marker
                 PROVE  Attempted(d)' = {} \/ out'[v].state = "delivered"
      BY <2>1
    <3>1. v = w
      BY <1>4
    <3> QED BY <1>5, <2>1, <3>1 DEF Knows
  <2>2. CASE e # d
    <3>1. \A c, f \in Attempted(e)' : c = f
      BY <1>6, <2>2 DEF Inv, MarkersCover
    <3>2. Attempted(e)' # {} => box'[e].marker \/ box'[e].state = "delivered"
      BY <1>6, <2>2 DEF Inv, MarkersCover
    <3>3. ASSUME NEW v \in Worker,
                 pc'[v] = "complete" /\ rec'[v].id = e /\ Owns(v)' /\ ~ out'[v].marker
          PROVE  Attempted(e)' = {} \/ out'[v].state = "delivered"
      <4>1. v # w
        BY <2>2, <3>3
      <4>2. pc[v] = "complete" /\ rec[v].id = e /\ Owns(v) /\ ~ out[v].marker
            /\ out'[v] = out[v]
        BY <1>4, <3>3, <4>1
      <4>3. Attempted(e) = {} \/ out[v].state = "delivered"
        BY <4>2 DEF Inv, MarkersCover
      <4> QED BY <1>6, <2>2, <4>2, <4>3
    <3> QED BY <3>1, <3>2, <3>3
  <2> QED BY <2>1, <2>2
<1>10. ResultsAreReal'
  <2> SUFFICES ASSUME NEW v \in Worker
               PROVE  (/\ pc[v] = "complete" /\ out[v].sent /\ Kind(v) # "dispatch"
                          => \E c \in taken : c[1] = rec[v].id
                       /\ pc[v] \in {"mark", "send"} /\ Recovery(v) /\ Kind(v) \in {"discord", "email"}
                          => FailureTook(rec[v].id))'
    BY DEF ResultsAreReal
  <2>1. CASE v = w
    BY <2>1 DEF Knows
  <2>2. CASE v # w
    <3>1. rec[v].id \in Delivery
      BY <1>1, WorkerFacts
    <3> QED BY <1>3, <1>5, <2>2, <3>1 DEF Inv, ResultsAreReal
  <2> QED BY <2>1, <2>2
<1>11. DeliveredIsReal'
  BY DEF Inv, DeliveredIsReal
<1>12. RecoveryFollowsFailure'
  <2> SUFFICES ASSUME NEW e \in Delivery, FailuresOf[e] # {}, KindOf[e] \in {"discord", "email"},
                      NEW c \in Possible(e)'
               PROVE  FailureTook(e)
    BY <1>5 DEF RecoveryFollowsFailure, FailureTook
  <2>1. CASE c \in flight \cup taken /\ c[1] = e
    <3>1. c \in Possible(e)
      BY <2>1 DEF Possible
    <3> QED BY <3>1 DEF Inv, RecoveryFollowsFailure, FailureTook
  <2>2. CASE \E v \in Worker : pc'[v] = "send" /\ rec'[v].id = e
    <3>1. PICK v \in Worker : pc'[v] = "send" /\ rec'[v].id = e
      BY <2>2
    <3>2. Recovery(v)' /\ Kind(v)' \in {"discord", "email"}
      BY <3>1 DEF Recovery, Kind
    <3>3. FailureTook(rec[v].id)'
      BY <1>10, <3>1, <3>2 DEF ResultsAreReal
    <3> QED BY <1>5, <3>1, <3>3
  <2> QED BY <2>1, <2>2 DEF Possible
<1> QED BY <1>7, <1>8, <1>9, <1>10, <1>11, <1>12 DEF Inv

LEMMA CompleteInv ==
    ASSUME Inv, TypeOK', NEW w \in Worker, Complete(w)
    PROVE  Inv'
<1>1. pc[w] = "complete" /\ Finish(w) /\ UNCHANGED <<flight, taken>>
  BY DEF Complete
<1>2. CASE ~ Owns(w)
  BY <1>1, <1>2, FinishInv DEF Complete
<1>3. CASE Owns(w)
  <2>1. PICK d \in Delivery : d = rec[w].id
    BY WorkerFacts DEF Inv
  <2>2. box[d] \in Row /\ box \in [Delivery -> Row] /\ out[w] \in Result /\ Knows(w)
    BY WorkerFacts, RowFacts, WorkersKnow DEF Inv, TypeOK
  <2>0. PICK r \in Row : /\ box' = [box EXCEPT ![d] = r]
                         /\ r.state = out[w].state /\ r.owner = NoWorker
                         /\ r.attempt = box[d].attempt
                         /\ r.marker = out[w].marker /\ r.sent = out[w].sent
    BY <1>3, <2>1, CompletedRow DEF Inv
  <2>3. \A e \in Delivery \ {d} : box'[e] = box[e]
    BY <2>0, <2>2
  <2>4. /\ box'[d].state = out[w].state /\ box'[d].owner = NoWorker
        /\ box'[d].attempt = box[d].attempt
        /\ box'[d].marker = out[w].marker /\ box'[d].sent = out[w].sent
    BY <2>0, <2>2
  <2>5. \A v \in Worker \ {w} : pc'[v] = pc[v] /\ rec'[v] = rec[v] /\ out'[v] = out[v]
    BY <1>1 DEF Inv, TypeOK, Finish, Goto
  <2>6. pc'[w] = "idle"
    BY <1>1 DEF Inv, TypeOK, Finish, Goto
  <2>7. Attempted(d)' \subseteq Attempted(d)
    <3> SUFFICES ASSUME NEW c, c \in Attempted(d)'
                 PROVE  c \in Attempted(d)
      OBVIOUS
    <3>1. CASE c \in flight \cup taken /\ c[1] = d
      BY <3>1, AttemptedMember
    <3>2. CASE \E v \in Worker : pc'[v] \in {"send", "waiting"} /\ rec'[v].id = d /\ c = Call(v)'
      <4>1. PICK v \in Worker : pc'[v] \in {"send", "waiting"} /\ rec'[v].id = d /\ c = Call(v)'
        BY <3>2
      <4>2. v # w
        BY <2>6, <4>1
      <4>3. pc[v] \in {"send", "waiting"} /\ rec[v].id = d /\ c = Call(v)
        BY <2>5, <4>1, <4>2 DEF Call
      <4> QED BY <4>3, AttemptedMember
    <3> QED BY <1>1, <3>1, <3>2 DEF Attempted
  <2>8. Exclusive(d) =>
               /\ \A c, e \in Attempted(d)' : c = e
               /\ Attempted(d)' # {} => box'[d].marker \/ box'[d].state = "delivered"
    BY <1>1, <1>3, <2>1, <2>2, <2>4, <2>7 DEF Inv, MarkersCover, Knows
  <2>9. box'[d].sent /\ KindOf[d] # "dispatch" => \E c \in taken : c[1] = d
    BY <1>1, <2>1, <2>2, <2>4 DEF Knows, Kind
  <2>10. out[w].state # "none" /\ Busy(w)
    BY <1>1, <2>2 DEF Result, Busy
  <2> QED BY <1>1, <1>3, <2>1, <2>3, <2>4, <2>5, <2>6, <2>8, <2>9, <2>10, OwnerStep
<1> QED BY <1>2, <1>3

(* The marker was refused, or its reply was lost.                          *)
LEMMA MarkFailedInv ==
    ASSUME Inv, TypeOK', NEW w \in Worker, pc[w] = "mark", MarkFailed(w),
           UNCHANGED <<box, flight, taken>>
    PROVE  Inv'
<1>1. CASE Finish(w)
  BY <1>1, FinishInv
<1>2. CASE Return(w, "pending", Kind(w) \in {"dispatch", "issue"}, FALSE)
  <2>1. PICK d \in Delivery : d = rec[w].id
    BY WorkerFacts DEF Inv
  <2>2. Attempted(d)' \subseteq Attempted(d) /\ d = rec'[w].id
    BY <1>2, <2>1, ReturnAttempts DEF Return, Inv
  <2>3. Exclusive(d) /\ Owns(w) => Attempted(d)' = {}
    BY <2>1, <2>2, NoneBeforeMark, WorkersKnow DEF Knows
  <2>4. Attempted(rec[w].id)' = Attempted(d)'
    BY <2>2
  <2> QED BY <1>2, <2>1, <2>3, <2>4, ReturnInv
<1> QED BY <1>1, <1>2 DEF MarkFailed

LEMMA MarkProviderStartedInv ==
    ASSUME Inv, TypeOK', NEW w \in Worker, MarkProviderStarted(w)
    PROVE  Inv'
<1>1. pc[w] = "mark" /\ UNCHANGED <<flight, taken>>
  BY DEF MarkProviderStarted
<1>2. CASE MarkFailed(w) /\ UNCHANGED box
  BY <1>1, <1>2, MarkFailedInv
<1>3. CASE Return(w, "delivered", FALSE, FALSE) /\ UNCHANGED box
  BY <1>1, <1>3, ReturnInv
<1>4. CASE /\ Owns(w)
           /\ box' = [box EXCEPT ![rec[w].id].marker = TRUE, ![rec[w].id].seen = rec[w].seen]
           /\ \/ Goto(w, "send") /\ UNCHANGED <<rec, out>>
              \/ MarkFailed(w)
  <2>1. PICK d \in Delivery : d = rec[w].id
    BY WorkerFacts DEF Inv
  <2>2. box[d] \in Row /\ box \in [Delivery -> Row] /\ Knows(w) /\ Busy(w)
    BY <1>1, RowFacts, WorkersKnow DEF Inv, TypeOK, Busy
  <2>3. \A e \in Delivery \ {d} : box'[e] = box[e]
    BY <1>4, <2>1, <2>2
  <2>4. /\ box'[d].state = box[d].state /\ box'[d].owner = box[d].owner
        /\ box'[d].attempt = box[d].attempt
        /\ box'[d].marker /\ box'[d].sent = box[d].sent
    BY <1>4, <2>1, <2>2 DEF Row
  <2>5. \A v \in Worker \ {w} : pc'[v] = pc[v] /\ rec'[v] = rec[v] /\ out'[v] = out[v]
    BY <1>4 DEF Inv, TypeOK, Finish, Goto, MarkFailed, Return
  <2>6. box[d].state = "running" /\ box[d].owner = w
    BY <1>4, <2>1 DEF Owns
  <2>7. box'[d].sent /\ KindOf[d] # "dispatch" => \E c \in taken : c[1] = d
    BY <2>4 DEF Inv, DeliveredIsReal
  <2>8. Exclusive(d) => Attempted(d) = {}
    BY <1>1, <1>4, <2>1, <2>2, NoneBeforeMark DEF Knows
  <2>9. /\ Owns(w) /\ box'[d].owner \in {w, NoWorker} /\ box'[d].state # "none"
        /\ box'[d].attempt = box[d].attempt
    BY <1>4, <2>4, <2>6
  <2>10. CASE Goto(w, "send") /\ UNCHANGED <<rec, out>>
    <3>1. pc'[w] = "send" /\ Call(w)' = Call(w) /\ Kind(w)' = Kind(w) /\ Recovery(w)' = Recovery(w)
      BY <2>10 DEF Goto, Call, Kind, Recovery, Inv, TypeOK
    <3>2. FailureTook(rec[w].id)' = FailureTook(rec[w].id)
      BY <1>1, <2>10 DEF FailureTook
    <3>3. Knows(w)'
      BY <1>1, <2>2, <3>1, <3>2 DEF Knows
    <3>4. Exclusive(d) => \A c \in Attempted(d)' : c = Call(w)
      <4> SUFFICES ASSUME Exclusive(d), NEW c \in Attempted(d)'
                   PROVE  c = Call(w)
        OBVIOUS
      <4>1. CASE c \in flight \cup taken /\ c[1] = d
        BY <2>8, <4>1, AttemptedMember
      <4>2. CASE \E v \in Worker : pc'[v] \in {"send", "waiting"} /\ rec'[v].id = d /\ c = Call(v)'
        <5>1. PICK v \in Worker : pc'[v] \in {"send", "waiting"} /\ rec'[v].id = d /\ c = Call(v)'
          BY <4>2
        <5>2. CASE v = w
          BY <3>1, <5>1, <5>2
        <5>3. CASE v # w
          <6>1. pc[v] \in {"send", "waiting"} /\ rec[v].id = d /\ c = Call(v)
            BY <2>5, <5>1, <5>3 DEF Call
          <6> QED BY <2>8, <6>1, AttemptedMember
        <5> QED BY <5>2, <5>3
      <4> QED BY <1>1, <4>1, <4>2 DEF Attempted
    <3>5. Exclusive(d) =>
            /\ \A c, e \in Attempted(d)' : c = e
            /\ Attempted(d)' # {} => box'[d].marker \/ box'[d].state = "delivered"
      BY <2>4, <3>4
    <3>6. pc'[w] # "idle" => /\ rec'[w].id = rec[w].id /\ rec'[w].attempt = rec[w].attempt
                             /\ Knows(w)'
      BY <2>10, <3>3
    <3> QED BY <1>1, <2>1, <2>2, <2>3, <2>5, <2>7, <2>9, <3>5, <3>6, OwnerStep
  <2>11. CASE MarkFailed(w)
    <3>1. pc'[w] \in {"idle", "complete"}
      BY <2>11 DEF MarkFailed, Return, Finish, Goto, Inv, TypeOK
    <3>2. Exclusive(d) => Attempted(d)' = {}
      <4> SUFFICES ASSUME Exclusive(d), NEW c, c \in Attempted(d)'
                   PROVE  FALSE
        OBVIOUS
      <4>1. CASE c \in flight \cup taken /\ c[1] = d
        BY <2>8, <4>1, AttemptedMember
      <4>2. CASE \E v \in Worker : pc'[v] \in {"send", "waiting"} /\ rec'[v].id = d /\ c = Call(v)'
        <5>1. PICK v \in Worker : pc'[v] \in {"send", "waiting"} /\ rec'[v].id = d /\ c = Call(v)'
          BY <4>2
        <5>2. pc[v] \in {"send", "waiting"} /\ rec[v].id = d /\ c = Call(v)
          BY <2>5, <3>1, <5>1 DEF Call
        <5> QED BY <2>8, <5>2, AttemptedMember
      <4> QED BY <1>1, <4>1, <4>2 DEF Attempted
    <3>3. pc'[w] # "idle" => /\ pc'[w] = "complete" /\ rec' = rec
                             /\ ~ out'[w].sent
      BY <2>11, <3>1 DEF MarkFailed, Return, Finish, Goto, Inv, TypeOK
    <3>4. pc'[w] # "idle" => Knows(w)'
      <4> SUFFICES ASSUME pc'[w] # "idle" PROVE Knows(w)'
        OBVIOUS
      <4>1. Attempted(rec[w].id)' = Attempted(d)' /\ (Exclusive(rec[w].id)' => Exclusive(d))
        BY <2>1, <3>3 DEF Exclusive
      <4> QED BY <3>2, <3>3, <4>1 DEF Knows
    <3>5. Exclusive(d) =>
            /\ \A c, e \in Attempted(d)' : c = e
            /\ Attempted(d)' # {} => box'[d].marker \/ box'[d].state = "delivered"
      BY <3>2
    <3>6. pc'[w] # "idle" => /\ rec'[w].id = rec[w].id /\ rec'[w].attempt = rec[w].attempt
                             /\ Knows(w)'
      BY <3>3, <3>4
    <3> QED BY <1>1, <2>1, <2>2, <2>3, <2>5, <2>7, <2>9, <3>5, <3>6, OwnerStep
  <2> QED BY <1>4, <2>10, <2>11
<1> QED BY <1>2, <1>3, <1>4 DEF MarkProviderStarted

-----------------------------------------------------------------------------
(* Calls and claims.                                                       *)

LEMMA SendInv ==
    ASSUME Inv, TypeOK', NEW w \in Worker, Send(w)
    PROVE  Inv'
<1>1. /\ pc[w] = "send" /\ flight' = flight \cup {Call(w)} /\ UNCHANGED <<box, rec, out, taken>>
      /\ pc'[w] = "waiting" /\ \A v \in Worker \ {w} : pc'[v] = pc[v]
  BY DEF Send, Goto, Inv, TypeOK
<1>2. \A v \in Worker : /\ Call(v)' = Call(v) /\ Kind(v)' = Kind(v) /\ Recovery(v)' = Recovery(v)
                        /\ Busy(v)' = Busy(v) /\ Owns(v)' = Owns(v) /\ rec[v].id \in Delivery
                        /\ Call(v)[1] = rec[v].id /\ Call(v)[2] = rec[v].attempt
  BY <1>1, WorkerFacts DEF Call, Kind, Recovery, Busy, Owns, Inv
<1>3. \A e \in Delivery : /\ Attempted(e)' = Attempted(e) /\ Possible(e)' = Possible(e)
                          /\ FailureTook(e)' = FailureTook(e) /\ Exclusive(e)' = Exclusive(e)
  <2> SUFFICES ASSUME NEW e \in Delivery
               PROVE  Attempted(e)' = Attempted(e) /\ Possible(e)' = Possible(e)
    BY <1>1 DEF FailureTook, Exclusive
  <2>1. Attempted(e)' = Attempted(e)
    <3>1. ASSUME NEW c, c \in Attempted(e)' PROVE c \in Attempted(e)
      BY <1>1, <1>2, <3>1, AttemptedMember DEF Attempted
    <3>2. ASSUME NEW c, c \in Attempted(e) PROVE c \in Attempted(e)'
      BY <1>1, <1>2, <3>2, AttemptedMember DEF Attempted
    <3> QED BY <3>1, <3>2
  <2>2. ASSUME NEW c, c \in Possible(e)' PROVE c \in Possible(e)
    BY <1>1, <1>2, <2>2 DEF Possible
  <2>3. ASSUME NEW c, c \in Possible(e) PROVE c \in Possible(e)'
    BY <1>1, <1>2, <2>3 DEF Possible
  <2> QED BY <2>1, <2>2, <2>3
<1>4. AttemptsInOrder'
  <2>1. \A c \in (flight \cup taken)' : c[2] <= box[c[1]].attempt
    BY <1>1, <1>2 DEF Inv, AttemptsInOrder, Busy
  <2>2. \A v \in Worker :
         pc'[v] \in {"claimed", "mark", "send"} => Call(v) \notin (flight \cup taken)'
    BY <1>1, <1>2 DEF Inv, AttemptsInOrder, Busy
  <2> QED BY <1>1, <1>2, <2>1, <2>2 DEF Inv, AttemptsInOrder
<1>5. RecordsShowMarker'
  BY <1>1, <1>2 DEF Inv, RecordsShowMarker
<1>6. MarkersCover'
  BY <1>1, <1>2, <1>3 DEF Inv, MarkersCover
<1>7. ResultsAreReal'
  BY <1>1, <1>2, <1>3 DEF Inv, ResultsAreReal
<1>8. DeliveredIsReal' /\ RecoveryFollowsFailure'
  BY <1>1, <1>3 DEF Inv, DeliveredIsReal, RecoveryFollowsFailure
<1> QED BY <1>4, <1>5, <1>6, <1>7, <1>8 DEF Inv

LEMMA CallInv ==
    ASSUME Inv, TypeOK', NEW c \in flight, Land(c) \/ Drop(c)
    PROVE  Inv'
<1>1. /\ UNCHANGED <<box, pc, rec, out>> /\ flight' \subseteq flight
      /\ taken \subseteq taken' /\ (flight \cup taken)' \subseteq flight \cup taken
  BY DEF Land, Drop
<1>2. \A v \in Worker : /\ Call(v)' = Call(v) /\ Kind(v)' = Kind(v) /\ Recovery(v)' = Recovery(v)
                        /\ Busy(v)' = Busy(v) /\ Owns(v)' = Owns(v) /\ rec[v].id \in Delivery
  BY <1>1, WorkerFacts DEF Call, Kind, Recovery, Busy, Owns, Inv
<1>3. \A e \in Delivery : /\ Attempted(e)' \subseteq Attempted(e)
                          /\ Possible(e)' \subseteq Possible(e)
                          /\ FailureTook(e) => FailureTook(e)'
                          /\ Exclusive(e)' = Exclusive(e)
  <2> SUFFICES ASSUME NEW e \in Delivery
               PROVE  /\ Attempted(e)' \subseteq Attempted(e)
                      /\ Possible(e)' \subseteq Possible(e)
    BY <1>1 DEF FailureTook, Exclusive
  <2>1. ASSUME NEW a, a \in Attempted(e)' PROVE a \in Attempted(e)
    BY <1>1, <1>2, <2>1, AttemptedMember DEF Attempted
  <2>2. ASSUME NEW a, a \in Possible(e)' PROVE a \in Possible(e)
    BY <1>1, <1>2, <2>2 DEF Possible
  <2> QED BY <2>1, <2>2
<1>4. AttemptsInOrder'
  BY <1>1, <1>2 DEF Inv, AttemptsInOrder
<1>5. RecordsShowMarker'
  BY <1>1, <1>2 DEF Inv, RecordsShowMarker
<1>6. MarkersCover'
  BY <1>1, <1>2, <1>3 DEF Inv, MarkersCover
<1>7. ResultsAreReal'
  BY <1>1, <1>2, <1>3 DEF Inv, ResultsAreReal
<1>8. DeliveredIsReal'
  BY <1>1 DEF Inv, DeliveredIsReal
<1>9. RecoveryFollowsFailure'
  <2> SUFFICES ASSUME NEW e \in Delivery, FailuresOf[e] # {}, KindOf[e] \in {"discord", "email"},
                      Possible(e)' # {}
               PROVE  FailureTook(e)'
    BY DEF RecoveryFollowsFailure, FailureTook
  <2>1. FailureTook(e)
    BY <1>3 DEF Inv, RecoveryFollowsFailure, FailureTook
  <2> QED BY <1>3, <2>1
<1> QED BY <1>4, <1>5, <1>6, <1>7, <1>8, <1>9 DEF Inv

LEMMA ClaimInv ==
    ASSUME Inv, TypeOK', NEW w \in Worker, NEW d \in Delivery, NEW admitted \in BOOLEAN,
           Claim(w, d, admitted)
    PROVE  Inv'
<1>1. /\ pc[w] = "idle" /\ Unsettled(d) /\ (box[d].state = "running" => box[d].lease = "past")
      /\ UNCHANGED <<out, flight, taken>>
  BY DEF Claim, Claimable
<1>2. box[d] \in Row /\ box \in [Delivery -> Row] /\ rec \in [Worker -> Claimed]
      /\ pc \in [Worker -> PCs] /\ box[d].attempt \in Int
  BY RowFacts DEF Inv, TypeOK
<1>3. /\ box'[d].state = "running" /\ box'[d].owner = w /\ box'[d].lease = "live"
      /\ box'[d].attempt = box[d].attempt + 1
      /\ box'[d].marker = box[d].marker /\ box'[d].sent = box[d].sent
      /\ \A e \in Delivery \ {d} : box'[e] = box[e]
  BY <1>2 DEF Claim, Row
<1>4. /\ rec'[w].id = d /\ rec'[w].attempt = box[d].attempt + 1
      /\ rec'[w].marker = box[d].marker /\ pc'[w] = "claimed"
      /\ \A v \in Worker \ {w} : rec'[v] = rec[v] /\ pc'[v] = pc[v]
  BY <1>2 DEF Claim, Goto
<1>5. \A v \in Worker \ {w} :
         /\ Call(v)' = Call(v) /\ Kind(v)' = Kind(v) /\ Recovery(v)' = Recovery(v)
         /\ Busy(v)' = Busy(v) /\ rec[v].id \in Delivery
         /\ Call(v)[1] = rec[v].id /\ Call(v)[2] = rec[v].attempt
         /\ rec[v].attempt \in Int
  BY <1>4, WorkerFacts DEF Call, Kind, Recovery, Busy, Inv
<1>6. \A v \in Worker \ {w} : Owns(v)' => rec[v].id # d /\ Owns(v)
  BY <1>3, <1>4, <1>5 DEF Owns
<1>7. \A e \in Delivery : /\ Attempted(e)' = Attempted(e) /\ Possible(e)' = Possible(e)
                          /\ FailureTook(e)' = FailureTook(e) /\ Exclusive(e)' = Exclusive(e)
  <2> SUFFICES ASSUME NEW e \in Delivery
               PROVE  Attempted(e)' = Attempted(e) /\ Possible(e)' = Possible(e)
    BY <1>1 DEF FailureTook, Exclusive
  <2>1. ASSUME NEW c, c \in Attempted(e)' PROVE c \in Attempted(e)
    BY <1>1, <1>4, <1>5, <2>1, AttemptedMember DEF Attempted
  <2>2. ASSUME NEW c, c \in Attempted(e) PROVE c \in Attempted(e)'
    BY <1>1, <1>4, <1>5, <2>2, AttemptedMember DEF Attempted
  <2>3. ASSUME NEW c, c \in Possible(e)' PROVE c \in Possible(e)
    BY <1>1, <1>4, <1>5, <2>3 DEF Possible
  <2>4. ASSUME NEW c, c \in Possible(e) PROVE c \in Possible(e)'
    BY <1>1, <1>4, <1>5, <2>4 DEF Possible
  <2> QED BY <2>1, <2>2, <2>3, <2>4
<1>8. AttemptsInOrder'
  <2>1. \A e \in Delivery : /\ box'[e].state = "none" => box'[e] = NoRow
                            /\ box[e].attempt <= box'[e].attempt
    BY <1>3, RowFacts DEF Inv, AttemptsInOrder
  <2>2. \A c \in flight \cup taken : c[1] \in Delivery /\ c[2] \in Int /\ box[c[1]].attempt \in Int
                                     /\ box'[c[1]].attempt \in Int
    <3>1. TypeOK
      BY DEF Inv
    <3>2. \A e \in Delivery : box[e].attempt \in Int /\ box'[e].attempt \in Int
      BY <1>3, <3>1, RowFacts
    <3> QED BY <3>1, <3>2, OutboxAssumption DEF TypeOK, Calls
  <2>3. \A c \in flight \cup taken : c[2] <= box'[c[1]].attempt
    BY <2>1, <2>2 DEF Inv, AttemptsInOrder
  <2>4. \A v \in Worker :
         Busy(v)' => /\ rec'[v].attempt <= box'[rec'[v].id].attempt
                     /\ Owns(v)' => rec'[v].attempt = box'[rec'[v].id].attempt
    <3> SUFFICES ASSUME NEW v \in Worker, Busy(v)'
                 PROVE  /\ rec'[v].attempt <= box'[rec'[v].id].attempt
                        /\ Owns(v)' => rec'[v].attempt = box'[rec'[v].id].attempt
      OBVIOUS
    <3>1. CASE v = w
      BY <1>2, <1>3, <1>4, <3>1
    <3>2. CASE v # w
      BY <1>3, <1>4, <1>5, <1>6, <2>1, <3>2, RowFacts DEF Inv, AttemptsInOrder
    <3> QED BY <3>1, <3>2
  <2>5. Call(w)' = <<d, box[d].attempt + 1>>
    BY <1>4 DEF Call
  <2>6. \A v \in Worker \ {w} : Busy(v) => Call(v) # <<d, box[d].attempt + 1>>
    <3> SUFFICES ASSUME NEW v \in Worker \ {w}, Busy(v), rec[v].id = d
                 PROVE  rec[v].attempt # box[d].attempt + 1
      BY <1>5
    <3>1. rec[v].attempt <= box[d].attempt
      BY DEF Inv, AttemptsInOrder
    <3> QED BY <1>2, <1>5, <3>1
  <2>7. \A u, v \in Worker : Busy(u)' /\ Busy(v)' /\ Call(u)' = Call(v)' => u = v
    BY <1>5, <2>5, <2>6 DEF Inv, AttemptsInOrder
  <2>8. <<d, box[d].attempt + 1>> \notin flight \cup taken
    <3>1. \A c \in flight \cup taken : c[1] = d => c[2] # box[d].attempt + 1
      BY <1>2, <2>2 DEF Inv, AttemptsInOrder
    <3> QED BY <3>1
  <2>9. \A v \in Worker :
         pc'[v] \in {"claimed", "mark", "send"} => Call(v)' \notin flight \cup taken
    BY <1>4, <1>5, <2>5, <2>8 DEF Inv, AttemptsInOrder
  <2> QED BY <1>1, <2>1, <2>3, <2>4, <2>7, <2>9 DEF AttemptsInOrder
<1>9. RecordsShowMarker'
  BY <1>3, <1>4, <1>5, <1>6 DEF Inv, RecordsShowMarker
<1>10. MarkersCover'
  <2> SUFFICES ASSUME NEW e \in Delivery, Exclusive(e)
               PROVE  /\ \A c, f \in Attempted(e)' : c = f
                      /\ Attempted(e)' # {} => box'[e].marker \/ box'[e].state = "delivered"
                      /\ \A v \in Worker :
                           pc'[v] = "complete" /\ rec'[v].id = e /\ Owns(v)' /\ ~ out'[v].marker
                           => Attempted(e)' = {} \/ out'[v].state = "delivered"
    BY <1>7 DEF MarkersCover
  <2>1. \A c, f \in Attempted(e)' : c = f
    BY <1>7 DEF Inv, MarkersCover
  <2>2. Attempted(e)' # {} => box'[e].marker \/ box'[e].state = "delivered"
    <3>1. Attempted(e) # {} => box[e].marker \/ box[e].state = "delivered"
      BY DEF Inv, MarkersCover
    <3>2. box[d].state # "delivered"
      BY <1>1 DEF Unsettled
    <3> QED BY <1>3, <1>7, <3>1, <3>2
  <2>3. ASSUME NEW v \in Worker,
               pc'[v] = "complete" /\ rec'[v].id = e /\ Owns(v)' /\ ~ out'[v].marker
        PROVE  Attempted(e)' = {} \/ out'[v].state = "delivered"
    <3>1. v # w /\ pc[v] = "complete" /\ rec[v].id = e /\ Owns(v) /\ ~ out[v].marker
      BY <1>1, <1>4, <1>6, <2>3
    <3> QED BY <1>1, <1>7, <3>1 DEF Inv, MarkersCover
  <2> QED BY <2>1, <2>2, <2>3
<1>11. ResultsAreReal'
  BY <1>1, <1>4, <1>5, <1>7 DEF Inv, ResultsAreReal
<1>12. DeliveredIsReal'
  BY <1>1, <1>3 DEF Inv, DeliveredIsReal
<1>13. RecoveryFollowsFailure'
  BY <1>1, <1>7 DEF Inv, RecoveryFollowsFailure
<1> QED BY <1>8, <1>9, <1>10, <1>11, <1>12, <1>13 DEF Inv

-----------------------------------------------------------------------------
(* The theorems.                                                           *)

LEMMA InitInv == Init => Inv
<1> SUFFICES ASSUME Init PROVE Inv
  OBVIOUS
<1>1. TypeOK
  BY NoClaimType, OutboxAssumption DEF Init, TypeOK, Row, NoRow, PCs
<1>2. \A d \in Delivery : box[d] = NoRow /\ ~ box[d].sent
  BY DEF Init, NoRow
<1>3. \A w \in Worker : pc[w] = "idle"
  BY DEF Init
<1>4. \A d \in Delivery : Attempted(d) = {} /\ Possible(d) = {}
  BY <1>3 DEF Init, Attempted, Possible
<1>5. AttemptsInOrder /\ RecordsShowMarker /\ MarkersCover /\ ResultsAreReal
  BY <1>2, <1>3, <1>4 DEF Init, AttemptsInOrder, RecordsShowMarker, MarkersCover,
                          ResultsAreReal, Busy
<1>6. DeliveredIsReal /\ RecoveryFollowsFailure
  BY <1>2, <1>4 DEF DeliveredIsReal, RecoveryFollowsFailure
<1> QED BY <1>1, <1>5, <1>6 DEF Inv

LEMMA NextInv ==
    ASSUME Inv, [Next]_vars
    PROVE  Inv'
<1>1. TypeOK'
  BY NextType DEF Inv
<1>2. CASE \E w \in Worker : Deliver(w)
  BY <1>1, <1>2, SkipInv, FailBeforeSendInv, PrepareInv, MarkProviderStartedInv, SendInv,
     NotSentInv, AnsweredInv, DirectAnsweredInv, ReconcileInv, CompleteInv DEF Deliver
<1>3. CASE \E w \in Worker : Crash(w)
  BY <1>1, <1>3, FinishInv DEF Crash
<1>4. CASE \E d \in Delivery : Enqueue(d) \/ Clock(d)
  BY <1>1, <1>4, EnqueueInv, ClockInv
<1>5. CASE \E d \in Delivery, admitted \in BOOLEAN : Take(d, admitted)
  BY <1>1, <1>5, ClaimInv, ExhaustInv DEF Take
<1>6. CASE \E c \in flight : Land(c) \/ Drop(c)
  BY <1>1, <1>6, CallInv
<1>7. CASE UNCHANGED vars
  <2>1. \A d \in Delivery : box'[d].state = "none" => box'[d] = NoRow
    BY <1>7 DEF vars, Inv, AttemptsInOrder
  <2>2. \A w \in Worker : Owns(w)' = Owns(w)
    BY <1>7 DEF vars, Owns
  <2> QED BY <1>1, <1>7, <2>1, <2>2, RowStep DEF vars
<1> QED BY <1>2, <1>3, <1>4, <1>5, <1>6, <1>7 DEF Next

(* The inductive invariant: attempts in order, markers that cover every    *)
(* send, results that are real.                                            *)
THEOREM InvHolds == Spec => []Inv
<1>1. Init => Inv
  BY InitInv
<1>2. Inv /\ [Next]_vars => Inv'
  BY NextInv
<1> QED BY <1>1, <1>2, PTL DEF Spec

LEMMA InvMeansOnce == Inv => DispatchedOnce /\ DiscordSentOnce
<1> SUFFICES ASSUME Inv, NEW d \in Delivery, Exclusive(d)
             PROVE  Once(d)
  BY DEF DispatchedOnce, DiscordSentOnce, Exclusive
<1>1. \A c, e \in Attempted(d) : c = e
  BY DEF Inv, MarkersCover
<1> QED BY <1>1, PossibleIsAttempted DEF Once

(* Of all attempts at a workflow dispatch, or at a Discord notice, by      *)
(* however many slow, crashed and restarted workers, at most one can take  *)
(* hold.                                                                   *)
THEOREM SentAtMostOnce == Spec => [](DispatchedOnce /\ DiscordSentOnce)
<1>1. Inv => DispatchedOnce /\ DiscordSentOnce
  BY InvMeansOnce
<1> QED BY <1>1, InvHolds, PTL

(* A notice recorded as delivered was, and a direct recovery notice is     *)
(* sent only after a failure notice took hold.                             *)
THEOREM NoticesAreTrue == Spec => [](DeliveredIsReal /\ RecoveryFollowsFailure)
<1>1. Inv => DeliveredIsReal /\ RecoveryFollowsFailure
  BY DEF Inv
<1> QED BY <1>1, InvHolds, PTL

(* A worker whose step ends by writing its row holds the current attempt.  *)
LEMMA CompletionIsCurrent ==
    ASSUME Inv, [Next]_vars, NEW w \in Worker,
           pc[w] = "complete", pc'[w] = "idle", box' # box
    PROVE  rec[w].attempt = box[rec[w].id].attempt
<1>1. CASE Complete(w)
  BY <1>1 DEF Complete, Inv, AttemptsInOrder, Busy
<1>2. CASE \E v \in Worker : Crash(v)
  BY <1>2 DEF Crash
<1>3. CASE \E v \in Worker : Deliver(v) /\ ~ Complete(v)
  <2>1. PICK v \in Worker : Deliver(v) /\ ~ Complete(v)
    BY <1>3
  <2>2. pc[v] # "complete"
    BY <2>1 DEF Deliver, Skip, FailBeforeSend, Prepare, MarkProviderStarted, Send, NotSent,
                DispatchAnswered, IssueAnswered, DirectAnswered, ReconcileDispatch,
                ReconcileIssue, ReconcileDirect
  <2>3. MarkProviderStarted(v)
    BY <2>1 DEF Deliver, Skip, FailBeforeSend, Prepare, Send, NotSent,
                DispatchAnswered, IssueAnswered, DirectAnswered, ReconcileDispatch,
                ReconcileIssue, ReconcileDirect
  <2>4. pc'[w] = pc[w]
    BY <2>2, <2>3 DEF MarkProviderStarted, MarkFailed, Return, Finish, Goto, Inv, TypeOK
  <2> QED BY <2>4
<1>4. CASE \E v \in Worker : Complete(v) /\ v # w
  <2>1. PICK v \in Worker : Complete(v) /\ v # w
    BY <1>4
  <2>2. pc \in [Worker -> PCs] /\ pc' = [pc EXCEPT ![v] = "idle"]
    BY <2>1, Zenon DEF Complete, Finish, Goto, Inv, TypeOK
  <2> QED BY <2>1, <2>2
<1>5. CASE \E d \in Delivery : Enqueue(d) \/ Clock(d)
  BY <1>5 DEF Enqueue, Clock, LeaseRuns, BecomesDue
<1>6. CASE \E d \in Delivery, admitted \in BOOLEAN : Take(d, admitted)
  <2>1. PICK v \in Worker, d \in Delivery, admitted \in BOOLEAN :
           Claim(v, d, admitted) \/ Exhaust(v, d, admitted)
    BY <1>6 DEF Take
  <2>2. pc'[w] = pc[w]
    BY <2>1 DEF Claim, Exhaust, Goto, Inv, TypeOK
  <2> QED BY <2>2
<1>7. CASE (\E c \in flight : Land(c) \/ Drop(c)) \/ UNCHANGED vars
  BY <1>7 DEF Land, Drop, vars
<1> QED BY <1>1, <1>2, <1>3, <1>4, <1>5, <1>6, <1>7 DEF Next

(* A completion by a stale holder changes nothing: the owner's name is     *)
(* enough to tell the attempts apart.                                      *)
THEOREM StaleHoldersAreFenced == Spec => StaleHolderFenced
<1>1. Inv /\ [Next]_vars =>
        [\A w \in Worker :
            pc[w] = "complete" /\ pc'[w] = "idle" /\ box' # box
            => rec[w].attempt = box[rec[w].id].attempt]_vars
  BY CompletionIsCurrent
<1> QED BY <1>1, InvHolds, PTL DEF Spec, StaleHolderFenced

=============================================================================

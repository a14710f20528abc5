---------------------- MODULE ServiceDeployDrainProof ----------------------
(***************************************************************************)
(* Proofs about ServiceDeployDrain for every set of requests, markers and  *)
(* effects.                                                                *)
(*                                                                         *)
(* The argument has three parts.  The fence is always the receipt of its   *)
(* request, and a receipt that is in doubt is only left behind for the     *)
(* repair its marker names (FenceInv).  A request calls Dokploy after its  *)
(* receipt is past draining, one call after the other (CallInv).  When a   *)
(* dispatch is owned nothing blocks it, so nobody is at an effect or in    *)
(* time to begin one, and the closed admission keeps it so (WorkInv).      *)
(***************************************************************************)
EXTENDS ServiceDeployDrain, TLAPS

FenceInv == ReceiptsAgree /\ DoubtIsRepaired /\ DrainsAreBounded

CallInv == CallsInTurn /\ DispatchedOnce /\ ReceiptsAreTrue

WorkInv == ExecutorsAgree /\ DoubtIsQuiet /\ ReplacementWaits

-----------------------------------------------------------------------------
(* Types.                                                                  *)

LEMMA FenceFacts ==
    ASSUME TypeOK
    PROVE  /\ NoFence \in FenceRow
           /\ fence \in FenceRow /\ fence.expires \in Int
           /\ \A r \in Request : /\ receipt[r] \in FenceRow /\ receipt[r].expires \in Int
                                 /\ deadline[r] \in Int /\ timedOut[r] \in BOOLEAN
           /\ now \in Int /\ now \in 0..MaxNow
BY DrainAssumption DEF TypeOK, FenceRow, NoFence

LEMMA CallerFacts ==
    ASSUME TypeOK
    PROVE  /\ NoCaller \in Caller /\ caller \in Caller
           /\ NoCaller.req = NoRequest /\ NoRequest \notin Request
           /\ caller.req # NoRequest => caller.req \in Request
BY DrainAssumption DEF TypeOK, Caller, NoCaller, Process

LEMMA WorkFacts ==
    ASSUME TypeOK, NEW o \in Op
    PROVE  /\ row[o] \in WorkRow
           /\ row[o].attempt \in 0..MaxAttempt /\ row[o].exit \in 0..MaxAttempt
           /\ row[o].attempt \in Int /\ row[o].exit \in Int /\ MaxAttempt \in Int
           /\ row[o].marker \in BOOLEAN
BY DrainAssumption DEF TypeOK, WorkRow

LEMMA ExecutorFacts ==
    ASSUME TypeOK, NEW e \in exec
    PROVE  /\ e \in Executor /\ e.op \in Op /\ e.begun \in BOOLEAN
           /\ e.attempt \in 1..MaxAttempt /\ e.attempt \in Int
BY DrainAssumption DEF TypeOK, Executor

LEMMA WriteType ==
    ASSUME TypeOK, NEW f \in FenceRow, Write(f)
    PROVE  fence' \in FenceRow /\ receipt' \in [Request -> FenceRow]
BY DEF TypeOK, Write

LEMMA FenceOfType ==
    ASSUME TypeOK, NEW r \in Request, NEW expires \in 0..(MaxNow + Pause),
           NEW state \in {"draining", "dispatching"}
    PROVE  FenceOf(r, state, expires) \in FenceRow
BY FenceFacts DEF FenceRow, FenceOf

LEMMA BudgetType ==
    ASSUME TypeOK, NEW r \in Request, StartBudget(r)
    PROVE  deadline' \in [Request -> 0..(MaxNow + Budget)]
<1>1. now + Budget \in 0..(MaxNow + Budget)
  BY FenceFacts, DrainAssumption
<1> QED BY <1>1 DEF TypeOK, StartBudget

(* What a step of prepare writes.                                          *)
LEMMA PrepareType ==
    ASSUME TypeOK, NEW p \in Process, NEW r \in Request,
           DrainTimesOut(p, r) \/ Drain(p, r) \/ OwnDispatch(p, r)
    PROVE  TypeOK'
<1>1. CASE DrainTimesOut(p, r)
  <2>1. [receipt[r] EXCEPT !.expires = now] \in FenceRow
    BY FenceFacts, DrainAssumption DEF FenceRow
  <2> QED BY <1>1, <2>1, WriteType DEF DrainTimesOut, TypeOK, provider, work
<1>2. CASE Drain(p, r)
  <2>1. now + Pause \in 0..(MaxNow + Pause)
    BY FenceFacts, DrainAssumption
  <2> QED BY <1>2, <2>1, FenceOfType, WriteType, BudgetType
          DEF Drain, TypeOK, provider, work
<1>3. CASE OwnDispatch(p, r)
  <2>1. 0 \in 0..(MaxNow + Pause)
    BY DrainAssumption
  <2>2. caller' \in Caller
    BY <1>3 DEF OwnDispatch, Caller
  <2> QED BY <1>3, <2>1, <2>2, FenceOfType, WriteType, BudgetType
          DEF OwnDispatch, TypeOK, provider, work
<1> QED BY <1>1, <1>2, <1>3

LEMMA RecordType ==
    ASSUME TypeOK,
           \/ RecordPreEffectRefusal \/ RecordDispatch
           \/ \E p \in Process : ConfirmStartup(p)
    PROVE  TypeOK'
<1> USE FenceFacts, CallerFacts
<1>1. /\ [fence EXCEPT !.state = "requested"] \in FenceRow
      /\ [fence EXCEPT !.state = "confirmed"] \in FenceRow
      /\ [fence EXCEPT !.state = "refused"] \in FenceRow
  BY DEF FenceRow
<1>2. CASE RecordPreEffectRefusal
  <2>1. fence.prev # NoRequest => fence.prev \in Request
    BY DEF FenceRow
  <2>2. fence' \in FenceRow /\ receipt' \in [Request -> FenceRow]
    BY <1>1, <1>2, <2>1 DEF RecordPreEffectRefusal, TypeOK
  <2> QED BY <1>2, <2>2 DEF RecordPreEffectRefusal, TypeOK, provider, work
<1>3. CASE RecordDispatch
  <2>1. fence' \in FenceRow /\ receipt' \in [Request -> FenceRow]
    BY <1>1, <1>3, WriteType DEF RecordDispatch, TypeOK
  <2> QED BY <1>3, <2>1 DEF RecordDispatch, TypeOK, provider, work
<1>4. CASE \E p \in Process : ConfirmStartup(p)
  BY <1>1, <1>4, WriteType DEF ConfirmStartup, TypeOK, provider, work
<1> QED BY <1>2, <1>3, <1>4

LEMMA CallType ==
    ASSUME TypeOK,
           \/ UpdateEnv \/ TriggerDeployment \/ Answered \/ OutcomeUnknown
           \/ \E p \in Process : Crash(p)
           \/ \E c \in Call : Land(c) \/ Drop(c)
           \/ \E r \in Request : Startup(r)
    PROVE  TypeOK'
<1> USE CallerFacts DEF provider, fences, work
<1>1. CASE UpdateEnv \/ TriggerDeployment
  BY <1>1 DEF UpdateEnv, TriggerDeployment, SendCall, TypeOK, Caller
<1>2. CASE Answered \/ OutcomeUnknown
  BY <1>2 DEF Answered, OutcomeUnknown, TypeOK, Caller
<1>3. CASE \E p \in Process : Crash(p)
  BY <1>3 DEF Crash, TypeOK
<1>4. CASE \E c \in Call : Land(c) \/ Drop(c)
  BY <1>4 DEF Land, Drop, TypeOK, Call, Process
<1>5. CASE \E r \in Request : Startup(r)
  BY <1>5 DEF Startup, TypeOK
<1> QED BY <1>1, <1>2, <1>3, <1>4, <1>5

LEMMA TakeType ==
    ASSUME TypeOK, NEW p \in Process, NEW o \in Op,
           row[o].attempt < MaxAttempt, Take(p, o)
    PROVE  TypeOK'
<1> DEFINE n == row[o].attempt + 1
           r == [row[o] EXCEPT !.state = "running", !.attempt = n, !.lease = "live"]
           e == [op |-> o, attempt |-> n, by |-> p, begun |-> FALSE]
<1>1. n \in 1..MaxAttempt /\ n \in 0..MaxAttempt /\ row[o] \in WorkRow
  BY WorkFacts
<1>2. r \in WorkRow /\ e \in Executor
  <2> HIDE DEF n
  <2> QED BY <1>1 DEF WorkRow, Executor
<1>3. row' = [row EXCEPT ![o] = r] /\ exec' = exec \cup {e}
  BY DEF Take
<1> HIDE DEF n, r, e
<1>4. row' \in [Op -> WorkRow] /\ exec' \subseteq Executor
  BY <1>2, <1>3 DEF TypeOK
<1> QED BY <1>4 DEF Take, TypeOK, fences, provider

LEMMA BeginType ==
    ASSUME TypeOK, NEW e \in exec, BeginEffect(e)
    PROVE  TypeOK'
<1> DEFINE mark == KindOf[e.op] = "dispatch"
           r == [row[e.op] EXCEPT !.marker = mark]
           b == [e EXCEPT !.begun = TRUE]
<1>1. mark \in BOOLEAN /\ e.op \in Op /\ row[e.op] \in WorkRow
  BY WorkFacts, ExecutorFacts
<1>2. row' = [row EXCEPT ![e.op] = r] /\ exec' = (exec \ {e}) \cup {b}
  BY Zenon DEF BeginEffect
<1>3. r \in WorkRow
  <2> HIDE DEF mark
  <2> QED BY <1>1 DEF WorkRow
<1>4. b \in Executor
  BY ExecutorFacts DEF Executor
<1> HIDE DEF r, b
<1> QED BY <1>1, <1>2, <1>3, <1>4 DEF BeginEffect, TypeOK, fences, provider

LEMMA ExecutorType ==
    ASSUME TypeOK, NEW e \in exec,
           \/ FinishDispatch(e) \/ CompleteReservation(e) \/ GiveUp(e)
           \/ RecordExecutorExit(e)
    PROVE  TypeOK'
<1> DEFINE o == e.op
<1>1. o \in Op /\ row[o] \in WorkRow /\ e.attempt \in 0..MaxAttempt
  BY WorkFacts, ExecutorFacts, DrainAssumption
<1>2. /\ [row[o] EXCEPT !.exit = e.attempt] \in WorkRow
      /\ \A state \in {"none", "completed", "reconcile_required"} :
            [row[o] EXCEPT !.state = state, !.lease = "past"] \in WorkRow
  BY <1>1 DEF WorkRow
<1>3. CASE FinishDispatch(e)
  <2>1. CASE UNCHANGED row
    BY <1>3, <2>1 DEF FinishDispatch, TypeOK, fences, provider
  <2>2. CASE \E state \in {"completed", "reconcile_required"} :
               row' = [row EXCEPT ![o].state = state, ![o].lease = "past"]
    <3>1. PICK state \in {"completed", "reconcile_required"} :
               row' = [row EXCEPT ![o].state = state, ![o].lease = "past"]
      BY <2>2
    <3> DEFINE r == [row[o] EXCEPT !.state = state, !.lease = "past"]
    <3>2. r \in WorkRow /\ row' = [row EXCEPT ![o] = r]
      BY <1>2, <3>1, Zenon
    <3> HIDE DEF r
    <3>3. row' \in [Op -> WorkRow]
      BY <3>2 DEF TypeOK
    <3> QED BY <1>3, <3>2 DEF FinishDispatch, TypeOK, fences, provider
  <2> QED BY <1>3, <2>1, <2>2 DEF FinishDispatch
<1>4. CASE CompleteReservation(e)
  <2>1. row' \in [Op -> WorkRow]
    BY <1>2, <1>4 DEF CompleteReservation, TypeOK
  <2> QED BY <1>4, <2>1 DEF CompleteReservation, TypeOK, fences, provider
<1>5. CASE RecordExecutorExit(e)
  <2>1. row' \in [Op -> WorkRow]
    BY <1>2, <1>5 DEF RecordExecutorExit, TypeOK
  <2> QED BY <1>5, <2>1 DEF RecordExecutorExit, TypeOK, fences, provider
<1>6. CASE GiveUp(e)
  <2>1. row' \in [Op -> WorkRow]
    BY <1>2, <1>6 DEF GiveUp, TypeOK
  <2> QED BY <1>6, <2>1 DEF GiveUp, TypeOK, fences, provider
<1> QED BY <1>3, <1>4, <1>5, <1>6

LEMMA RowType ==
    ASSUME TypeOK, NEW o \in Op,
           MarkReconcileRequired(o) \/ Adopt(o) \/ LeaseExpires(o)
    PROVE  TypeOK'
<1>1. /\ [row[o] EXCEPT !.state = "reconcile_required"] \in WorkRow
      /\ [row[o] EXCEPT !.state = "completed", !.lease = "past"] \in WorkRow
      /\ [row[o] EXCEPT !.lease = "past"] \in WorkRow
  BY WorkFacts DEF WorkRow
<1>2. row' \in [Op -> WorkRow]
  BY <1>1 DEF MarkReconcileRequired, Adopt, LeaseExpires, TypeOK
<1> QED BY <1>2 DEF MarkReconcileRequired, Adopt, LeaseExpires, TypeOK, fences, provider

(* Every step keeps the types.                                             *)
LEMMA NextType ==
    ASSUME TypeOK, [Next]_vars
    PROVE  TypeOK'
<1>1. CASE \E p \in Process, r \in Request :
             DrainTimesOut(p, r) \/ Drain(p, r) \/ OwnDispatch(p, r)
  BY <1>1, PrepareType
<1>2. CASE \/ RecordPreEffectRefusal \/ RecordDispatch
           \/ \E p \in Process : ConfirmStartup(p)
  BY <1>2, RecordType
<1>3. CASE \/ UpdateEnv \/ TriggerDeployment \/ Answered \/ OutcomeUnknown
           \/ \E p \in Process : Crash(p)
           \/ \E c \in Call : Land(c) \/ Drop(c)
           \/ \E r \in Request : Startup(r)
  BY <1>3, CallType
<1>4. CASE \E p \in Process, o \in Op : Admit(p, o) \/ ClaimMarked(p, o)
  BY <1>4, TakeType DEF Admit, ClaimMarked, Startable
<1>5. CASE \E e \in exec : BeginEffect(e)
  BY <1>5, BeginType
<1>6. CASE \E e \in exec :
             \/ FinishDispatch(e) \/ CompleteReservation(e) \/ GiveUp(e)
             \/ RecordExecutorExit(e)
  BY <1>6, ExecutorType
<1>7. CASE \E o \in Op : MarkReconcileRequired(o) \/ Adopt(o) \/ LeaseExpires(o)
  BY <1>7, RowType
<1>8. CASE Tick
  <2>1. now' \in 0..MaxNow
    BY <1>8, FenceFacts, DrainAssumption DEF Tick
  <2> QED BY <1>8, <2>1 DEF Tick, TypeOK, fences, provider, work
<1>9. CASE UNCHANGED vars
  BY <1>9 DEF vars, TypeOK, fences, provider, work
<1> QED BY <1>1, <1>2, <1>3, <1>4, <1>5, <1>6, <1>7, <1>8, <1>9 DEF Next

(* Type invariant of every behaviour.                                      *)
THEOREM TypesHold == Spec => []TypeOK
<1>1. Init => TypeOK
  BY DrainAssumption
     DEF Init, TypeOK, FenceRow, NoFence, WorkRow, NoWork, Caller, NoCaller, Process
<1>2. TypeOK /\ [Next]_vars => TypeOK'
  BY NextType
<1> QED BY <1>1, <1>2, PTL DEF Spec

-----------------------------------------------------------------------------
(* Fences and receipts.                                                    *)

(* A fence that is not empty is the receipt of a polled request.           *)
LEMMA CurrentFence ==
    ASSUME TypeOK, ReceiptsAgree
    PROVE  /\ fence.state # "none" => fence.req \in Request
           /\ fence.req \in Request => /\ fence = receipt[fence.req]
                                       /\ Polled(fence.req)
                                       /\ receipt[fence.req] # NoFence
           /\ fence.req \notin Request => fence.req = NoRequest
BY FenceFacts, DrainAssumption DEF ReceiptsAgree, NoFence, Process, FenceRow, Polled

LEMMA PolledReceipt ==
    ASSUME TypeOK, ReceiptsAgree, NEW r \in Request, Polled(r)
    PROVE  /\ receipt[r] # NoFence /\ receipt[r].req = r /\ receipt[r].prev # r
           /\ receipt[r].prev \in Request => Polled(receipt[r].prev)
           /\ \A q \in Request : Polled(q) /\ MarkerOf[q] = MarkerOf[r] => q = r
           /\ SupersedesOf[r] # NoMarker =>
                /\ receipt[r].prev \in Request
                /\ MarkerOf[receipt[r].prev] = SupersedesOf[r]
<1>1. receipt[r] # NoFence
  BY DEF Polled, NoFence
<1> QED BY <1>1 DEF ReceiptsAgree

(* Writing a fence with its receipt keeps them in agreement.               *)
LEMMA WriteAgrees ==
    ASSUME TypeOK, ReceiptsAgree, NEW r \in Request, NEW f \in FenceRow, Write(f),
           f.req = r, f.state # "none", f.prev # r,
           f.prev \in Request => Polled(f.prev),
           \A q \in Request \ {r} : Polled(q) => MarkerOf[q] # MarkerOf[r],
           SupersedesOf[r] # NoMarker =>
               f.prev \in Request /\ MarkerOf[f.prev] = SupersedesOf[r]
    PROVE  ReceiptsAgree'
<1>1. fence' = f /\ receipt' = [receipt EXCEPT ![r] = f]
  BY DEF Write
<1>2. /\ receipt'[r] = f /\ f # NoFence
      /\ \A q \in Request \ {r} : receipt'[q] = receipt[q]
  BY <1>1 DEF TypeOK, NoFence
<1>3. /\ receipt'[r].state # "none"
      /\ \A q \in Request : Polled(q) => receipt'[q].state # "none"
  BY <1>2 DEF Polled
<1>4. ASSUME NEW q \in Request, receipt'[q] # NoFence
      PROVE  /\ receipt'[q].req = q /\ receipt'[q].state # "none"
             /\ receipt'[q].prev \in Request \ {q} => receipt'[receipt'[q].prev].state # "none"
             /\ receipt'[q].prev # q
             /\ \A x \in Request \ {q} :
                  receipt'[x].state # "none" => MarkerOf[x] # MarkerOf[q]
             /\ SupersedesOf[q] # NoMarker =>
                  /\ receipt'[q].prev \in Request
                  /\ MarkerOf[receipt'[q].prev] = SupersedesOf[q]
  <2>1. CASE q = r
    <3>1. receipt'[q].prev \in Request \ {q}
           => receipt'[receipt'[q].prev].state # "none"
      BY <1>2, <1>3, <2>1
    <3>2. \A x \in Request \ {q} :
             receipt'[x].state # "none" => MarkerOf[x] # MarkerOf[q]
      BY <1>2, <2>1 DEF Polled
    <3> QED BY <1>2, <1>3, <2>1, <3>1, <3>2
  <2>2. CASE q # r
    <3>1. receipt[q] # NoFence /\ receipt'[q] = receipt[q] /\ Polled(q)
      BY <1>2, <1>4, <2>2 DEF ReceiptsAgree
    <3>2. receipt'[q].prev \in Request \ {q}
           => receipt'[receipt'[q].prev].state # "none"
      BY <1>3, <3>1 DEF ReceiptsAgree
    <3>3. \A x \in Request \ {q} :
             receipt'[x].state # "none" => MarkerOf[x] # MarkerOf[q]
      <4> TAKE x \in Request \ {q}
      <4>1. CASE x = r
        BY <2>2, <3>1, <4>1
      <4>2. CASE x # r
        BY <1>2, <3>1, <4>2 DEF ReceiptsAgree, Polled
      <4> QED BY <4>1, <4>2
    <3> QED BY <1>3, <3>1, <3>2, <3>3 DEF ReceiptsAgree
  <2> QED BY <2>1, <2>2
<1>5. fence' = NoFence \/ (fence'.req \in Request /\ fence' = receipt'[fence'.req])
  BY <1>1, <1>2
<1> QED BY <1>4, <1>5, Zenon DEF ReceiptsAgree, Polled

(* The request that prepare finds in doubt is the one its fence follows.   *)
LEMMA PreparedFollows ==
    ASSUME TypeOK, ReceiptsAgree, DoubtIsRepaired,
           NEW p \in Process, NEW r \in Request, MayPrepare(p, r),
           NEW state, NEW expires,
           NEW x \in Request, receipt[x].state \in InDoubt
    PROVE  /\ x # r
           /\ fence.req = x \/ (receipt[r].prev = x /\ SupersedesOf[r] = MarkerOf[x])
              => /\ SupersedesOf[r] = MarkerOf[x]
                 /\ FenceOf(r, state, expires).prev = x
                 /\ Polled(r) => receipt[r].prev = x
<1>1. x # r /\ Polled(x) /\ MarkerOf[x] # NoMarker
  BY DrainAssumption DEF MayPrepare, InDoubt, Polled, Process
<1>2. CASE fence.req = x
  <2>1. fence.state \in InDoubt
    BY <1>2, CurrentFence
  <2>2. SupersedesOf[r] = MarkerOf[x]
    BY <1>2, <2>1 DEF MayPrepare, InDoubt, RepairMatches
  <2>3. Polled(r) => receipt[r].prev = x
    BY <1>1, <2>2, PolledReceipt
  <2> QED BY <1>1, <1>2, <2>2, <2>3 DEF FenceOf
<1>3. CASE receipt[r].prev = x /\ SupersedesOf[r] = MarkerOf[x]
  <2>1. RepairMatches(r) \/ ContinuingDrain(r)
    BY <1>1, <1>3 DEF MayPrepare
  <2>2. CASE fence.req = r
    BY <1>1, <1>3, <2>2, CurrentFence DEF FenceOf
  <2>3. CASE fence.req # r
    <3>1. fence.state # "none" /\ MarkerOf[fence.req] = MarkerOf[x]
      BY <1>3, <2>1, <2>3 DEF RepairMatches, ContinuingDrain
    <3>2. fence.req = x
      BY <1>1, <3>1, CurrentFence, PolledReceipt
    <3> QED BY <1>1, <1>3, <2>3, <3>2 DEF FenceOf
  <2> QED BY <2>2, <2>3
<1> QED BY <1>1, <1>2, <1>3

(* What a drain or a dispatch writes agrees with the receipts.             *)
LEMMA PreparedAgrees ==
    ASSUME TypeOK, ReceiptsAgree,
           NEW p \in Process, NEW r \in Request, MayPrepare(p, r),
           NEW state \in {"draining", "dispatching"},
           NEW expires \in 0..(MaxNow + Pause),
           Write(FenceOf(r, state, expires))
    PROVE  ReceiptsAgree'
<1> DEFINE f == FenceOf(r, state, expires)
<1>1. /\ Write(f) /\ f \in FenceRow /\ f.req = r /\ f.state # "none"
      /\ f.prev = IF fence.req = r THEN fence.prev ELSE fence.req
  BY FenceOfType DEF FenceOf
<1>2. \A q \in Request \ {r} : Polled(q) => MarkerOf[q] # MarkerOf[r]
  BY DEF MayPrepare, MarkerUsed, Polled
<1>3. CASE fence.req = r
  <2>1. fence = receipt[r] /\ Polled(r) /\ f.prev = receipt[r].prev
    BY <1>1, <1>3, CurrentFence
  <2>2. /\ f.prev # r
        /\ f.prev \in Request => Polled(f.prev)
        /\ SupersedesOf[r] # NoMarker =>
               f.prev \in Request /\ MarkerOf[f.prev] = SupersedesOf[r]
    BY <2>1, PolledReceipt
  <2> HIDE DEF f
  <2> QED BY <1>1, <1>2, <2>2, WriteAgrees
<1>4. CASE fence.req # r
  <2>1. /\ f.prev # r /\ f.prev = fence.req
        /\ f.prev \in Request => Polled(f.prev)
    BY <1>1, <1>4, CurrentFence
  <2>2. SupersedesOf[r] # NoMarker =>
            f.prev \in Request /\ MarkerOf[f.prev] = SupersedesOf[r]
    BY <1>4, <2>1, CurrentFence DEF MayPrepare, RepairMatches, ContinuingDrain
  <2> HIDE DEF f
  <2> QED BY <1>1, <1>2, <2>1, <2>2, WriteAgrees
<1> QED BY <1>3, <1>4

(* A request that is prepared leaves no dispatch in doubt behind.          *)
LEMMA PrepareRepairs ==
    ASSUME TypeOK, ReceiptsAgree, DoubtIsRepaired,
           NEW p \in Process, NEW r \in Request, MayPrepare(p, r),
           NEW f \in FenceRow, Write(f), f.req = r,
           f.state \in {"draining", "dispatching"},
           NEW state, NEW expires,
           \/ f.prev = FenceOf(r, state, expires).prev
           \/ Polled(r) /\ f.prev = receipt[r].prev
    PROVE  DoubtIsRepaired'
<1>1. fence' = f /\ receipt'[r] = f /\ \A q \in Request \ {r} : receipt'[q] = receipt[q]
  BY DEF Write, TypeOK
<1> SUFFICES ASSUME NEW x \in Request, receipt'[x].state \in InDoubt, fence'.req # x
             PROVE  \E q \in Request : /\ SupersedesOf[q] = MarkerOf[x]
                                       /\ receipt'[q].prev = x
                                       /\ receipt'[q].state # "refused"
  BY DEF DoubtIsRepaired, InDoubt
<1>2. x # r /\ receipt[x].state \in InDoubt
  BY <1>1
<1>3. CASE fence.req = x
  BY <1>1, <1>2, <1>3, PreparedFollows
<1>4. CASE fence.req # x
  <2>1. PICK q \in Request : /\ SupersedesOf[q] = MarkerOf[x]
                             /\ receipt[q].prev = x /\ receipt[q].state # "refused"
    BY <1>2, <1>4 DEF DoubtIsRepaired
  <2>2. CASE q = r
    BY <1>1, <1>2, <2>1, <2>2, PreparedFollows
  <2>3. CASE q # r
    BY <1>1, <2>1, <2>3
  <2> QED BY <2>2, <2>3
<1> QED BY <1>3, <1>4

LEMMA PrepareKeepsFences ==
    ASSUME TypeOK, FenceInv, NEW p \in Process, NEW r \in Request,
           DrainTimesOut(p, r) \/ Drain(p, r) \/ OwnDispatch(p, r)
    PROVE  FenceInv'
<1> USE DEF FenceInv
<1>1. CASE DrainTimesOut(p, r)
  <2> DEFINE f == [receipt[r] EXCEPT !.expires = now]
  <2>1. MayPrepare(p, r) /\ Polled(r) /\ Write(f) /\ UNCHANGED <<deadline, now>>
    BY <1>1 DEF DrainTimesOut, OutOfTime
  <2>2. /\ f \in FenceRow /\ f.req = r /\ f.state = "draining"
        /\ f.prev = receipt[r].prev /\ f.expires = now
    <3>1. receipt[r].req = r /\ receipt[r].state = "draining"
      BY <2>1, PolledReceipt DEF MayPrepare, Polled
    <3> QED BY <3>1, FenceFacts, DrainAssumption DEF FenceRow
  <2> HIDE DEF f
  <2>3. ReceiptsAgree'
    <3>1. /\ f.prev # r /\ f.state # "none"
          /\ f.prev \in Request => Polled(f.prev)
          /\ SupersedesOf[r] # NoMarker =>
                f.prev \in Request /\ MarkerOf[f.prev] = SupersedesOf[r]
      BY <2>1, <2>2, PolledReceipt
    <3>2. \A q \in Request \ {r} : Polled(q) => MarkerOf[q] # MarkerOf[r]
      BY <2>1 DEF MayPrepare, MarkerUsed, Polled
    <3> QED BY <2>1, <2>2, <3>1, <3>2, WriteAgrees
  <2>4. DoubtIsRepaired'
    BY <2>1, <2>2, PrepareRepairs
  <2>5. DrainsAreBounded'
    BY <2>1, <2>2, FenceFacts DEF DrainsAreBounded, Write, TypeOK
  <2> QED BY <2>3, <2>4, <2>5
<1>2. CASE Drain(p, r)
  <2> DEFINE f == FenceOf(r, "draining", now + Pause)
  <2>1. /\ MayPrepare(p, r) /\ Write(f) /\ StartBudget(r) /\ UNCHANGED now
        /\ ~ OutOfTime(r)
    BY <1>2 DEF Drain
  <2>2. /\ f \in FenceRow /\ f.req = r /\ f.state = "draining" /\ f.expires = now + Pause
        /\ now + Pause \in 0..(MaxNow + Pause)
    <3>1. now + Pause \in 0..(MaxNow + Pause)
      BY FenceFacts, DrainAssumption
    <3> QED BY <3>1, FenceOfType DEF FenceOf
  <2>3. ReceiptsAgree'
    BY <2>1, <2>2, PreparedAgrees
  <2>4. DoubtIsRepaired'
    BY <2>1, <2>2, PrepareRepairs
  <2>5. DrainsAreBounded'
    <3> HIDE DEF f
    <3>1. deadline'[r] + Pause > now + Pause
      BY <2>1, FenceFacts, DrainAssumption DEF OutOfTime, StartBudget, TypeOK
    <3>2. /\ receipt'[r] = f
          /\ \A q \in Request \ {r} : receipt'[q] = receipt[q] /\ deadline'[q] = deadline[q]
      BY <2>1, <2>2 DEF Write, StartBudget, TypeOK
    <3> QED BY <2>1, <2>2, <3>1, <3>2, FenceFacts, DrainAssumption DEF DrainsAreBounded
  <2> QED BY <2>3, <2>4, <2>5
<1>3. CASE OwnDispatch(p, r)
  <2> DEFINE f == FenceOf(r, "dispatching", 0)
  <2>1. MayPrepare(p, r) /\ Write(f) /\ StartBudget(r) /\ UNCHANGED now
    BY <1>3 DEF OwnDispatch
  <2>2. /\ f \in FenceRow /\ f.req = r /\ f.state = "dispatching"
        /\ 0 \in 0..(MaxNow + Pause)
    <3>1. 0 \in 0..(MaxNow + Pause)
      BY FenceFacts, DrainAssumption
    <3> QED BY <3>1, FenceOfType DEF FenceOf
  <2>3. ReceiptsAgree'
    BY <2>1, <2>2, PreparedAgrees
  <2>4. DoubtIsRepaired'
    BY <2>1, <2>2, PrepareRepairs
  <2>5. DrainsAreBounded'
    <3> HIDE DEF f
    <3>1. /\ receipt'[r] = f
          /\ \A q \in Request \ {r} : receipt'[q] = receipt[q] /\ deadline'[q] = deadline[q]
      BY <2>1, <2>2 DEF Write, StartBudget, TypeOK
    <3> QED BY <2>1, <2>2, <3>1 DEF DrainsAreBounded
  <2> QED BY <2>3, <2>4, <2>5
<1> QED BY <1>1, <1>2, <1>3

(* Recording a dispatch or a startup changes the state of the fence.       *)
LEMMA RestateKeepsFences ==
    ASSUME TypeOK, FenceInv, NEW state \in {"requested", "confirmed"},
           fence.state \in InDoubt, Write([fence EXCEPT !.state = state]),
           UNCHANGED <<deadline, now>>
    PROVE  FenceInv'
<1> USE DEF FenceInv
<1> DEFINE r == fence.req
           f == [fence EXCEPT !.state = state]
<1>1. r \in Request /\ fence = receipt[r] /\ Polled(r)
  BY CurrentFence DEF InDoubt
<1>2. /\ f \in FenceRow /\ f.req = r /\ f.state = state
      /\ f.prev = receipt[r].prev /\ f.expires = fence.expires
  BY <1>1, FenceFacts DEF FenceRow
<1>3. Write(f)
  OBVIOUS
<1> HIDE DEF f
<1>4. /\ fence' = f /\ receipt'[r] = f
      /\ \A q \in Request \ {r} : receipt'[q] = receipt[q]
  BY <1>1, <1>2, <1>3 DEF Write, TypeOK
<1>5. ReceiptsAgree'
  <2>1. /\ f.prev # r /\ f.state # "none"
        /\ f.prev \in Request => Polled(f.prev)
        /\ SupersedesOf[r] # NoMarker =>
              f.prev \in Request /\ MarkerOf[f.prev] = SupersedesOf[r]
        /\ \A q \in Request \ {r} : Polled(q) => MarkerOf[q] # MarkerOf[r]
    BY <1>1, <1>2, PolledReceipt
  <2> HIDE DEF r
  <2> QED BY <1>1, <1>2, <1>3, <2>1, WriteAgrees
<1>6. DoubtIsRepaired'
  <2> SUFFICES ASSUME NEW x \in Request, receipt'[x].state \in InDoubt, x # r
               PROVE  \E q \in Request : /\ SupersedesOf[q] = MarkerOf[x]
                                         /\ receipt'[q].prev = x
                                         /\ receipt'[q].state # "refused"
    BY <1>2, <1>4 DEF DoubtIsRepaired, InDoubt
  <2>1. PICK q \in Request : /\ SupersedesOf[q] = MarkerOf[x]
                             /\ receipt[q].prev = x /\ receipt[q].state # "refused"
    BY <1>4 DEF DoubtIsRepaired
  <2> QED BY <1>2, <1>4, <2>1
<1>7. DrainsAreBounded'
  BY <1>2, <1>4 DEF DrainsAreBounded
<1> QED BY <1>5, <1>6, <1>7

LEMMA RefusalKeepsFences ==
    ASSUME TypeOK, FenceInv, RecordPreEffectRefusal
    PROVE  FenceInv'
<1> USE DEF FenceInv
<1> DEFINE r == fence.req
           f == [fence EXCEPT !.state = "refused"]
<1>1. r \in Request /\ fence = receipt[r] /\ Polled(r)
  BY CurrentFence DEF RecordPreEffectRefusal
<1>2. /\ f \in FenceRow /\ f.req = r /\ f.state = "refused" /\ f # NoFence
      /\ f.prev = receipt[r].prev /\ f.prev = fence.prev
  BY <1>1, FenceFacts DEF FenceRow, NoFence
<1>3. receipt' = [receipt EXCEPT ![r] = f] /\ UNCHANGED <<deadline, now>>
  BY DEF RecordPreEffectRefusal
<1> HIDE DEF f
<1>4. receipt'[r] = f /\ \A q \in Request \ {r} : receipt'[q] = receipt[q]
  BY <1>1, <1>3 DEF TypeOK
<1>5. fence.prev = NoRequest \/ fence.prev \in Request \ {r}
  BY <1>1, FenceFacts, PolledReceipt DEF FenceRow
<1>6. fence.prev \in Request =>
         /\ fence' = receipt[fence.prev] /\ fence' = receipt'[fence.prev]
         /\ fence'.req = fence.prev
  BY <1>1, <1>4, <1>5, CallerFacts, PolledReceipt DEF RecordPreEffectRefusal
<1>7. ReceiptsAgree'
  <2>1. fence' = NoFence \/ (fence'.req \in Request /\ fence' = receipt'[fence'.req])
    BY <1>5, <1>6 DEF RecordPreEffectRefusal
  <2>2. \A q \in Request : Polled(q) <=> receipt'[q].state # "none"
    BY <1>1, <1>2, <1>4 DEF Polled
  <2>3. \A q \in Request : /\ receipt'[q].req = receipt[q].req
                           /\ receipt'[q].prev = receipt[q].prev
                           /\ receipt'[q] # NoFence => receipt[q] # NoFence
    BY <1>1, <1>2, <1>4, PolledReceipt
  <2>4. ASSUME NEW q \in Request, receipt'[q] # NoFence
        PROVE  /\ receipt'[q].req = q /\ receipt'[q].state # "none"
               /\ receipt'[q].prev \in Request \ {q}
                    => receipt'[receipt'[q].prev].state # "none"
               /\ receipt'[q].prev # q
               /\ \A x \in Request \ {q} :
                    receipt'[x].state # "none" => MarkerOf[x] # MarkerOf[q]
               /\ SupersedesOf[q] # NoMarker =>
                    /\ receipt'[q].prev \in Request
                    /\ MarkerOf[receipt'[q].prev] = SupersedesOf[q]
    BY <2>2, <2>3, <2>4 DEF ReceiptsAgree
  <2> QED BY <2>1, <2>4, Zenon DEF ReceiptsAgree, Polled
<1>8. DoubtIsRepaired'
  <2> SUFFICES ASSUME NEW x \in Request, receipt'[x].state \in InDoubt, fence'.req # x
               PROVE  \E q \in Request : /\ SupersedesOf[q] = MarkerOf[x]
                                         /\ receipt'[q].prev = x
                                         /\ receipt'[q].state # "refused"
    BY DEF DoubtIsRepaired, InDoubt
  <2>1. x # r /\ receipt[x].state \in InDoubt
    BY <1>2, <1>4 DEF InDoubt
  <2>2. PICK q \in Request : /\ SupersedesOf[q] = MarkerOf[x]
                             /\ receipt[q].prev = x /\ receipt[q].state # "refused"
    BY <2>1 DEF DoubtIsRepaired
  <2>3. q # r
    BY <1>1, <1>6, <2>2
  <2> QED BY <1>4, <2>2, <2>3
<1>9. DrainsAreBounded'
  BY <1>2, <1>3, <1>4 DEF DrainsAreBounded
<1> QED BY <1>7, <1>8, <1>9

LEMMA RecordKeepsFences ==
    ASSUME TypeOK, FenceInv,
           \/ RecordPreEffectRefusal \/ RecordDispatch
           \/ \E p \in Process : ConfirmStartup(p)
    PROVE  FenceInv'
<1>1. CASE RecordPreEffectRefusal
  BY <1>1, RefusalKeepsFences
<1>2. CASE RecordDispatch
  <2>1. CASE fence.req = caller.req /\ fence.state = "dispatching"
    BY <1>2, <2>1, RestateKeepsFences DEF RecordDispatch, InDoubt
  <2>2. CASE UNCHANGED <<fence, receipt>>
    BY <1>2, <2>2 DEF RecordDispatch, FenceInv, ReceiptsAgree, DoubtIsRepaired,
                      DrainsAreBounded, Polled, InDoubt
  <2> QED BY <1>2, <2>1, <2>2 DEF RecordDispatch
<1>3. CASE \E p \in Process : ConfirmStartup(p)
  BY <1>3, RestateKeepsFences DEF ConfirmStartup, InDoubt
<1> QED BY <1>1, <1>2, <1>3

(* Everything else leaves the fences alone; at most time passes.           *)
LEMMA FencesStay ==
    ASSUME TypeOK, TypeOK', FenceInv, UNCHANGED <<fence, receipt, deadline>>, now' >= now
    PROVE  FenceInv'
<1>1. ReceiptsAgree' /\ DoubtIsRepaired'
  BY DEF FenceInv, ReceiptsAgree, DoubtIsRepaired, Polled, InDoubt
<1>2. DrainsAreBounded'
  BY FenceFacts DEF FenceInv, DrainsAreBounded, TypeOK
<1> QED BY <1>1, <1>2 DEF FenceInv

-----------------------------------------------------------------------------
(* Calls to Dokploy and what runs.                                         *)

(* The two calls of a request.                                             *)
LEMMA CallsOf ==
    ASSUME NEW r \in Request
    PROVE  /\ <<"env", r>> \in Call /\ <<"deploy", r>> \in Call
           /\ \A c \in Call : c[2] = r => c = <<"env", r>> \/ c = <<"deploy", r>>
BY DEF Call

LEMMA PrepareKeepsCalls ==
    ASSUME TypeOK, CallInv, NEW p \in Process, NEW r \in Request,
           DrainTimesOut(p, r) \/ Drain(p, r) \/ OwnDispatch(p, r),
           receipt[r] # NoFence => receipt[r].req = r
    PROVE  CallInv'
<1> USE DEF CallInv
<1>1. /\ UNCHANGED <<calls, env, procs, started>>
      /\ receipt[r].state \in {"none", "draining"} /\ ~ timedOut[r]
  BY DEF DrainTimesOut, Drain, OwnDispatch, MayPrepare, provider
<1>2. \A q \in Request \ {r} : receipt'[q] = receipt[q] /\ timedOut'[q] = timedOut[q]
  <2>1. \E f \in FenceRow : f.req = r /\ receipt' = [receipt EXCEPT ![f.req] = f]
    <3>1. CASE DrainTimesOut(p, r)
      <4>1. receipt[r] # NoFence
        BY <3>1 DEF DrainTimesOut, OutOfTime, Polled, NoFence
      <4>2. [receipt[r] EXCEPT !.expires = now] \in FenceRow
        BY FenceFacts, DrainAssumption DEF FenceRow
      <4> QED BY <3>1, <4>1, <4>2, FenceFacts DEF DrainTimesOut, Write, FenceRow
    <3>2. CASE Drain(p, r)
      <4>1. now + Pause \in 0..(MaxNow + Pause)
        BY FenceFacts, DrainAssumption
      <4>2. FenceOf(r, "draining", now + Pause) \in FenceRow
        BY <4>1, FenceOfType
      <4>3. FenceOf(r, "draining", now + Pause).req = r
        BY DEF FenceOf
      <4> QED BY <3>2, <4>2, <4>3 DEF Drain, Write
    <3>3. CASE OwnDispatch(p, r)
      <4>1. 0 \in 0..(MaxNow + Pause)
        BY DrainAssumption
      <4>2. FenceOf(r, "dispatching", 0) \in FenceRow
        BY <4>1, FenceOfType
      <4>3. FenceOf(r, "dispatching", 0).req = r
        BY DEF FenceOf
      <4> QED BY <3>3, <4>2, <4>3 DEF OwnDispatch, Write
    <3> QED BY <3>1, <3>2, <3>3
  <2>2. \A q \in Request \ {r} : receipt'[q] = receipt[q]
    BY <2>1 DEF TypeOK
  <2>3. \A q \in Request \ {r} : timedOut'[q] = timedOut[q]
    BY DEF DrainTimesOut, Drain, OwnDispatch, TypeOK
  <2> QED BY <2>2, <2>3
<1>3. \/ /\ receipt'[r].state = "draining" /\ UNCHANGED caller
      \/ /\ receipt'[r].state = "dispatching" /\ caller'.req = r /\ caller'.at = "env"
         /\ timedOut'[r] = FALSE
  <2>1. CASE DrainTimesOut(p, r)
    <3>1. receipt[r].state = "draining" /\ receipt[r] # NoFence
      BY <1>1, <2>1 DEF DrainTimesOut, OutOfTime, Polled, NoFence
    <3>2. receipt'[r] = [receipt[r] EXCEPT !.expires = now]
      BY <2>1, <3>1, FenceFacts DEF DrainTimesOut, Write, TypeOK, FenceRow
    <3>3. receipt'[r].state = "draining"
      BY <3>1, <3>2, FenceFacts DEF FenceRow
    <3> QED BY <2>1, <3>3 DEF DrainTimesOut
  <2>2. CASE Drain(p, r)
    BY <2>2 DEF Drain, Write, FenceOf, TypeOK
  <2>3. CASE OwnDispatch(p, r)
    BY <1>1, <2>3 DEF OwnDispatch, Write, FenceOf, TypeOK
  <2> QED BY <2>1, <2>2, <2>3
<1>4. CallsInTurn'
  BY <1>1, <1>2, <1>3 DEF CallsInTurn
<1>5. DispatchedOnce'
  BY <1>1 DEF DispatchedOnce
<1>6. ReceiptsAreTrue'
  <2> SUFFICES ASSUME NEW q \in Request
               PROVE  /\ timedOut'[q] \/ receipt'[q].state = "refused"
                         => /\ q \notin started' /\ env' # q
                            /\ \A c \in Call : c[2] = q => calls'[c] \in {"none", "dropped"}
                            /\ caller'.req # q
                      /\ receipt'[q].state = "confirmed" => q \in started'
    BY Zenon DEF ReceiptsAreTrue
  <2>1. CASE q = r
    <3>1. /\ calls[<<"env", r>>] = "none" /\ calls[<<"deploy", r>>] = "none"
          /\ caller.req # r /\ env # r /\ r \notin started
      BY <1>1 DEF CallsInTurn
    <3>2. \A c \in Call : c[2] = r => calls'[c] = "none"
      BY <1>1, <3>1, CallsOf
    <3> QED BY <1>1, <1>3, <2>1, <3>1, <3>2
  <2>2. CASE q # r
    BY <1>1, <1>2, <1>3, <2>2 DEF ReceiptsAreTrue
  <2> QED BY <2>1, <2>2
<1> QED BY <1>4, <1>5, <1>6

(* The caller's steps, and those of Dokploy, the receipts as they are.     *)
LEMMA TurnKeepsTruth ==
    ASSUME CallsInTurn', ReceiptsAreTrue,
           UNCHANGED <<receipt, timedOut>>,
           started \subseteq started',
           \A r \in Request :
             receipt[r].state = "refused"
             /\ r \notin started /\ env # r /\ caller.req # r
             /\ (\A c \in Call : c[2] = r => calls[c] \in {"none", "dropped"})
             => /\ r \notin started' /\ env' # r /\ caller'.req # r
                /\ \A c \in Call : c[2] = r => calls'[c] \in {"none", "dropped"}
    PROVE  ReceiptsAreTrue'
<1> SUFFICES ASSUME NEW q \in Request
             PROVE  /\ timedOut'[q] \/ receipt'[q].state = "refused"
                       => /\ q \notin started' /\ env' # q
                          /\ \A c \in Call : c[2] = q => calls'[c] \in {"none", "dropped"}
                          /\ caller'.req # q
                    /\ receipt'[q].state = "confirmed" => q \in started'
  BY Zenon DEF ReceiptsAreTrue
<1>1. receipt'[q].state = "confirmed" => q \in started'
  BY DEF ReceiptsAreTrue
<1>2. CASE timedOut'[q]
  <2>1. /\ q \notin started' /\ env' # q /\ caller'.req # q
        /\ calls'[<<"env", q>>] # "landed"
        /\ calls'[<<"env", q>>] = "none" /\ calls'[<<"deploy", q>>] = "none"
    BY <1>2 DEF CallsInTurn
  <2> QED BY <1>1, <2>1, CallsOf
<1>3. CASE receipt'[q].state = "refused"
  BY <1>1, <1>3 DEF ReceiptsAreTrue
<1>4. CASE ~ timedOut'[q] /\ receipt'[q].state # "refused"
  BY <1>1, <1>4
<1> QED BY <1>2, <1>3, <1>4

LEMMA SendKeepsCalls ==
    ASSUME TypeOK, CallInv, UpdateEnv \/ TriggerDeployment
    PROVE  CallInv'
<1> USE DEF CallInv
<1>1. PICK r \in Request, kind \in {"env", "deploy"} :
         /\ caller.req = r /\ caller'.req = r
         /\ \/ kind = "env" /\ caller.at = "env" /\ caller'.at = "env_sent"
            \/ kind = "deploy" /\ caller.at = "trigger" /\ caller'.at = "trigger_sent"
         /\ calls' = [calls EXCEPT ![<<kind, r>>] = IF @ = "none" THEN "sent" ELSE "again"]
         /\ UNCHANGED <<receipt, timedOut, env, procs, started>>
  BY CallerFacts DEF UpdateEnv, TriggerDeployment, SendCall, fences, Caller
<1>2. calls[<<kind, r>>] = "none"
  BY <1>1 DEF CallsInTurn
<1>3. /\ calls'[<<kind, r>>] = "sent"
      /\ \A c \in Call : c # <<kind, r>> => calls'[c] = calls[c]
  BY <1>1, <1>2, CallsOf DEF TypeOK
<1>4. CallsInTurn'
  <2> SUFFICES ASSUME NEW q \in Request
               PROVE  /\ receipt'[q].state \in {"none", "draining"}
                         => /\ caller'.req # q /\ calls'[<<"env", q>>] = "none"
                            /\ calls'[<<"deploy", q>>] = "none"
                      /\ caller'.req = q /\ caller'.at = "env" => calls'[<<"env", q>>] = "none"
                      /\ caller'.req = q /\ caller'.at \in {"env", "env_sent", "trigger"}
                         => calls'[<<"deploy", q>>] = "none"
                      /\ timedOut'[q] => receipt'[q].state = "draining"
                      /\ (env' = q \/ q \in started') => calls'[<<"env", q>>] = "landed"
    BY <1>1 DEF CallsInTurn
  <2>1. CASE q = r
    <3>1. <<"env", q>> # <<"deploy", q>>
      OBVIOUS
    <3> QED BY <1>1, <1>2, <1>3, <2>1, <3>1, CallsOf DEF CallsInTurn
  <2>2. CASE q # r
    <3>1. calls'[<<"env", q>>] = calls[<<"env", q>>] /\ calls'[<<"deploy", q>>] = calls[<<"deploy", q>>]
      BY <1>3, <2>2, CallsOf
    <3> QED BY <1>1, <2>2, <3>1 DEF CallsInTurn
  <2> QED BY <2>1, <2>2
<1>5. DispatchedOnce'
  BY <1>3 DEF DispatchedOnce
<1>6. ReceiptsAreTrue'
  <2>1. \A q \in Request : \A c \in Call : c[2] = q /\ q # r => calls'[c] = calls[c]
    BY <1>3
  <2> QED BY <1>1, <1>4, <2>1, TurnKeepsTruth
<1> QED BY <1>4, <1>5, <1>6

LEMMA CallerKeepsCalls ==
    ASSUME TypeOK, CallInv,
           Answered \/ OutcomeUnknown \/ \E p \in Process : Crash(p)
    PROVE  CallInv'
<1> USE DEF CallInv
<1>1. /\ UNCHANGED <<receipt, timedOut, calls, env, started>> /\ procs' \subseteq procs
      /\ \/ caller' = NoCaller
         \/ UNCHANGED caller
         \/ /\ caller'.req = caller.req
            /\ \/ caller.at = "env_sent" /\ caller'.at = "trigger"
               \/ caller'.at = "record"
  <2>1. CASE Answered
    BY <2>1, CallerFacts DEF Answered, fences, provider, Caller
  <2>2. CASE OutcomeUnknown
    BY <2>2 DEF OutcomeUnknown, fences, provider
  <2>3. CASE \E p \in Process : Crash(p)
    BY <2>3 DEF Crash, fences
  <2> QED BY <2>1, <2>2, <2>3
<1>2. CallsInTurn'
  BY <1>1, CallerFacts DEF CallsInTurn
<1>3. DispatchedOnce'
  BY <1>1 DEF DispatchedOnce
<1>4. ReceiptsAreTrue'
  <2>1. \A q \in Request : caller.req # q => caller'.req # q
    BY <1>1, CallerFacts
  <2> QED BY <1>1, <1>2, <2>1, TurnKeepsTruth
<1> QED BY <1>2, <1>3, <1>4

LEMMA DokployKeepsCalls ==
    ASSUME TypeOK, CallInv,
           \/ \E c \in Call : Land(c) \/ Drop(c)
           \/ \E r \in Request : Startup(r)
    PROVE  CallInv'
<1> USE DEF CallInv
<1>1. CASE \E c \in Call : Land(c) \/ Drop(c)
  <2> SUFFICES ASSUME NEW c \in Call, Land(c) \/ Drop(c)
               PROVE  CallInv'
    BY <1>1
  <2>1. PICK kind \in {"env", "deploy"}, r \in Request : c = <<kind, r>>
    BY DEF Call
  <2>2. /\ calls[c] = "sent" /\ calls'[c] \in {"landed", "dropped"}
        /\ \A x \in Call : x # c => calls'[x] = calls[x]
        /\ UNCHANGED <<receipt, timedOut, caller, procs, started>>
        /\ env' = env \/ (kind = "env" /\ env' = r /\ calls'[c] = "landed")
    BY <2>1 DEF Land, Drop, TypeOK, fences
  <2>3. receipt[r].state \notin {"none", "draining", "refused"}
    <3>1. receipt[r].state \notin {"none", "draining"}
      BY <2>1, <2>2 DEF CallsInTurn
    <3>2. receipt[r].state # "refused"
      BY <2>1, <2>2 DEF ReceiptsAreTrue
    <3> QED BY <3>1, <3>2
  <2>4. CallsInTurn'
    <3> SUFFICES ASSUME NEW q \in Request
                 PROVE  /\ receipt'[q].state \in {"none", "draining"}
                           => /\ caller'.req # q /\ calls'[<<"env", q>>] = "none"
                              /\ calls'[<<"deploy", q>>] = "none"
                        /\ caller'.req = q /\ caller'.at = "env" => calls'[<<"env", q>>] = "none"
                        /\ caller'.req = q /\ caller'.at \in {"env", "env_sent", "trigger"}
                           => calls'[<<"deploy", q>>] = "none"
                        /\ timedOut'[q] => receipt'[q].state = "draining"
                        /\ (env' = q \/ q \in started') => calls'[<<"env", q>>] = "landed"
      BY <2>2 DEF CallsInTurn
    <3>1. <<"env", q>> \in Call /\ <<"deploy", q>> \in Call
      BY CallsOf
    <3>2. \A x \in {<<"env", q>>, <<"deploy", q>>} :
             x = c \/ calls'[x] = calls[x]
      BY <2>2, <3>1
    <3> QED BY <2>1, <2>2, <2>3, <3>1, <3>2 DEF CallsInTurn
  <2>5. DispatchedOnce'
    BY <2>2 DEF DispatchedOnce
  <2>6. ReceiptsAreTrue'
    <3>1. \A q \in Request : \A x \in Call : x[2] = q /\ q # r => calls'[x] = calls[x]
      BY <2>1, <2>2
    <3> QED BY <2>2, <2>3, <2>4, <3>1, TurnKeepsTruth
  <2> QED BY <2>4, <2>5, <2>6
<1>2. CASE \E r \in Request : Startup(r)
  <2> SUFFICES ASSUME NEW r \in Request, Startup(r)
               PROVE  CallInv'
    BY <1>2
  <2>1. /\ calls[<<"deploy", r>>] = "landed" /\ calls'[<<"deploy", r>>] = "up"
        /\ \A x \in Call : x # <<"deploy", r>> => calls'[x] = calls[x]
        /\ UNCHANGED <<receipt, timedOut, caller, env>>
        /\ procs' = procs \cup {env} /\ started' = started \cup {env}
    <3>1. <<"deploy", r>> \in Call /\ DOMAIN calls = Call
      BY CallsOf DEF TypeOK
    <3> QED BY <3>1 DEF Startup, fences
  <2>2. receipt[r].state \notin {"none", "draining", "refused"}
    <3>1. receipt[r].state \notin {"none", "draining"}
      <4>1. receipt[r].state \in {"none", "draining"} => calls[<<"deploy", r>>] = "none"
        BY DEF CallsInTurn
      <4>2. calls[<<"deploy", r>>] # "none"
        BY <2>1
      <4> QED BY <4>1, <4>2
    <3>2. receipt[r].state # "refused"
      BY <2>1, CallsOf DEF ReceiptsAreTrue
    <3> QED BY <3>1, <3>2
  <2>3. CallsInTurn'
    <3> SUFFICES ASSUME NEW q \in Request
                 PROVE  /\ receipt'[q].state \in {"none", "draining"}
                           => /\ caller'.req # q /\ calls'[<<"env", q>>] = "none"
                              /\ calls'[<<"deploy", q>>] = "none"
                        /\ caller'.req = q /\ caller'.at = "env" => calls'[<<"env", q>>] = "none"
                        /\ caller'.req = q /\ caller'.at \in {"env", "env_sent", "trigger"}
                           => calls'[<<"deploy", q>>] = "none"
                        /\ timedOut'[q] => receipt'[q].state = "draining"
                        /\ (env' = q \/ q \in started') => calls'[<<"env", q>>] = "landed"
      <4>1. procs' \subseteq started'
        BY <2>1 DEF CallsInTurn
      <4> QED BY <2>1, <4>1, Zenon DEF CallsInTurn
    <3>1. /\ calls'[<<"env", q>>] = calls[<<"env", q>>]
          /\ q # r => calls'[<<"deploy", q>>] = calls[<<"deploy", q>>]
      BY <2>1, CallsOf
    <3> QED BY <2>1, <2>2, <3>1 DEF CallsInTurn
  <2>4. DispatchedOnce'
    BY <2>1 DEF DispatchedOnce
  <2>5. ReceiptsAreTrue'
    <3>1. \A q \in Request : \A x \in Call : x[2] = q /\ q # r => calls'[x] = calls[x]
      BY <2>1
    <3> QED BY <2>1, <2>2, <2>3, <3>1, TurnKeepsTruth
  <2> QED BY <2>3, <2>4, <2>5
<1> QED BY <1>1, <1>2

LEMMA RecordKeepsCalls ==
    ASSUME TypeOK, FenceInv, CallInv,
           \/ RecordPreEffectRefusal \/ RecordDispatch
           \/ \E p \in Process : ConfirmStartup(p)
    PROVE  CallInv'
<1> USE DEF CallInv, FenceInv
<1>1. /\ UNCHANGED <<timedOut, calls, env, procs, started>>
      /\ caller' = caller \/ caller' = NoCaller
  BY DEF RecordPreEffectRefusal, RecordDispatch, ConfirmStartup, provider
<1>2. CASE UNCHANGED receipt
  <2>1. CallsInTurn' /\ DispatchedOnce'
    BY <1>1, <1>2, CallerFacts DEF CallsInTurn, DispatchedOnce
  <2>2. ReceiptsAreTrue'
    BY <1>1, <1>2, <2>1, CallerFacts, TurnKeepsTruth
  <2> QED BY <2>1, <2>2
<1>3. CASE ~ UNCHANGED receipt
  <2> DEFINE r == fence.req
  <2>1. r \in Request /\ fence = receipt[r] /\ Polled(r) /\ fence.state \in InDoubt
    BY <1>3, CurrentFence
       DEF RecordPreEffectRefusal, RecordDispatch, ConfirmStartup, InDoubt
  <2>2. \E state \in {"refused", "requested", "confirmed"} :
            receipt' = [receipt EXCEPT ![r] = [fence EXCEPT !.state = state]]
    <3>1. CASE RecordPreEffectRefusal
      BY <3>1 DEF RecordPreEffectRefusal
    <3>2. CASE RecordDispatch
      BY <1>3, <2>1, <3>2, FenceFacts DEF RecordDispatch, Write, FenceRow
    <3>3. CASE \E p \in Process : ConfirmStartup(p)
      BY <2>1, <3>3, FenceFacts DEF ConfirmStartup, Write, FenceRow
    <3> QED BY <3>1, <3>2, <3>3
  <2>3. /\ receipt'[r].state \in {"refused", "requested", "confirmed"}
        /\ \A q \in Request \ {r} : receipt'[q] = receipt[q]
    BY <2>1, <2>2, FenceFacts DEF TypeOK, FenceRow
  <2>4. ~ timedOut[r]
    BY <2>1 DEF CallsInTurn, InDoubt
  <2>5. CallsInTurn'
    BY <1>1, <2>3, <2>4, CallerFacts DEF CallsInTurn
  <2>6. DispatchedOnce'
    BY <1>1 DEF DispatchedOnce
  <2>7. receipt'[r].state = "refused" =>
           /\ r \notin started /\ env # r /\ caller'.req # r
           /\ \A c \in Call : c[2] = r => calls[c] \in {"none", "dropped"}
    <3> SUFFICES ASSUME receipt'[r].state = "refused"
                 PROVE  /\ r \notin started /\ env # r /\ caller'.req # r
                        /\ \A c \in Call : c[2] = r => calls[c] \in {"none", "dropped"}
      OBVIOUS
    <3>1. RecordPreEffectRefusal
      <4>1. ASSUME NEW state \in {"requested", "confirmed"},
                   Write([fence EXCEPT !.state = state])
            PROVE  FALSE
        BY <2>1, <4>1, FenceFacts DEF Write, TypeOK, FenceRow
      <4> QED BY <1>3, <4>1 DEF RecordDispatch, ConfirmStartup
    <3>2. /\ caller.req = r /\ caller.at = "env_sent" /\ caller' = NoCaller
          /\ calls[<<"env", r>>] = "dropped"
      BY <3>1 DEF RecordPreEffectRefusal
    <3>3. calls[<<"deploy", r>>] = "none"
      BY <2>1, <3>2 DEF CallsInTurn
    <3>4. r \notin started /\ env # r
      BY <2>1, <3>2 DEF CallsInTurn
    <3> QED BY <2>1, <3>2, <3>3, <3>4, CallsOf, CallerFacts
  <2>8. receipt'[r].state = "confirmed" => r \in started
    <3> SUFFICES ASSUME receipt'[r].state = "confirmed"
                 PROVE  r \in started
      OBVIOUS
    <3>1. PICK p \in Process : ConfirmStartup(p)
      <4>1. ~ RecordPreEffectRefusal
        BY <2>1, FenceFacts DEF RecordPreEffectRefusal, TypeOK, FenceRow
      <4>2. ~ RecordDispatch
        BY <1>3, <2>1, FenceFacts DEF RecordDispatch, Write, TypeOK, FenceRow
      <4> QED BY <4>1, <4>2
    <3>2. p \in started /\ MarkerOf[p] = MarkerOf[r]
      BY <3>1 DEF ConfirmStartup, SameBuild, CallsInTurn
    <3>3. p \in Request
      BY <2>1, <3>2, DrainAssumption DEF Process
    <3>4. Polled(p)
      BY <3>2, <3>3 DEF CallsInTurn, Polled
    <3>5. p = r
      BY <2>1, <3>2, <3>3, <3>4, PolledReceipt
    <3> QED BY <3>2, <3>5
  <2>9. ReceiptsAreTrue'
    <3> HIDE DEF r
    <3> SUFFICES ASSUME NEW q \in Request
                 PROVE  /\ timedOut'[q] \/ receipt'[q].state = "refused"
                           => /\ q \notin started' /\ env' # q
                              /\ \A c \in Call : c[2] = q => calls'[c] \in {"none", "dropped"}
                              /\ caller'.req # q
                        /\ receipt'[q].state = "confirmed" => q \in started'
      BY Zenon DEF ReceiptsAreTrue
    <3>1. CASE q = r
      BY <1>1, <2>4, <2>7, <2>8, <3>1
    <3>2. CASE q # r
      BY <1>1, <2>3, <3>2, CallerFacts DEF ReceiptsAreTrue
    <3> QED BY <3>1, <3>2
  <2> QED BY <2>5, <2>6, <2>9
<1> QED BY <1>2, <1>3

(* Nothing else touches requests and their calls.                          *)
LEMMA CallsStay ==
    ASSUME CallInv, UNCHANGED <<receipt, timedOut, caller, calls, env, procs, started>>
    PROVE  CallInv'
<1>1. CallsInTurn' /\ DispatchedOnce'
  BY DEF CallInv, CallsInTurn, DispatchedOnce
<1>2. ReceiptsAreTrue'
  BY <1>1, TurnKeepsTruth DEF CallInv
<1> QED BY <1>1, <1>2 DEF CallInv

-----------------------------------------------------------------------------
(* Admitted work.                                                          *)

(* A step that is not about work, and owns no dispatch, leaves it alone.   *)
LEMMA WorkStays ==
    ASSUME WorkInv, UNCHANGED row, exec' \subseteq exec,
           fence'.state \in InDoubt => fence.state \in InDoubt
    PROVE  WorkInv'
<1>1. ExecutorsAgree'
  BY DEF WorkInv, ExecutorsAgree
<1>2. DoubtIsQuiet'
  BY DEF WorkInv, DoubtIsQuiet, MayBegin, Holds, InDoubt
<1>3. ReplacementWaits'
  BY DEF WorkInv, ReplacementWaits, InDoubt
<1> QED BY <1>1, <1>2, <1>3 DEF WorkInv

(* Whoever may begin an effect blocks a replacement, and so does whoever   *)
(* is at one that is not on record as completed.                           *)
LEMMA WorkBlocks ==
    ASSUME TypeOK, ExecutorsAgree, NEW e \in exec,
           \/ MayBegin(e)
           \/ KindOf[e.op] # "dispatch" /\ e.begun /\ row[e.op].state # "completed"
    PROVE  e.op \in Blockers
<1>1. e.op \in Op /\ ~ LockFree(e.op)
  BY ExecutorFacts DEF LockFree
<1>2. CASE MayBegin(e)
  BY <1>1, <1>2 DEF MayBegin, Holds, Blockers, Blocks, ExecutionExcluded, ExitRecorded
<1>3. CASE KindOf[e.op] # "dispatch" /\ e.begun /\ row[e.op].state # "completed"
  <2>1. /\ row[e.op].state \in {"running", "reconcile_required"}
        /\ row[e.op].exit # row[e.op].attempt
    BY <1>3 DEF ExecutorsAgree
  <2>2. ~ ExecutionExcluded(e.op)
    BY <1>1, <2>1 DEF ExecutionExcluded, ExitRecorded
  <2> QED BY <1>1, <1>3, <2>1, <2>2 DEF Blockers, Blocks
<1> QED BY <1>2, <1>3

LEMMA PrepareKeepsWork ==
    ASSUME TypeOK, WorkInv, FenceInv, NEW p \in Process, NEW r \in Request,
           DrainTimesOut(p, r) \/ Drain(p, r) \/ OwnDispatch(p, r)
    PROVE  WorkInv'
<1>1. CASE DrainTimesOut(p, r)
  <2>1. fence'.state = "draining"
    BY <1>1, FenceFacts
       DEF DrainTimesOut, OutOfTime, MayPrepare, Polled, Write, FenceRow
  <2> QED BY <1>1, <2>1, WorkStays DEF DrainTimesOut, work, InDoubt
<1>2. CASE Drain(p, r)
  BY <1>2, WorkStays DEF Drain, Write, FenceOf, work, InDoubt
<1>3. CASE OwnDispatch(p, r)
  <2>1. UNCHANGED <<row, exec>> /\ Blockers = {}
    BY <1>3 DEF OwnDispatch, work
  <2>2. \A e \in exec :
           /\ ~ MayBegin(e)
           /\ KindOf[e.op] # "dispatch" /\ e.begun =>
                /\ KindOf[e.op] # "preview"
                /\ row[e.op].state = "completed" /\ row[e.op].attempt = e.attempt
    BY <2>1, WorkBlocks DEF WorkInv, ExecutorsAgree
  <2>3. ExecutorsAgree'
    BY <2>1 DEF WorkInv, ExecutorsAgree
  <2>4. DoubtIsQuiet' /\ ReplacementWaits'
    BY <2>1, <2>2 DEF DoubtIsQuiet, MayBegin, Holds, ReplacementWaits
  <2> QED BY <2>3, <2>4 DEF WorkInv
<1> QED BY <1>1, <1>2, <1>3

LEMMA TakeKeepsWork ==
    ASSUME TypeOK, WorkInv, NEW p \in Process, NEW o \in Op,
           Admit(p, o) \/ ClaimMarked(p, o)
    PROVE  WorkInv'
<1> DEFINE n == row[o].attempt + 1
           x == [op |-> o, attempt |-> n, by |-> p, begun |-> FALSE]
<1>1. /\ exec' = exec \cup {x} /\ UNCHANGED fence
      /\ row'[o].state = "running" /\ row'[o].attempt = n
      /\ row'[o].exit = row[o].exit /\ row'[o].marker = row[o].marker
      /\ \A q \in Op \ {o} : row'[q] = row[q]
  BY WorkFacts DEF Admit, ClaimMarked, Take, TypeOK, WorkRow, fences
<1>2. /\ n \in Int /\ row[o].attempt < n /\ row[o].exit < n
      /\ \A e \in exec : e.op = o => e.attempt < n
  BY WorkFacts, ExecutorFacts DEF WorkInv, ExecutorsAgree
<1>3. x.op = o /\ x.attempt = n /\ x.begun = FALSE
  OBVIOUS
<1>4. KindOf[o] # "dispatch" => \A e \in exec : e.op = o => ~ e.begun
  <2>1. SUFFICES ASSUME KindOf[o] # "dispatch", NEW e \in exec, e.op = o, e.begun
                 PROVE  FALSE
    OBVIOUS
  <2>2. row[o].state = "none"
    BY <2>1 DEF Admit, ClaimMarked, Startable
  <2> QED BY <2>1, <2>2, ExecutorFacts DEF WorkInv, ExecutorsAgree
<1> HIDE DEF n, x
<1>5. ExecutorsAgree'
  <2>1. \A q \in Op : row'[q].exit <= row'[q].attempt
    BY <1>1, <1>2, WorkFacts DEF WorkInv, ExecutorsAgree
  <2>2. ASSUME NEW e \in exec'
        PROVE  /\ e.attempt <= row'[e.op].attempt /\ e.attempt # row'[e.op].exit
               /\ \A y \in exec' : y.op = e.op /\ y.attempt = e.attempt => y = e
               /\ KindOf[e.op] # "dispatch" /\ e.begun =>
                    /\ e.attempt = row'[e.op].attempt
                    /\ \/ row'[e.op].state \in {"running", "reconcile_required"}
                       \/ row'[e.op].state = "completed" /\ KindOf[e.op] # "preview"
    <3>1. CASE e = x
      BY <1>1, <1>2, <1>3, <3>1, WorkFacts
    <3>2. CASE e \in exec
      <4>1. CASE e.op = o
        BY <1>1, <1>2, <1>3, <1>4, <3>2, <4>1, ExecutorFacts DEF WorkInv, ExecutorsAgree
      <4>2. CASE e.op # o
        BY <1>1, <1>3, <3>2, <4>2, ExecutorFacts DEF WorkInv, ExecutorsAgree
      <4> QED BY <4>1, <4>2
    <3> QED BY <1>1, <3>1, <3>2
  <2> QED BY <2>1, <2>2, Zenon DEF ExecutorsAgree
<1>6. DoubtIsQuiet'
  <2> SUFFICES ASSUME fence.state \in InDoubt, NEW e \in exec'
               PROVE  ~ MayBegin(e)'
    BY <1>1, Zenon DEF DoubtIsQuiet, InDoubt
  <2>1. KindOf[o] = "dispatch" /\ row'[o].marker
    BY <1>1 DEF Admit, ClaimMarked, AdmissionAllowed, InDoubt
  <2>2. CASE e.op = o
    BY <2>1, <2>2 DEF MayBegin
  <2>3. CASE e.op # o
    BY <1>1, <1>3, <2>3, ExecutorFacts DEF MayBegin, Holds, WorkInv, DoubtIsQuiet
  <2> QED BY <2>2, <2>3
<1>7. ReplacementWaits'
  <2>1. fence.state \in InDoubt => KindOf[o] = "dispatch"
    BY DEF Admit, ClaimMarked, AdmissionAllowed, InDoubt
  <2>2. \A e \in exec : e.op \in Op
    BY ExecutorFacts
  <2> QED BY <1>1, <1>3, <2>1, <2>2 DEF WorkInv, ReplacementWaits, InDoubt
<1> QED BY <1>5, <1>6, <1>7 DEF WorkInv

LEMMA BeginKeepsWork ==
    ASSUME TypeOK, WorkInv, NEW e \in exec, BeginEffect(e)
    PROVE  WorkInv'
<1> DEFINE b == [e EXCEPT !.begun = TRUE]
<1>1. /\ exec' = (exec \ {e}) \cup {b} /\ UNCHANGED fence
      /\ b.op = e.op /\ b.attempt = e.attempt /\ e.op \in Op
  BY ExecutorFacts DEF BeginEffect, fences, Executor
<1>2. MayBegin(e)
  BY DEF BeginEffect, MayBegin
<1>3. \A q \in Op : /\ row'[q].state = row[q].state /\ row'[q].attempt = row[q].attempt
                    /\ row'[q].exit = row[q].exit
  BY <1>1, WorkFacts DEF BeginEffect, TypeOK, WorkRow
<1> HIDE DEF b
<1>4. ExecutorsAgree'
  <2>1. \A q \in Op : row'[q].exit <= row'[q].attempt
    BY <1>3 DEF WorkInv, ExecutorsAgree
  <2>2. ASSUME NEW a \in exec'
        PROVE  /\ a.attempt <= row'[a.op].attempt /\ a.attempt # row'[a.op].exit
               /\ \A y \in exec' : y.op = a.op /\ y.attempt = a.attempt => y = a
               /\ KindOf[a.op] # "dispatch" /\ a.begun =>
                    /\ a.attempt = row'[a.op].attempt
                    /\ \/ row'[a.op].state \in {"running", "reconcile_required"}
                       \/ row'[a.op].state = "completed" /\ KindOf[a.op] # "preview"
    <3>1. PICK z \in exec : /\ z.op = a.op /\ z.attempt = a.attempt
                            /\ (a = b /\ z = e) \/ (a = z /\ z # e)
      BY <1>1
    <3>2. \A y \in exec' : y.op = a.op /\ y.attempt = a.attempt => y = a
      BY <1>1, <3>1 DEF WorkInv, ExecutorsAgree
    <3>3. z.op \in Op
      BY ExecutorFacts
    <3> QED BY <1>2, <1>3, <3>1, <3>2, <3>3 DEF WorkInv, ExecutorsAgree, MayBegin, Holds
  <2> QED BY <2>1, <2>2, Zenon DEF ExecutorsAgree
<1>5. fence.state \notin InDoubt
  BY <1>2 DEF WorkInv, DoubtIsQuiet
<1> QED BY <1>1, <1>4, <1>5 DEF WorkInv, DoubtIsQuiet, ReplacementWaits, InDoubt

(* An executor that leaves, and a row that settles.                        *)
LEMMA LeaveKeepsWork ==
    ASSUME TypeOK, WorkInv, NEW e \in exec,
           \/ FinishDispatch(e) \/ CompleteReservation(e) \/ GiveUp(e)
           \/ RecordExecutorExit(e)
    PROVE  WorkInv'
<1> DEFINE o == e.op
<1>1. o \in Op /\ exec' = exec \ {e} /\ UNCHANGED fence
  BY ExecutorFacts
     DEF FinishDispatch, CompleteReservation, GiveUp, RecordExecutorExit, fences
<1>2. /\ \A q \in Op \ {o} : row'[q] = row[q]
      /\ row'[o].attempt = row[o].attempt /\ row'[o].marker = row[o].marker
      /\ \/ row'[o] = row[o]
         \/ KindOf[o] = "dispatch" /\ row'[o].exit = row[o].exit
              /\ row'[o].state \in {"completed", "reconcile_required"}
         \/ row'[o].exit = row[o].exit /\ row'[o].state \in {"completed", "none"}
              /\ row[o].attempt = e.attempt
         \/ row'[o].exit = e.attempt /\ row'[o].state = "reconcile_required"
              /\ row[o].state = "reconcile_required" /\ row[o].attempt = e.attempt
  <2>1. CASE FinishDispatch(e)
    BY <1>1, <2>1, WorkFacts DEF FinishDispatch, TypeOK, WorkRow
  <2>2. CASE CompleteReservation(e)
    BY <1>1, <2>2, WorkFacts DEF CompleteReservation, TypeOK, WorkRow
  <2>3. CASE RecordExecutorExit(e)
    BY <1>1, <2>3, WorkFacts DEF RecordExecutorExit, TypeOK, WorkRow
  <2>4. CASE GiveUp(e)
    BY <1>1, <2>4, WorkFacts DEF GiveUp, TypeOK, WorkRow, Holds
  <2> QED BY <2>1, <2>2, <2>3, <2>4
<1> HIDE DEF o
<1>3. ExecutorsAgree'
  <2>1. \A q \in Op : row'[q].exit <= row'[q].attempt
    BY <1>1, <1>2, WorkFacts DEF WorkInv, ExecutorsAgree
  <2>2. ASSUME NEW a \in exec'
        PROVE  /\ a.attempt <= row'[a.op].attempt /\ a.attempt # row'[a.op].exit
               /\ \A y \in exec' : y.op = a.op /\ y.attempt = a.attempt => y = a
               /\ KindOf[a.op] # "dispatch" /\ a.begun =>
                    /\ a.attempt = row'[a.op].attempt
                    /\ \/ row'[a.op].state \in {"running", "reconcile_required"}
                       \/ row'[a.op].state = "completed" /\ KindOf[a.op] # "preview"
    <3>1. /\ a \in exec /\ a.op \in Op /\ a # e
          /\ a.op = o => a.attempt # e.attempt
      BY <1>1, ExecutorFacts DEF WorkInv, ExecutorsAgree, o
    <3> QED BY <1>1, <1>2, <3>1 DEF WorkInv, ExecutorsAgree
  <2> QED BY <2>1, <2>2, Zenon DEF ExecutorsAgree
<1>4. DoubtIsQuiet'
  <2> SUFFICES ASSUME fence.state \in InDoubt, NEW a \in exec', MayBegin(a)'
               PROVE  FALSE
    BY <1>1, Zenon DEF DoubtIsQuiet, InDoubt
  <2>1. a \in exec /\ a.op \in Op
    BY <1>1, ExecutorFacts
  <2>2. row'[a.op] = row[a.op]
    BY <1>2, <2>1 DEF MayBegin, Holds
  <2> QED BY <2>1, <2>2 DEF MayBegin, Holds, WorkInv, DoubtIsQuiet
<1>5. ReplacementWaits'
  <2> SUFFICES ASSUME fence.state \in InDoubt, NEW a \in exec',
                      KindOf[a.op] # "dispatch", a.begun
               PROVE  /\ KindOf[a.op] # "preview"
                      /\ row'[a.op].state = "completed" /\ row'[a.op].attempt = a.attempt
    BY <1>1, Zenon DEF ReplacementWaits, InDoubt
  <2>1. /\ a \in exec /\ a.op \in Op
        /\ a.op = o => a.attempt # e.attempt
    BY <1>1, ExecutorFacts DEF WorkInv, ExecutorsAgree, o
  <2>2. /\ KindOf[a.op] # "preview"
        /\ row[a.op].state = "completed" /\ row[a.op].attempt = a.attempt
    BY <2>1 DEF WorkInv, ReplacementWaits
  <2> QED BY <1>2, <2>1, <2>2
<1> QED BY <1>3, <1>4, <1>5 DEF WorkInv

LEMMA RowKeepsWork ==
    ASSUME TypeOK, WorkInv, NEW o \in Op,
           MarkReconcileRequired(o) \/ Adopt(o) \/ LeaseExpires(o)
    PROVE  WorkInv'
<1>1. /\ UNCHANGED <<exec, fence>>
      /\ \A q \in Op \ {o} : row'[q] = row[q]
      /\ row'[o].attempt = row[o].attempt /\ row'[o].exit = row[o].exit
      /\ row[o].state \in {"running", "reconcile_required"}
      /\ \/ row'[o].state \in {"running", "reconcile_required"}
         \/ /\ row'[o].state = "completed"
            /\ KindOf[o] = "preview" => \A a \in exec : a.op # o
      /\ row'[o].state # "running" \/ row'[o].lease = "past"
  BY WorkFacts
     DEF MarkReconcileRequired, Adopt, LockFree, LeaseExpires, TypeOK, WorkRow, fences
<1>2. ExecutorsAgree'
  <2>1. \A q \in Op : row'[q].exit <= row'[q].attempt
    BY <1>1 DEF WorkInv, ExecutorsAgree
  <2>2. ASSUME NEW a \in exec'
        PROVE  /\ a.attempt <= row'[a.op].attempt /\ a.attempt # row'[a.op].exit
               /\ \A y \in exec' : y.op = a.op /\ y.attempt = a.attempt => y = a
               /\ KindOf[a.op] # "dispatch" /\ a.begun =>
                    /\ a.attempt = row'[a.op].attempt
                    /\ \/ row'[a.op].state \in {"running", "reconcile_required"}
                       \/ row'[a.op].state = "completed" /\ KindOf[a.op] # "preview"
    BY <1>1, <2>2, ExecutorFacts DEF WorkInv, ExecutorsAgree
  <2> QED BY <2>1, <2>2, Zenon DEF ExecutorsAgree
<1>3. DoubtIsQuiet'
  <2> SUFFICES ASSUME fence.state \in InDoubt, NEW a \in exec, MayBegin(a)'
               PROVE  FALSE
    BY <1>1, Zenon DEF DoubtIsQuiet, InDoubt
  <2>1. a.op \in Op /\ row'[a.op] = row[a.op]
    BY <1>1, ExecutorFacts DEF MayBegin, Holds
  <2> QED BY <2>1 DEF MayBegin, Holds, WorkInv, DoubtIsQuiet
<1>4. ReplacementWaits'
  <2> SUFFICES ASSUME fence.state \in InDoubt, NEW a \in exec,
                      KindOf[a.op] # "dispatch", a.begun
               PROVE  /\ KindOf[a.op] # "preview"
                      /\ row'[a.op].state = "completed" /\ row'[a.op].attempt = a.attempt
    BY <1>1, Zenon DEF ReplacementWaits, InDoubt
  <2>1. a.op \in Op /\ KindOf[a.op] # "preview"
        /\ row[a.op].state = "completed" /\ row[a.op].attempt = a.attempt
    BY ExecutorFacts DEF WorkInv, ReplacementWaits
  <2>2. a.op # o
    BY <1>1, <2>1
  <2> QED BY <1>1, <2>1, <2>2
<1> QED BY <1>2, <1>3, <1>4 DEF WorkInv

-----------------------------------------------------------------------------
(* The inductive invariant and what it gives.                              *)

LEMMA InvParts == Inv <=> TypeOK /\ FenceInv /\ CallInv /\ WorkInv
BY DEF Inv, FenceInv, CallInv, WorkInv

LEMMA InitInv == Init => Inv
<1> SUFFICES ASSUME Init
             PROVE  Inv
  OBVIOUS
<1>1. TypeOK
  BY DrainAssumption
     DEF Init, TypeOK, FenceRow, NoFence, WorkRow, NoWork, Caller, NoCaller, Process
<1>2. FenceInv
  BY DEF Init, FenceInv, ReceiptsAgree, DoubtIsRepaired, DrainsAreBounded, InDoubt, NoFence
<1>3. CallInv
  <2>1. \A r \in Request : r # Booted /\ r # NoRequest
    BY DrainAssumption DEF Process
  <2>2. CallsInTurn /\ DispatchedOnce
    BY <2>1, CallsOf DEF Init, CallsInTurn, DispatchedOnce, NoFence, NoCaller
  <2>3. ReceiptsAreTrue
    BY <2>1 DEF Init, ReceiptsAreTrue, NoFence
  <2> QED BY <2>2, <2>3 DEF CallInv
<1>4. WorkInv
  BY DEF Init, WorkInv, ExecutorsAgree, DoubtIsQuiet, ReplacementWaits, NoWork
<1> QED BY <1>1, <1>2, <1>3, <1>4, InvParts

LEMMA NextInv ==
    ASSUME Inv, [Next]_vars
    PROVE  Inv'
<1>1. TypeOK /\ FenceInv /\ CallInv /\ WorkInv
  BY InvParts
<1>2. TypeOK'
  BY <1>1, NextType
<1> SUFFICES FenceInv' /\ CallInv' /\ WorkInv'
  BY <1>2 DEF Inv, FenceInv, CallInv, WorkInv
<1>3. CASE \E p \in Process, r \in Request :
             DrainTimesOut(p, r) \/ Drain(p, r) \/ OwnDispatch(p, r)
  <2>1. \A r \in Request : receipt[r] # NoFence => receipt[r].req = r
    BY <1>1 DEF FenceInv, ReceiptsAgree
  <2> QED BY <1>1, <1>2, <1>3, <2>1, PrepareKeepsFences, PrepareKeepsCalls,
             PrepareKeepsWork
<1>4. CASE \/ RecordPreEffectRefusal \/ RecordDispatch
           \/ \E p \in Process : ConfirmStartup(p)
  <2>1. WorkInv'
    <3>1. UNCHANGED <<row, exec>>
      BY <1>4 DEF RecordPreEffectRefusal, RecordDispatch, ConfirmStartup, work
    <3>2. fence'.state \in InDoubt => fence.state \in InDoubt
      BY <1>1, <1>4, FenceFacts
         DEF RecordPreEffectRefusal, RecordDispatch, ConfirmStartup, InDoubt
    <3> QED BY <1>1, <3>1, <3>2, WorkStays
  <2> QED BY <1>1, <1>2, <1>4, <2>1, RecordKeepsFences, RecordKeepsCalls
<1>5. CASE \/ UpdateEnv \/ TriggerDeployment \/ Answered \/ OutcomeUnknown
           \/ \E p \in Process : Crash(p)
           \/ \E c \in Call : Land(c) \/ Drop(c)
           \/ \E r \in Request : Startup(r)
  <2>1. UNCHANGED <<fence, receipt, deadline, now, row>> /\ exec' \subseteq exec
    BY <1>5 DEF UpdateEnv, TriggerDeployment, SendCall, Answered, OutcomeUnknown, Crash,
                Land, Drop, Startup, fences, work
  <2>2. FenceInv' /\ WorkInv'
    BY <1>1, <1>2, <2>1, FencesStay, WorkStays, FenceFacts
  <2>3. CallInv'
    BY <1>1, <1>5, SendKeepsCalls, CallerKeepsCalls, DokployKeepsCalls
  <2> QED BY <1>2, <2>2, <2>3
<1>6. CASE \/ \E p \in Process, o \in Op : Admit(p, o) \/ ClaimMarked(p, o)
           \/ \E e \in exec : \/ BeginEffect(e) \/ FinishDispatch(e)
                              \/ CompleteReservation(e) \/ GiveUp(e)
                              \/ RecordExecutorExit(e)
           \/ \E o \in Op : MarkReconcileRequired(o) \/ Adopt(o) \/ LeaseExpires(o)
  <2>1. UNCHANGED <<now, fences, caller, provider>>
    BY <1>6 DEF Admit, ClaimMarked, Take, BeginEffect, FinishDispatch, CompleteReservation,
                GiveUp, RecordExecutorExit, MarkReconcileRequired, Adopt, LeaseExpires
  <2>2. FenceInv' /\ CallInv'
    BY <1>1, <1>2, <2>1, FencesStay, CallsStay, FenceFacts DEF fences, provider
  <2>3. WorkInv'
    BY <1>1, <1>6, TakeKeepsWork, BeginKeepsWork, LeaveKeepsWork, RowKeepsWork
  <2> QED BY <1>2, <2>2, <2>3
<1>7. CASE Tick
  <2>1. now' >= now /\ UNCHANGED <<fences, caller, provider, work>>
    BY <1>1, <1>7, FenceFacts DEF Tick
  <2> QED BY <1>1, <1>2, <2>1, FencesStay, CallsStay, WorkStays
          DEF fences, provider, work
<1>8. CASE UNCHANGED vars
  <2>1. now' >= now /\ UNCHANGED <<fences, caller, provider, work>>
    BY <1>1, <1>8, FenceFacts DEF vars
  <2> QED BY <1>1, <1>2, <2>1, FencesStay, CallsStay, WorkStays
          DEF fences, provider, work
<1> QED BY <1>3, <1>4, <1>5, <1>6, <1>7, <1>8 DEF Next

(* The inductive invariant holds in every reachable state.                 *)
THEOREM InvHolds == Spec => []Inv
<1> QED BY InitInv, NextInv, PTL DEF Spec

(* When a replacement is dispatched, an executor of a reservation is at    *)
(* its effect only if another adopted the outcome of that attempt, never   *)
(* one of a preview, and nobody begins an effect after it was              *)
(* (prepare, service_deploy_drain.py; adopt_reconciled_mutation).          *)
THEOREM NothingIsCutShort == Spec => []ReplacementWaits /\ NobodyBegins
<1>1. Inv => ReplacementWaits
  BY DEF Inv
<1>2. Inv /\ [Next]_vars
      => [fence.state \in InDoubt => \A e \in exec' : e.begun => e \in exec]_vars
  <2> SUFFICES ASSUME Inv, Next, fence.state \in InDoubt, NEW a \in exec', a.begun
               PROVE  a \in exec
    OBVIOUS
  <2>1. CASE \E p \in Process, o \in Op : Admit(p, o) \/ ClaimMarked(p, o)
    BY <2>1 DEF Admit, ClaimMarked, Take
  <2>2. ASSUME NEW e \in exec, BeginEffect(e)
        PROVE  FALSE
    BY <2>2 DEF BeginEffect, Inv, DoubtIsQuiet, MayBegin
  <2>3. CASE ~ (\E p \in Process, o \in Op : Admit(p, o) \/ ClaimMarked(p, o))
    <3>1. exec' \subseteq exec
      BY <2>2, <2>3
         DEF Next, DrainTimesOut, Drain, OwnDispatch, UpdateEnv, TriggerDeployment, SendCall,
             Answered, OutcomeUnknown, RecordPreEffectRefusal, RecordDispatch, ConfirmStartup,
             Crash, FinishDispatch, CompleteReservation, GiveUp, RecordExecutorExit,
             MarkReconcileRequired, Adopt, LeaseExpires, Land, Drop, Startup, Tick, work
    <3> QED BY <3>1
  <2> QED BY <2>1, <2>3
<1>3. Spec => []ReplacementWaits
  BY InvHolds, <1>1, PTL
<1>4. Spec => NobodyBegins
  BY InvHolds, <1>2, PTL DEF Spec, NobodyBegins
<1> QED BY <1>3, <1>4

(* No request calls Dokploy twice.                                         *)
THEOREM SentAtMostOnce == Spec => []DispatchedOnce
<1>1. Inv => DispatchedOnce
  BY DEF Inv
<1> QED BY InvHolds, <1>1, PTL

(* What receipts say of Dokploy is true, and a dispatch in doubt is never  *)
(* forgotten.                                                              *)
THEOREM ReceiptsHold == Spec => []ReceiptsAreTrue /\ []InDoubtIsFenced
<1>1. Inv => ReceiptsAreTrue
  BY DEF Inv
<1>2. Inv => InDoubtIsFenced
  BY DEF Inv, DoubtIsRepaired, InDoubtIsFenced
<1> QED BY InvHolds, <1>1, <1>2, PTL

(* A drain withholds admission at most one pause beyond its deadline.      *)
THEOREM DrainsEnd == Spec => []PauseIsBounded
<1>1. Inv => PauseIsBounded
  <2> SUFFICES ASSUME Inv, fence.state = "draining", fence.expires > now
               PROVE  fence.expires < deadline[fence.req] + Pause
    BY DEF PauseIsBounded
  <2>1. fence.req \in Request /\ fence = receipt[fence.req]
    BY CurrentFence DEF Inv
  <2> QED BY <2>1 DEF Inv, DrainsAreBounded
<1> QED BY InvHolds, <1>1, PTL

=============================================================================

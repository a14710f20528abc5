----------------------- MODULE DurableOperationProof -----------------------
(***************************************************************************)
(* Proofs about DurableOperation for any workers and operations of a lane, *)
(* any number of attempts, deferrals and interruptions.                    *)
(*                                                                         *)
(* The argument: whoever is past the entry of its production effects was   *)
(* the owner of the lease when it entered, and wrote so in the row before  *)
(* (Working, Touched).  A row that shows it is held when its lease         *)
(* expires, never queued again, so nobody enters after it (OneCommitted),  *)
(* and the lane stays held through whatever happens to the worker          *)
(* (Doubted), since it has one holder (OneHolder).  A restore that failed  *)
(* its verification is queued once more on a free lane; whoever owns its   *)
(* lease then only replays its end (Replays).                              *)
(***************************************************************************)
EXTENDS DurableOperation, TLAPS

-----------------------------------------------------------------------------
(* Facts about the state.                                                  *)

(* What a worker is doing that is at an operation.                         *)
Work == [at : {"step", "effect", "ended"}, op : Op, step : 1..5, out : Outcome,
         lost : BOOLEAN, began : BOOLEAN, resumes : BOOLEAN, replays : BOOLEAN,
         charged : BOOLEAN]

LEMMA JobFacts ==
    ASSUME TypeOK, NEW w \in Worker
    PROVE  /\ job[w] = Idle \/ job[w] \in Work
           /\ job[w] = Idle <=> job[w].at = "idle"
           /\ job[w] # Idle =>
                /\ job[w].op \in Op /\ job[w].step \in 1..5 /\ job[w].out \in Outcome
                /\ job[w].at \in {"step", "effect", "ended"}
                /\ job[w].resumes \in BOOLEAN /\ job[w].replays \in BOOLEAN
BY DEF TypeOK, Job, Work, Idle

(* The numbers of a row.                                                   *)
LEMMA RowFacts ==
    ASSUME TypeOK, NEW o \in Op
    PROVE  /\ row[o] \in Row /\ row[o].attempt \in Int /\ row[o].attempt >= 0
           /\ MaxAttempts \in Int /\ MaxAttempts > 0
           /\ deferrals \in Int /\ deferrals >= 0 /\ deferrals <= MaxDeferrals
           /\ MaxDeferrals \in Int
           /\ KindOf[o] \in {"bootstrap", "restore", "promotion", "rollback"}
BY DurableAssumption DEF TypeOK, Row

(* How often an operation may be run.                                      *)
LEMMA BudgetFacts ==
    ASSUME TypeOK, NEW o \in Op
    PROVE  /\ Budget(o) \in Int
           /\ MaxAttempts + deferrals <= Budget(o) /\ Budget(o) <= MaxAttempts + deferrals + 1
           /\ KindOf[o] = "restore" => Budget(o) = MaxAttempts + deferrals + 1
           /\ KindOf[o] # "restore" => Budget(o) = MaxAttempts + deferrals
<1>1. MaxAttempts + deferrals \in Int
  BY RowFacts
<1> QED BY <1>1 DEF Budget

(* The steps of a run, one by one.                                         *)
LEMMA BootstrapFacts ==
    /\ Len(BootstrapSteps) = 2
    /\ BootstrapSteps[1] = Step("none", "running", "prod")
    /\ BootstrapSteps[2] = Step("none", "running", "prod")
BY DEF BootstrapSteps

LEMMA RestoreFacts ==
    /\ Len(RestoreSteps) = 4
    /\ RestoreSteps[1] = Step("phase", "validated", "none")
    /\ RestoreSteps[2] = Step("phase", "started", "prod")
    /\ RestoreSteps[3] = Step("phase", "started", "prod")
    /\ RestoreSteps[4] = Step("phase", "started", "verify")
BY DEF RestoreSteps

LEMMA ReplayFacts ==
    /\ Len(ReplaySteps) = 3
    /\ ReplaySteps[1] = Step("none", "started", "read")
    /\ ReplaySteps[2] = Step("phase", "started", "prod")
    /\ ReplaySteps[3] = Step("phase", "started", "verify")
BY DEF ReplaySteps

LEMMA PromotionFacts ==
    /\ Len(PromotionSteps) = 5
    /\ PromotionSteps[1] = Step("phase", "validated", "none")
    /\ PromotionSteps[2] = Step("phase", "backup", "backup")
    /\ PromotionSteps[3] = Step("phase", "started", "none")
    /\ PromotionSteps[4] = Step("write", "started", "prod")
    /\ PromotionSteps[5] = Step("flag", "started", "prod")
BY DEF PromotionSteps

LEMMA RollbackFacts ==
    /\ Len(RollbackSteps) = 3
    /\ RollbackSteps[1] = Step("phase", "validated", "none")
    /\ RollbackSteps[2] = Step("write", "started", "prod")
    /\ RollbackSteps[3] = Step("flag", "started", "prod")
BY DEF RollbackSteps

LEMMA ResumeFacts ==
    /\ Len(ResumeSteps) = 2
    /\ ResumeSteps[1] = Step("row", "started", "prod")
    /\ ResumeSteps[2] = Step("row", "started", "prod")
BY DEF ResumeSteps

(* How the step of a kind of run is admitted, and what it does.            *)
StepOf(s, kind, resumes) ==
    /\ s.phase \in {"running", "validated", "backup", "started"}
    /\ s.by \in {"none", "phase", "write", "flag", "row"}
    /\ s.effect \in {"none", "backup", "prod", "read", "verify"}
    /\ s.by = "row" <=> resumes
    /\ kind = "bootstrap" /\ ~ resumes => s.by = "none"
    /\ s.by = "none" => /\ ~ resumes
                        /\ \/ kind = "bootstrap" /\ s.effect = "prod"
                           \/ kind = "restore" /\ s.effect = "read"
    /\ s.by \in {"write", "flag", "row"} => s.effect = "prod"
    /\ s.by \in {"write", "flag"} => kind \in {"promotion", "rollback"}
    /\ s.effect = "verify" => kind = "restore"
    /\ s.by = "phase" /\ s.effect = "prod" => kind = "restore"
    /\ s.by \in {"phase", "write"} /\ s.effect = "prod" => s.phase = "started"

(* A run ends with an effect, and those it enters without its lease come   *)
(* after one that was entered under it.                                    *)
LEMMA StepFacts ==
    ASSUME TypeOK, NEW w \in Worker, job[w] # Idle
    PROVE  /\ Len(Steps(w)) \in 2..5
           /\ \A i \in 1..Len(Steps(w)) : StepOf(Steps(w)[i], KindOf[job[w].op], job[w].resumes)
           /\ Steps(w)[Len(Steps(w))].effect # "none"
           /\ Steps(w)[1].by # "flag"
           /\ \A i \in 1..(Len(Steps(w)) - 1) :
                 Steps(w)[i].effect # "prod" => Steps(w)[i + 1].by # "flag"
<1> DEFINE k == KindOf[job[w].op]
           resumes == job[w].resumes
<1>1. /\ k \in {"bootstrap", "restore", "promotion", "rollback"} /\ resumes \in BOOLEAN
      /\ job[w].replays \in BOOLEAN
  BY JobFacts, DurableAssumption
<1>2. CASE resumes
  <2>1. Steps(w) = ResumeSteps
    BY <1>2 DEF Steps
  <2> QED BY <1>1, <1>2, <2>1, ResumeFacts DEF Step, StepOf
<1>3. CASE ~ resumes /\ k = "bootstrap"
  <2>1. Steps(w) = BootstrapSteps
    BY <1>3 DEF Steps
  <2> QED BY <1>3, <2>1, BootstrapFacts DEF Step, StepOf
<1>4. CASE ~ resumes /\ k = "restore"
  <2>1. CASE job[w].replays
    <3>1. Steps(w) = ReplaySteps
      BY <1>4, <2>1 DEF Steps
    <3> QED BY <1>4, <3>1, ReplayFacts DEF Step, StepOf
  <2>2. CASE ~ job[w].replays
    <3>1. Steps(w) = RestoreSteps
      BY <1>4, <2>2 DEF Steps
    <3> QED BY <1>4, <3>1, RestoreFacts DEF Step, StepOf
  <2> QED BY <1>1, <2>1, <2>2
<1>5. CASE ~ resumes /\ k = "promotion"
  <2>1. Steps(w) = PromotionSteps
    BY <1>5 DEF Steps
  <2> QED BY <1>5, <2>1, PromotionFacts DEF Step, StepOf
<1>6. CASE ~ resumes /\ k = "rollback"
  <2>1. Steps(w) = RollbackSteps
    BY <1>6 DEF Steps
  <2> QED BY <1>6, <2>1, RollbackFacts DEF Step, StepOf
<1> QED BY <1>1, <1>2, <1>3, <1>4, <1>5, <1>6

-----------------------------------------------------------------------------
(* Types.                                                                  *)

Attempts == 0..(MaxAttempts + MaxDeferrals + 1)

Phases == DOMAIN PhaseRank

LEMMA PhaseFacts ==
    Phases = {"created", "running", "validated", "backup", "started"}
BY DEF Phases, PhaseRank

LEMMA NoRowType ==
    ASSUME NEW status \in Blocking \cup {"none", "pass", "fail", "cancelled"},
           NEW marks \in SUBSET Phases
    PROVE  /\ [NoRow EXCEPT !.status = status] \in Row
           /\ [NoRow EXCEPT !.status = status, !.marks = marks] \in Row
           /\ \A n \in Attempts :
                 [[NoRow EXCEPT !.status = status] EXCEPT !.marks = marks, !.attempt = n,
                                                          !.unverified = TRUE] \in Row
<1>1. 0 \in Attempts /\ "created" \in Phases
  BY DurableAssumption, PhaseFacts DEF Attempts
<1> QED BY <1>1 DEF NoRow, Row, Attempts, Phases

LEMMA UnleasedType ==
    ASSUME NEW r \in Row
    PROVE  Unleased(r) \in Row
BY DEF Unleased, Row

LEMMA LeasedType ==
    ASSUME NEW r \in Row, NEW w \in Worker
    PROVE  Leased(r, w) \in Row
BY DEF Leased, Row, Blocking

LEMMA FieldType ==
    ASSUME NEW r \in Row
    PROVE  /\ \A n \in Attempts : [r EXCEPT !.attempt = n] \in Row
           /\ \A p \in Phases : [r EXCEPT !.phase = p] \in Row
           /\ \A m \in SUBSET Phases : [r EXCEPT !.marks = m] \in Row
           /\ \A s \in Blocking \cup {"none", "pass", "fail", "cancelled"} :
                 [r EXCEPT !.status = s] \in Row
           /\ \A l \in {"none", "live", "due", "expired"} : [r EXCEPT !.lease = l] \in Row
           /\ \A b \in BOOLEAN : /\ [r EXCEPT !.settled = b] \in Row
                                 /\ [r EXCEPT !.inspected = b] \in Row
                                 /\ [r EXCEPT !.written = b] \in Row
                                 /\ [r EXCEPT !.unverified = b] \in Row
BY DEF Row, Attempts, Phases

-----------------------------------------------------------------------------
(* Any step.                                                               *)

(* A worker that does nothing is where it was.                             *)
LEMMA SameJob ==
    ASSUME NEW v \in Worker, job'[v] = job[v]
    PROVE  /\ Steps(v)' = Steps(v) /\ This(v)' = This(v) /\ (AtStep(v)' <=> AtStep(v))
           /\ (AtEffect(v)' <=> AtEffect(v)) /\ (Committed(v)' <=> Committed(v))
<1>1. Steps(v)' = Steps(v)
  BY DEF Steps
<1>2. This(v)' = This(v) /\ (AtStep(v)' <=> AtStep(v))
  BY <1>1 DEF This, AtStep
<1>3. AtEffect(v)' <=> AtEffect(v)
  BY <1>2 DEF AtEffect
<1> QED BY <1>1, <1>2, <1>3 DEF Committed

(* Nobody may be at an effect of the operation.                            *)
Unused(o) ==
    /\ ~ doubt[o]
    /\ \A v \in Worker : Committed(v) => job[v].op # o

Claims(w, o) ==
    job[w] = Idle /\ job'[w] # Idle /\ job'[w].op = o /\ row'[o].owner = w

(* What may happen to the row of an operation.                             *)
RowMove(o) ==
    LET r == row[o]  s == row'[o]
        kept == s.phase = r.phase /\ s.written = r.written /\ s.marks = r.marks IN
    \/ /\ kept /\ s.status = r.status /\ s.attempt = r.attempt /\ s.owner = r.owner
    \/ r.status = "none" /\ s.status = "pending" /\ s.attempt \in {0, r.attempt}
    \/ /\ r.status \in Blocking /\ s.status \in {"pass", "fail", "cancelled"}
       /\ s.attempt \in {0, r.attempt} /\ (o \in released' \/ Unused(o))
    \/ /\ r.status = "fail" /\ s.status = "pending" /\ KindOf[o] = "restore"
       /\ s.attempt = 1 /\ Touched(o)'
    \/ /\ r.status = "running" /\ s.status = "pending" /\ KindOf[o] # "bootstrap"
       /\ ~ wrote[o] /\ s.attempt < MaxAttempts + deferrals
       /\ o \in released' \/ Unused(o)
    \/ /\ r.status = "running" /\ s.status = "reconciliation_required" /\ kept
       /\ s.attempt <= r.attempt
    \/ /\ r.status = "pending" /\ s.status = "running" /\ s.attempt = r.attempt + 1
       /\ KindOf[o] = "bootstrap" => s.phase = "running"
       /\ Touched(o) => Touched(o)'
       /\ s.owner \in Worker /\ Claims(s.owner, o)
    \/ /\ r.status = "reconciliation_required" /\ s.status = "running" /\ kept
       /\ s.attempt <= MaxAttempts + deferrals
       /\ o \in released' /\ s.owner \in Worker /\ Claims(s.owner, o)
    \/ /\ r.status = "running" /\ s.status = "running"
       /\ s.attempt = r.attempt /\ s.owner = r.owner
       /\ job[r.owner].at = "step" /\ KindOf[o] # "bootstrap"
       /\ r.written => s.written
       /\ Touched(o) => Touched(o)'

(* What a worker may do: be done, go on with its operation, or claim one.  *)
JobMove(w) ==
    \/ job'[w] = job[w]
    \/ job'[w] = Idle
    \/ /\ job[w] # Idle /\ job[w].at # "ended" /\ job'[w] # Idle /\ Working(w)'
       /\ job'[w].op = job[w].op
       /\ Committed(w)' /\ job[w].op \notin released
          => Committed(w) \/ Owns(w, job[w].op)
    \/ /\ Working(w)'
       /\ \E o \in Holders : /\ Claims(w, o)
                             /\ row[o].status = "pending" \/ o \in released'

Move ==
    /\ \A o \in Op : RowMove(o)
    /\ \A w \in Worker : JobMove(w)
    /\ \A v, w \in Worker :
          ~ (job'[v] = job[v] \/ job'[v] = Idle) /\ ~ (job'[w] = job[w] \/ job'[w] = Idle)
          => v = w
    /\ released \subseteq released' /\ deferrals' \in Nat /\ deferrals <= deferrals'
    /\ \A o \in Op : wrote[o] => wrote'[o]
    /\ \A o \in Op : wrote'[o] => \/ wrote[o]
                                  \/ /\ row'[o].status \notin {"none", "pending"}
                                     /\ row'[o].status \in Blocking => Touched(o)'
    /\ \A o \in Op : doubt'[o] => doubt[o] \/ o \in released' \/ Carried(o)'

LEMMA TouchedSame ==
    ASSUME NEW o \in Op, row'[o].phase = row[o].phase, row'[o].written = row[o].written,
           row'[o].marks = row[o].marks
    PROVE  Touched(o)' <=> Touched(o)
BY DEF Touched

LEMMA WorkingStays ==
    ASSUME LaneInv, Move, NEW v \in Worker, job'[v] = job[v]
    PROVE  Working(v)'
<1>1. CASE job[v] = Idle
  BY <1>1 DEF Working
<1>2. CASE job[v] # Idle
  <2>0. TypeOK /\ Working(v)
    BY DEF LaneInv
  <2>1. PICK o \in Op : o = job[v].op
    BY <1>2, <2>0, JobFacts
  <2>2. RowMove(o) /\ row[o].status # "none"
    BY <1>2, <2>0, <2>1 DEF Working, Move
  <2>3. row'[o].status # "none"
    BY <2>2 DEF RowMove, Blocking
  <2>4. KindOf[o] = "bootstrap" => row'[o].status # "pending"
    BY <1>2, <2>0, <2>1, <2>2 DEF Working, RowMove, Blocking
  <2>5. Owns(v, o)' => Owns(v, o)
    <3>1. ~ Claims(v, o)
      BY <1>2 DEF Claims
    <3> QED BY <2>2, <3>1 DEF Owns, RowMove, Blocking
  <2>6. Owns(v, o)' => /\ row[o].written => row'[o].written
                       /\ row'[o].attempt = row[o].attempt
                       /\ job[v].at = "ended" => row'[o].written = row[o].written
    <3>1. ~ Claims(v, o)
      BY <1>2 DEF Claims
    <3> QED BY <2>2, <2>5, <3>1 DEF Owns, RowMove, Blocking
  <2>7. ASSUME Committed(v), o \notin released'
        PROVE  (row'[o].status = "reconciliation_required" \/ Owns(v, o)') /\ Touched(o)'
    <3>1. /\ o \notin released
          /\ row[o].status = "reconciliation_required" \/ Owns(v, o)
          /\ Touched(o)
      BY <1>2, <2>0, <2>1, <2>7 DEF Working, Move
    <3>2. ~ Unused(o)
      BY <2>1, <2>7 DEF Unused
    <3> QED BY <2>2, <2>7, <3>1, <3>2, TouchedSame DEF RowMove, Owns, Blocking
  <2>8. job'[v].op = o /\ released \subseteq released' /\ deferrals <= deferrals'
        /\ (wrote[o] => wrote'[o])
    BY <2>1 DEF Move
  <2>9. row[o].attempt \in Int /\ MaxAttempts \in Int /\ deferrals \in Int /\ deferrals' \in Int
    BY <2>0, RowFacts DEF Move
  <2> QED BY <1>2, <2>0, <2>1, <2>3, <2>4, <2>5, <2>6, <2>7, <2>8, <2>9, SameJob DEF Working
<1> QED BY <1>1, <1>2

(* Whose lease it is: a worker that claims one operation owns no other.    *)
LEMMA OwnerStays ==
    ASSUME LaneInv, Move, NEW o \in Op, row'[o].status = "running"
    PROVE  /\ row'[o].owner \in Worker
           /\ job'[row'[o].owner] = Idle \/ job'[row'[o].owner].op = o
<1>1. RowMove(o) /\ Accounted(o)
  BY DEF LaneInv, Move
<1>2. CASE row[o].status = "running"
  <2>1. row'[o].owner = row[o].owner
    BY <1>1, <1>2 DEF RowMove, Blocking
  <2>2. PICK w \in Worker : w = row[o].owner /\ (job[w] = Idle \/ job[w].op = o)
    BY <1>1, <1>2 DEF Accounted
  <2>3. JobMove(w)
    BY DEF Move
  <2>4. ASSUME NEW p \in Holders, Claims(w, p)
        PROVE  job'[w].op = o
    <3>1. o = p
      BY <1>2, <2>4 DEF LaneInv, OneHolder, Holders, Blocking
    <3> QED BY <2>4, <3>1 DEF Claims
  <2> QED BY <2>1, <2>2, <2>3, <2>4 DEF JobMove
<1>3. CASE row[o].status # "running"
  BY <1>1, <1>3 DEF RowMove, Claims, Blocking
<1> QED BY <1>2, <1>3

LEMMA BudgetBounds ==
    ASSUME NEW x \in Int, NEW d \in Int, NEW c \in Int, NEW e \in {0, 1},
           x > 0, d >= 0, d <= c
    PROVE  /\ x + d + e \in Int /\ x + c + e \in Int /\ x + d + e <= x + c + e
           /\ 0 < x + d + e /\ (e = 1 => 1 < x + d + e)
<1>1. e = 0 \/ e = 1
  OBVIOUS
<1> QED BY <1>1

LEMMA AccountedStays ==
    ASSUME LaneInv, TypeOK', Move, NEW o \in Op
    PROVE  Accounted(o)'
<1>1. RowMove(o) /\ Accounted(o) /\ TypeOK
  BY DEF LaneInv, Move
<1>2. /\ row[o].attempt \in Int /\ MaxAttempts \in Int /\ MaxAttempts > 0
      /\ deferrals \in Int /\ deferrals >= 0 /\ deferrals' \in Int /\ deferrals <= deferrals'
  BY <1>1, RowFacts DEF Move
<1>3. IF row'[o].status \in {"none", "pending"}
      THEN row'[o].attempt < Budget(o)' ELSE row'[o].attempt <= Budget(o)'
  <2>1. row'[o].attempt \in Int
    BY DEF TypeOK, Row
  <2> DEFINE n == row[o].attempt
             m == row'[o].attempt
             e == IF KindOf[o] = "restore" THEN 1 ELSE 0
  <2>2. /\ row[o].status \in {"none", "pending"} => n < MaxAttempts + deferrals + e
        /\ n <= MaxAttempts + deferrals + e
    BY <1>1, <1>2 DEF Accounted, Budget
  <2>3. \/ row'[o].status = row[o].status /\ m = n
        \/ row'[o].status = "pending" /\ m = 0
        \/ row'[o].status \in {"pass", "fail", "cancelled"} /\ m \in {0, n}
        \/ row'[o].status = "pending" /\ m = 1 /\ e = 1
        \/ row[o].status = "none" /\ m = n
        \/ m < MaxAttempts + deferrals
        \/ row'[o].status = "reconciliation_required" /\ m <= n
        \/ row'[o].status = "running" /\ row[o].status = "pending" /\ m = n + 1
        \/ row'[o].status = "running" /\ m <= MaxAttempts + deferrals
    BY <1>1 DEF RowMove, Blocking
  <2>4. m \in Int /\ n \in Int /\ e \in {0, 1}
    BY <1>2, <2>1
  <2>5. Budget(o)' = MaxAttempts + deferrals' + e
    BY DEF Budget
  <2> HIDE DEF n, m, e
  <2> DEFINE a == MaxAttempts + deferrals + e
             b == MaxAttempts + deferrals' + e
  <2>6. a \in Int /\ b \in Int /\ a <= b /\ 0 < a /\ (e = 1 => 1 < a)
    BY <1>2, <2>4, BudgetBounds
  <2>7. (m < MaxAttempts + deferrals => m < a) /\ (m <= MaxAttempts + deferrals => m <= a)
    BY <1>2, <2>4
  <2> HIDE DEF a, b
  <2>8. row'[o].status \in {"none", "pending"} => m < b
    <3>1. m = 0 \/ (m = 1 /\ e = 1) \/ m < a => m < b
      BY <2>4, <2>6
    <3>2. row[o].status \in {"none", "pending"} /\ m = n => m < b
      BY <2>2, <2>4, <2>6 DEF a
    <3>3. ASSUME row'[o].status \in {"none", "pending"}
          PROVE  \/ m = 0 \/ (m = 1 /\ e = 1) \/ m < a
                 \/ row[o].status \in {"none", "pending"} /\ m = n
      BY <2>3, <2>7, <3>3
    <3> QED BY <3>1, <3>2, <3>3
  <2>9. m <= b
    <3>1. \/ m = 0
          \/ m = 1 /\ e = 1
          \/ m <= n
          \/ m <= a
          \/ m < a
          \/ row[o].status = "pending" /\ m = n + 1
      BY <2>3, <2>4, <2>7
    <3>2. m = n + 1 /\ row[o].status = "pending" => m <= a
      BY <2>2, <2>4, <2>6 DEF a
    <3>3. n <= a
      BY <2>2 DEF a
    <3> QED BY <2>4, <2>6, <3>1, <3>2, <3>3
  <2> QED BY <2>5, <2>8, <2>9 DEF m, b
<1>4. row'[o].status \in {"running", "reconciliation_required"} /\ KindOf[o] = "bootstrap"
      => row'[o].phase = "running"
  BY <1>1 DEF Accounted, RowMove, Blocking
<1>5. ASSUME wrote[o]
      PROVE  /\ row'[o].status # "none" /\ (row'[o].status = "pending" => KindOf[o] = "restore")
             /\ row'[o].status \in Blocking => Touched(o)'
  <2>1. /\ row[o].status # "none" /\ (row[o].status = "pending" => KindOf[o] = "restore")
        /\ o \in Holders => Touched(o)
    BY <1>1, <1>5 DEF Accounted
  <2>2. row[o].status \in Blocking => o \in Holders
    BY DEF Holders
  <2> QED BY <1>1, <1>5, <2>1, <2>2, TouchedSame DEF RowMove, Blocking
<1>6. wrote'[o] => /\ row'[o].status # "none"
                   /\ row'[o].status = "pending" => KindOf[o] = "restore"
                   /\ row'[o].status \in Blocking => Touched(o)'
  BY <1>5 DEF Move
<1> QED BY <1>3, <1>4, <1>6, OwnerStays DEF Accounted, Holders

LEMMA DoubtedStays ==
    ASSUME LaneInv, Move, NEW o \in Op
    PROVE  Doubted(o)'
<1> SUFFICES ASSUME doubt[o], o \notin released'
             PROVE  Carried(o)'
  BY DEF Doubted, Move
<1>1. RowMove(o) /\ Accounted(o) /\ o \notin released /\ ~ Unused(o)
  BY DEF LaneInv, Move, Unused
<1>2. Carried(o)
  BY <1>1 DEF LaneInv, Doubted
<1>3. CASE row[o].status = "reconciliation_required"
  BY <1>1, <1>2, <1>3, TouchedSame DEF Carried, RowMove, Blocking
<1>4. CASE row[o].status = "running"
  <2>1. PICK w \in Worker : w = row[o].owner
    BY <1>1, <1>4 DEF Accounted
  <2>2. Touched(o) /\ (job[w] = Idle \/ (Release(o) /\ job[w].at = "ended" /\ job[w].out = "raised"))
    BY <1>2, <1>4, <2>1 DEF Carried
  <2>3. job[w].at # "step"
    BY <2>2 DEF Idle
  <2>4. \/ row'[o].status = "reconciliation_required" /\ Touched(o)'
        \/ row'[o].status = "running" /\ row'[o].owner = w /\ Touched(o)'
    BY <1>1, <1>4, <2>1, <2>2, <2>3, TouchedSame DEF RowMove, Blocking
  <2>5. ASSUME NEW p \in Holders, Claims(w, p), row'[o].status = "running", row'[o].owner = w,
               row[p].status = "pending" \/ p \in released'
        PROVE  FALSE
    <3>1. o = p
      BY <1>4, <2>5 DEF LaneInv, OneHolder, Holders, Blocking
    <3> QED BY <1>4, <2>5, <3>1
  <2>6. JobMove(w)
    BY DEF Move
  <2>7. row'[o].status = "running" /\ row'[o].owner = w
        => job'[w] = job[w] \/ job'[w] = Idle
    BY <2>2, <2>5, <2>6 DEF JobMove
  <2> QED BY <2>1, <2>2, <2>4, <2>7 DEF Carried
<1> QED BY <1>2, <1>3, <1>4 DEF Carried

(* Two workers that are committed to one operation now were so before, or  *)
(* one of them owned the lease that the other would have needed.           *)
LEMMA OneCommittedStays ==
    ASSUME LaneInv, Move
    PROVE  OneCommitted'
<1> SUFFICES ASSUME NEW v \in Worker, NEW w \in Worker, Committed(v)', Committed(w)',
                    job'[v].op = job'[w].op, job'[v].op \notin released', v # w
             PROVE  FALSE
  BY DEF OneCommitted
<1>1. job'[v] # Idle /\ job'[w] # Idle
  BY DEF Committed, Idle
<1>2. ASSUME NEW x \in Worker, NEW y \in Worker, x # y, job'[x] = job[x],
             job'[x] # Idle, job'[y] # Idle, Committed(x)', Committed(y)',
             job'[x].op = job'[y].op, job'[x].op \notin released'
      PROVE  FALSE
  <2>1. PICK o \in Op : o = job[x].op
    BY <1>2, JobFacts DEF LaneInv
  <2>2. Committed(x) /\ o \notin released /\ job'[y].op = o /\ Working(x)
    BY <1>2, <2>1, SameJob DEF Move, LaneInv
  <2>3. row[o].status = "reconciliation_required" \/ Owns(x, o)
    BY <1>2, <2>1, <2>2 DEF Working
  <2>4. ~ Owns(y, o)
    <3>1. Owns(y, o) => row[o].owner = y /\ row[o].status = "running"
      BY DEF Owns
    <3> QED BY <1>2, <2>3, <3>1 DEF Owns
  <2>5. CASE Committed(y) /\ job[y].op = o
    BY <1>2, <2>1, <2>2, <2>5 DEF LaneInv, OneCommitted
  <2>6. CASE ~ (Committed(y) /\ job[y].op = o)
    <3>1. JobMove(y)
      BY DEF Move
    <3>2. job'[y] # job[y]
      BY <1>2, <2>2, <2>6, SameJob
    <3>3. CASE job'[y].op = job[y].op /\ (Committed(y) \/ Owns(y, job[y].op))
      BY <2>2, <2>4, <2>6, <3>3
    <3>4. ASSUME NEW p \in Holders, Claims(y, p), row[p].status = "pending" \/ p \in released'
          PROVE  FALSE
      <4>1. p = o
        BY <2>2, <3>4 DEF Claims
      <4> QED BY <1>2, <2>1, <2>3, <3>4, <4>1 DEF Owns
    <3> QED BY <1>2, <2>2, <3>1, <3>2, <3>3, <3>4 DEF JobMove
  <2> QED BY <2>5, <2>6
<1>3. job'[v] = job[v] \/ job'[w] = job[w]
  BY <1>1 DEF Move
<1> QED BY <1>1, <1>2, <1>3

(* Any step that only does such things, and leaves the lane to one holder, *)
(* keeps the invariant.                                                    *)
LEMMA MoveInv ==
    ASSUME LaneInv, TypeOK', Move, OneHolder', RecoveriesFollow'
    PROVE  LaneInv'
<1>1. ASSUME NEW v \in Worker
      PROVE  Working(v)'
  <2>1. CASE job'[v] = job[v]
    BY <2>1, WorkingStays
  <2>2. CASE job'[v] = Idle
    BY <2>2 DEF Working
  <2>3. CASE ~ (job'[v] = job[v] \/ job'[v] = Idle)
    BY <2>3 DEF Move, JobMove
  <2> QED BY <2>1, <2>2, <2>3
<1> QED BY <1>1, AccountedStays, DoubtedStays, OneCommittedStays DEF LaneInv

-----------------------------------------------------------------------------
(* Facts that the steps need.                                              *)

LEMMA HoldersStay ==
    ASSUME LaneInv, \A o \in Op : row'[o].status \in Blocking => row[o].status \in Blocking,
           sync' = sync
    PROVE  OneHolder'
BY DEF LaneInv, OneHolder, Holders

LEMMA RecoveriesStay ==
    ASSUME LaneInv,
           \A o \in Op : /\ row[o].status = "none" => row'[o].status = "none"
                         /\ row[o].status = "fail" => row'[o].status = "fail"
    PROVE  RecoveriesFollow'
BY DurableAssumption DEF LaneInv, RecoveriesFollow

(* An operation that is not held or running, or whose row shows nothing,   *)
(* is not at an effect.                                                    *)
LEMMA UnusedWhen ==
    ASSUME LaneInv, NEW o \in Op, o \notin released,
           row[o].status \notin {"running", "reconciliation_required"} \/ ~ Touched(o)
    PROVE  Unused(o)
<1>1. ~ doubt[o]
  BY DEF LaneInv, Doubted, Carried
<1>2. ASSUME NEW v \in Worker, Committed(v), job[v].op = o
      PROVE  FALSE
  <2>1. job[v] # Idle /\ Working(v)
    BY <1>2 DEF LaneInv, Committed, Idle
  <2> QED BY <1>2, <2>1 DEF Working, Owns
<1> QED BY <1>1, <1>2 DEF Unused

LEMMA UntouchedIsUnwritten ==
    ASSUME LaneInv, NEW o \in Op, row[o].status \in Blocking, ~ Touched(o)
    PROVE  ~ wrote[o]
BY DEF LaneInv, Accounted, Holders

(* A step of one worker that leaves the rows alone.                        *)
LEMMA JobStep ==
    ASSUME LaneInv, TypeOK', NEW w \in Worker, JobMove(w),
           \A v \in Worker \ {w} : job'[v] = job[v],
           row' = row, sync' = sync, released' = released,
           deferrals' \in Nat, deferrals <= deferrals',
           \A o \in Op : wrote[o] => wrote'[o],
           \A o \in Op : wrote'[o] => \/ wrote[o]
                                      \/ /\ row'[o].status \notin {"none", "pending"}
                                         /\ row'[o].status \in Blocking => Touched(o)',
           \A o \in Op : doubt'[o] => doubt[o] \/ o \in released' \/ Carried(o)'
    PROVE  LaneInv'
<1>1. \A o \in Op : RowMove(o)
  BY DEF RowMove
<1>2. \A v \in Worker : JobMove(v)
  BY DEF JobMove
<1>3. Move
  BY <1>1, <1>2 DEF Move
<1> QED BY <1>3, HoldersStay, RecoveriesStay, MoveInv

(* A step that leaves the workers alone.                                   *)
LEMMA RowStep ==
    ASSUME LaneInv, TypeOK', \A o \in Op : RowMove(o), OneHolder', RecoveriesFollow',
           UNCHANGED <<job, deferrals, wrote, doubt>>, released \subseteq released'
    PROVE  LaneInv'
<1>1. deferrals' \in Nat /\ deferrals <= deferrals'
  BY DurableAssumption DEF LaneInv, TypeOK
<1> QED BY <1>1, MoveInv DEF Move, JobMove

-----------------------------------------------------------------------------
(* The ends of a run's steps.                                              *)

LEMMA EndedJob ==
    ASSUME NEW j \in Work, NEW out \in Outcome
    PROVE  LET e == [j EXCEPT !.at = "ended", !.out = out, !.step = 1,
                              !.lost = FALSE, !.began = FALSE]
           IN  /\ e \in Work /\ e.at = "ended" /\ e.out = out
               /\ e.op = j.op /\ e.resumes = j.resumes /\ e.replays = j.replays
<1> DEFINE a == [j EXCEPT !.at = "ended", !.out = out]
           b == [a EXCEPT !.step = 1]
           e == [b EXCEPT !.lost = FALSE, !.began = FALSE]
<1>1. /\ a \in Work /\ a.at = "ended" /\ a.out = out
      /\ a.op = j.op /\ a.resumes = j.resumes /\ a.replays = j.replays
  BY DEF Work
<1> HIDE DEF a
<1>2. /\ b \in Work /\ b.at = a.at /\ b.out = a.out
      /\ b.op = a.op /\ b.resumes = a.resumes /\ b.replays = a.replays
  BY <1>1 DEF Work
<1> HIDE DEF b
<1>3. /\ e \in Work /\ e.at = b.at /\ e.out = b.out
      /\ e.op = b.op /\ e.resumes = b.resumes /\ e.replays = b.replays
  BY <1>2 DEF Work
<1> QED BY <1>1, <1>2, <1>3 DEF a, b

LEMMA EndStep ==
    ASSUME TypeOK, NEW w \in Worker, job[w] # Idle, NEW out \in Outcome, End(w, out)
    PROVE  /\ job' \in [Worker -> Job] /\ job'[w] # Idle
           /\ job'[w].at = "ended" /\ job'[w].out = out
           /\ job'[w].op = job[w].op /\ job'[w].resumes = job[w].resumes
           /\ job'[w].replays = job[w].replays
           /\ \A v \in Worker \ {w} : job'[v] = job[v]
<1> DEFINE j == [job[w] EXCEPT !.at = "ended", !.out = out, !.step = 1,
                               !.lost = FALSE, !.began = FALSE]
<1>1. job[w] \in Work
  BY JobFacts
<1>3. /\ j \in Work /\ j.at = "ended" /\ j.out = out
      /\ j.op = job[w].op /\ j.resumes = job[w].resumes /\ j.replays = job[w].replays
  BY <1>1, EndedJob
<1>4. job' = [job EXCEPT ![w] = j]
  BY DEF End
<1> HIDE DEF j
<1>5. j \in Job /\ j # Idle
  BY <1>3 DEF Job, Work, Idle
<1>6. job' \in [Worker -> Job] /\ job'[w] = j /\ \A v \in Worker \ {w} : job'[v] = job[v]
  BY <1>4, <1>5 DEF TypeOK
<1> QED BY <1>3, <1>5, <1>6

(* A run that ends leaves an operation of which the same holds.            *)
LEMMA EndMove ==
    ASSUME LaneInv, NEW w \in Worker, job[w] # Idle, job[w].at # "ended",
           NEW out \in Outcome, End(w, out), row' = row, released' = released,
           out = "unverified" => KindOf[job[w].op] = "restore",
           out \in {"held", "unordered"} =>
              /\ ~ job[w].resumes
              /\ Owns(w, job[w].op) => row[job[w].op].attempt < MaxAttempts + deferrals'
              /\ Owns(w, job[w].op) /\ out = "held" => ~ row[job[w].op].written
    PROVE  JobMove(w)
<1>1. TypeOK /\ Working(w)
  BY DEF LaneInv
<1>2. PICK o \in Op : o = job[w].op
  BY <1>1, JobFacts
<1>3. /\ job'[w] # Idle /\ job'[w].at = "ended" /\ job'[w].out = out
      /\ job'[w].op = o /\ job'[w].resumes = job[w].resumes
  BY <1>1, <1>2, EndStep
<1>4. ~ Committed(w)'
  BY <1>3 DEF Committed
<1>5. Owns(w, o)' <=> Owns(w, o)
  BY DEF Owns
<1>6. /\ row[o].status # "none"
      /\ KindOf[o] = "bootstrap" => row[o].status # "pending"
      /\ job[w].resumes => o \in released /\ Release(o) /\ (Owns(w, o) => row[o].written)
  BY <1>1, <1>2 DEF Working
<1>7. Working(w)'
  BY <1>2, <1>3, <1>4, <1>5, <1>6 DEF Working
<1> QED BY <1>2, <1>3, <1>4, <1>7 DEF JobMove

-----------------------------------------------------------------------------
(* A step that is admitted.                                                *)

LEMMA ProceedStep ==
    ASSUME TypeOK, NEW w \in Worker, AtStep(w), Proceed(w)
    PROVE  /\ job' \in [Worker -> Job] /\ job'[w] # Idle
           /\ job'[w].op = job[w].op /\ job'[w].resumes = job[w].resumes
           /\ job'[w].replays = job[w].replays /\ job'[w].out = job[w].out
           /\ This(w).effect # "none" => job'[w].at = "effect" /\ job'[w].step = job[w].step
           /\ This(w).effect = "none" =>
                /\ job'[w].at = "step" /\ job'[w].step = job[w].step + 1
                /\ job[w].step + 1 \in 1..Len(Steps(w))
           /\ \A v \in Worker \ {w} : job'[v] = job[v]
           /\ wrote' \in [Op -> BOOLEAN]
           /\ \A o \in Op : wrote[o] => wrote'[o]
           /\ \A o \in Op : wrote'[o] /\ ~ wrote[o] => o = job[w].op /\ This(w).effect = "prod"
           /\ This(w).effect = "prod" => wrote'[job[w].op]
<1> DEFINE n == job[w].step + 1
           c == job[w].began \/ This(w).effect # "read"
           j == IF This(w).effect = "none" THEN [job[w] EXCEPT !.step = n]
                ELSE [job[w] EXCEPT !.at = "effect", !.began = c]
           b == wrote[job[w].op] \/ This(w).effect = "prod"
<1>1. job[w] # Idle
  BY DEF AtStep, Idle
<1>2. job[w] \in Work /\ job[w].op \in Op
  BY <1>1, JobFacts
<1>3. This(w).effect = "none" => n \in 1..Len(Steps(w)) /\ n \in 1..5
  <2> DEFINE l == Len(Steps(w))
  <2>1. l \in 2..5 /\ Steps(w)[l].effect # "none"
    BY <1>1, StepFacts
  <2>2. job[w].step <= l /\ job[w].step \in 1..5
    BY <1>1, JobFacts DEF AtStep
  <2>3. This(w).effect = "none" => job[w].step # l
    BY <2>1 DEF This
  <2> HIDE DEF l
  <2>4. This(w).effect = "none" => n \in 1..l /\ n \in 1..5
    BY <2>1, <2>2, <2>3
  <2> QED BY <2>4 DEF l
<1>4. job' = [job EXCEPT ![w] = j]
  BY DEF Proceed, c
<1>5. wrote' = [wrote EXCEPT ![job[w].op] = b] /\ b \in BOOLEAN
  BY DEF Proceed
<1>13. c \in BOOLEAN
  OBVIOUS
<1> HIDE DEF n, b, c
<1>6. /\ j \in Work /\ j.op = job[w].op /\ j.resumes = job[w].resumes /\ j.out = job[w].out
      /\ j.replays = job[w].replays /\ j.at # "idle"
      /\ This(w).effect # "none" => j.at = "effect" /\ j.step = job[w].step
      /\ This(w).effect = "none" => j.at = job[w].at /\ j.step = n
  <2>1. CASE This(w).effect = "none"
    BY <1>2, <1>3, <2>1 DEF Work, AtStep
  <2>2. CASE This(w).effect # "none"
    BY <1>2, <1>13, <2>2 DEF Work
  <2> QED BY <2>1, <2>2
<1> HIDE DEF j
<1>7. j \in Job /\ j # Idle
  BY <1>6 DEF Job, Work, Idle
<1>8. job' \in [Worker -> Job] /\ job'[w] = j /\ \A v \in Worker \ {w} : job'[v] = job[v]
  BY <1>4, <1>7 DEF TypeOK
<1>9. /\ wrote' \in [Op -> BOOLEAN]
      /\ \A o \in Op : o # job[w].op => wrote'[o] = wrote[o]
      /\ wrote'[job[w].op] <=> wrote[job[w].op] \/ This(w).effect = "prod"
  BY <1>2, <1>5 DEF TypeOK, b
<1>10. \A o \in Op : wrote[o] => wrote'[o]
  <2> SUFFICES ASSUME NEW o \in Op, wrote[o]
               PROVE  wrote'[o]
    OBVIOUS
  <2>1. CASE o = job[w].op
    BY <1>9, <2>1
  <2>2. CASE o # job[w].op
    BY <1>9, <2>2
  <2> QED BY <2>1, <2>2
<1>11. \A o \in Op : wrote'[o] /\ ~ wrote[o] => o = job[w].op /\ This(w).effect = "prod"
  <2> SUFFICES ASSUME NEW o \in Op, wrote'[o], ~ wrote[o]
               PROVE  o = job[w].op /\ This(w).effect = "prod"
    OBVIOUS
  <2>1. CASE o = job[w].op
    BY <1>9, <2>1
  <2>2. CASE o # job[w].op
    BY <1>9, <2>2
  <2> QED BY <2>1, <2>2
<1>12. job[w].at = "step"
  BY DEF AtStep
<1> QED BY <1>3, <1>6, <1>7, <1>8, <1>9, <1>10, <1>11, <1>12 DEF n

(* The state of a worker's run after a step of it.                         *)
LEMMA SameSteps ==
    ASSUME NEW w \in Worker, job'[w].op = job[w].op, job'[w].resumes = job[w].resumes,
           job'[w].replays = job[w].replays
    PROVE  Steps(w)' = Steps(w)
BY DEF Steps

LEMMA UnrecordedInv ==
    ASSUME LaneInv, NEW w \in Worker, Unrecorded(w)
    PROVE  LaneInv'
<1>1. TypeOK /\ Working(w) /\ AtStep(w) /\ Proceed(w) /\ job[w] # Idle
  BY DEF LaneInv, Unrecorded, AtStep, Idle
<1>2. PICK o \in Op : o = job[w].op
  BY <1>1, JobFacts
<1>3. This(w).by \in {"none", "flag", "row"} /\ (This(w).by = "row" => Owns(w, o))
  BY <1>2 DEF Unrecorded, LeaseIsCurrent, Owns
<1>4. StepOf(This(w), KindOf[o], job[w].resumes)
  <2>1. job[w].step \in 1..Len(Steps(w))
    BY <1>1, JobFacts, StepFacts DEF AtStep
  <2> QED BY <1>1, <1>2, <2>1, StepFacts DEF This
<1> DEFINE prod == This(w).effect = "prod"
<1>5. This(w).effect \in {"prod", "read"} /\ This(w).effect # "none"
  BY <1>3, <1>4 DEF StepOf
<1>6. /\ job'[w] # Idle /\ job'[w].op = o /\ job'[w].resumes = job[w].resumes
      /\ job'[w].replays = job[w].replays
      /\ job'[w].at = "effect" /\ job'[w].step = job[w].step /\ job'[w].out = job[w].out
      /\ prod => wrote'[o]
  BY <1>1, <1>2, <1>5, ProceedStep
<1>7. Steps(w)' = Steps(w) /\ This(w)' = This(w)
  BY <1>2, <1>6, SameSteps DEF This
<1>8. ~ job[w].resumes /\ prod => Committed(w)
  BY <1>1, <1>2, <1>3, <1>4 DEF Committed, AtStep, StepOf
<1>9. UNCHANGED <<row, sync, admission, deferrals, interrupts, doubt, released>>
  BY DEF Unrecorded
<1>16. Committed(w)' => ~ job[w].resumes /\ prod
  BY <1>3, <1>4, <1>6, <1>7 DEF Committed, AtEffect, AtStep, StepOf
<1>10. Working(w)'
  <2>1. /\ row[o].status # "none" /\ job[w].step <= Len(Steps(w)) /\ job[w].out = "pass"
        /\ KindOf[o] = "bootstrap" => row[o].status # "pending"
        /\ job[w].resumes => o \in released /\ Release(o) /\ (Owns(w, o) => row[o].written)
    BY <1>1, <1>2 DEF Working, AtStep
  <2>2. ~ job[w].resumes /\ prod /\ o \notin released =>
           /\ row[o].status = "reconciliation_required" \/ Owns(w, o)
           /\ Touched(o)
    BY <1>1, <1>2, <1>8 DEF Working
  <2>3. (Owns(w, o)' <=> Owns(w, o)) /\ (Touched(o)' <=> Touched(o))
    BY <1>9 DEF Owns, Touched
  <2> QED BY <1>5, <1>6, <1>7, <1>9, <1>16, <2>1, <2>2, <2>3 DEF Working
<1>11. JobMove(w)
  BY <1>1, <1>2, <1>6, <1>8, <1>10, <1>16 DEF JobMove, AtStep
<1>12. \/ ~ prod
       \/ row[o].status \notin {"none", "pending"} /\ (row[o].status \in Blocking => Touched(o))
       \/ wrote[o]
  <2>1. CASE This(w).by = "none"
    BY <1>1, <1>2, <1>4, <2>1 DEF Working, LaneInv, Accounted, StepOf, Touched, Blocking
  <2>2. CASE This(w).by = "flag"
    <3>1. Committed(w) /\ Release(o)
      BY <1>4, <1>8, <2>2 DEF StepOf, Release
    <3> QED BY <1>1, <1>2, <3>1 DEF Working
  <2>3. CASE This(w).by = "row"
    <3>1. Owns(w, o) /\ row[o].written /\ Release(o)
      BY <1>1, <1>2, <1>3, <1>4, <2>3 DEF Working, StepOf
    <3> QED BY <3>1 DEF Owns, Touched, Release
  <2> QED BY <1>3, <2>1, <2>2, <2>3
<1>13. TypeOK' /\ deferrals' \in Nat
  BY <1>1, <1>9, ProceedStep, DurableAssumption DEF TypeOK
<1>14. \A p \in Op : wrote'[p] => \/ wrote[p]
                                  \/ /\ row'[p].status \notin {"none", "pending"}
                                     /\ row'[p].status \in Blocking => Touched(p)'
  <2>1. \A p \in Op : Touched(p)' <=> Touched(p)
    BY <1>9 DEF Touched
  <2>2. \A p \in Op : wrote'[p] => wrote[p] \/ (p = o /\ prod)
    BY <1>1, <1>2, ProceedStep
  <2> QED BY <1>9, <1>12, <2>1, <2>2
<1> QED BY <1>1, <1>9, <1>11, <1>13, <1>14, ProceedStep, JobStep DEF TypeOK

-----------------------------------------------------------------------------
(* Runs that stop.                                                         *)

LEMMA EndInv ==
    ASSUME LaneInv, NEW w \in Worker, job[w].at \in {"step", "effect"},
           NEW out \in Outcome, End(w, out),
           out = "unverified" => KindOf[job[w].op] = "restore",
           UNCHANGED <<row, sync, admission, interrupts, wrote, released>>,
           deferrals' \in 0..MaxDeferrals, deferrals <= deferrals',
           doubt' \in [Op -> BOOLEAN],
           \A o \in Op : doubt'[o] => doubt[o] \/ o \in released' \/ Carried(o)',
           out \in {"held", "unordered"} =>
              /\ ~ job[w].resumes
              /\ Owns(w, job[w].op) => row[job[w].op].attempt < MaxAttempts + deferrals'
              /\ Owns(w, job[w].op) /\ out = "held" => ~ row[job[w].op].written
    PROVE  LaneInv'
<1>1. job[w] # Idle /\ job[w].at # "ended"
  BY DEF Idle
<1>2. TypeOK
  BY DEF LaneInv
<1>3. JobMove(w)
  BY <1>1, EndMove
<1>4. job' \in [Worker -> Job] /\ \A v \in Worker \ {w} : job'[v] = job[v]
  BY <1>1, <1>2, EndStep
<1>5. TypeOK' /\ deferrals' \in Nat
  BY <1>2, <1>4, DurableAssumption DEF TypeOK
<1>6. \A o \in Op : (wrote[o] => wrote'[o]) /\ (wrote'[o] => wrote[o])
  OBVIOUS
<1> QED BY <1>3, <1>4, <1>5, <1>6, JobStep

LEMMA LeaseLostInv ==
    ASSUME LaneInv, NEW w \in Worker, LeaseLost(w)
    PROVE  LaneInv'
<1>1. job[w].at \in {"step", "effect"} /\ End(w, "raised")
  BY DEF LeaseLost, AtStep
<1>2. "raised" \in Outcome
  BY DEF Outcome
<1>3. UNCHANGED <<row, sync, admission, deferrals, interrupts, wrote, doubt, released>>
  BY DEF LeaseLost, history
<1>4. deferrals \in 0..MaxDeferrals /\ doubt \in [Op -> BOOLEAN]
  BY DEF LaneInv, TypeOK
<1>5. deferrals <= deferrals'
  BY <1>3, <1>4, DurableAssumption
<1> QED BY <1>1, <1>2, <1>3, <1>4, <1>5, EndInv

LEMMA DeniedInv ==
    ASSUME LaneInv, NEW w \in Worker, Denied(w)
    PROVE  LaneInv'
<1>1. job[w].at \in {"step", "effect"} /\ End(w, "denied")
  BY DEF Denied, AtStep
<1>2. "denied" \in Outcome
  BY DEF Outcome
<1>3. UNCHANGED <<row, sync, admission, deferrals, interrupts, wrote, doubt, released>>
  BY DEF Denied, history
<1>4. deferrals \in 0..MaxDeferrals /\ doubt \in [Op -> BOOLEAN]
  BY DEF LaneInv, TypeOK
<1>5. deferrals <= deferrals'
  BY <1>3, <1>4, DurableAssumption
<1> QED BY <1>1, <1>2, <1>3, <1>4, <1>5, EndInv

(* Each run that is put off makes room for the attempt it gives up.        *)
LEMMA DeferredInv ==
    ASSUME LaneInv, NEW w \in Worker, Deferred(w)
    PROVE  LaneInv'
<1>1. job[w].at \in {"step", "effect"} /\ ~ job[w].resumes /\ job[w] # Idle
  BY DEF Deferred, AtStep, Idle
<1>2. PICK o \in Op : o = job[w].op
  BY <1>1, JobFacts DEF LaneInv
<1>3. UNCHANGED <<row, sync, admission, interrupts, wrote, doubt, released>>
  BY DEF Deferred, history
<1>4. deferrals \in 0..MaxDeferrals /\ doubt \in [Op -> BOOLEAN]
  BY DEF LaneInv, TypeOK
<1>5. deferrals' = deferrals + 1 /\ deferrals < MaxDeferrals
  BY DEF Deferred
<1>6. deferrals' \in 0..MaxDeferrals /\ deferrals <= deferrals'
  BY <1>4, <1>5, DurableAssumption
<1>7. row[o].attempt < MaxAttempts + deferrals'
  <2>1. row[o].attempt <= MaxAttempts + deferrals
    <3>1. Accounted(o)
      BY DEF LaneInv
    <3>2. row[o].attempt \in Int /\ MaxAttempts + deferrals \in Int
      BY RowFacts DEF LaneInv
    <3>3. Budget(o) = MaxAttempts + deferrals
      BY <1>2, BudgetFacts DEF LaneInv, Deferred, Release
    <3> QED BY <3>1, <3>2, <3>3 DEF Accounted
  <2>2. row[o].attempt \in Int /\ MaxAttempts \in Int /\ deferrals \in Int
    BY RowFacts DEF LaneInv
  <2> QED BY <1>5, <2>1, <2>2
<1>8. CASE End(w, "held") /\ ~ row[o].written
  <2>1. "held" \in Outcome
    BY DEF Outcome
  <2> QED BY <1>1, <1>2, <1>3, <1>4, <1>6, <1>7, <1>8, <2>1, EndInv
<1>9. CASE End(w, "unordered")
  <2>1. "unordered" \in Outcome
    BY DEF Outcome
  <2> QED BY <1>1, <1>2, <1>3, <1>4, <1>6, <1>7, <1>9, <2>1, EndInv
<1> QED BY <1>2, <1>8, <1>9 DEF Deferred

LEMMA DoubtLess ==
    ASSUME TypeOK, NEW w \in Worker, job[w] # Idle,
           doubt' = IF job[w].resumes THEN [doubt EXCEPT ![job[w].op] = FALSE] ELSE doubt
    PROVE  doubt' \in [Op -> BOOLEAN] /\ \A o \in Op : doubt'[o] => doubt[o]
<1>1. doubt \in [Op -> BOOLEAN]
  BY DEF TypeOK
<1>2. CASE job[w].resumes
  <2>1. doubt' = [doubt EXCEPT ![job[w].op] = FALSE]
    BY <1>2
  <2>2. doubt' \in [Op -> BOOLEAN]
    BY <1>1, <2>1
  <2>3. ASSUME NEW o \in Op, doubt'[o]
        PROVE  doubt[o]
    BY <1>1, <2>1, <2>3
  <2> QED BY <2>2, <2>3
<1>3. CASE ~ job[w].resumes
  BY <1>1, <1>3
<1> QED BY <1>2, <1>3

LEMMA EffectFailsInv ==
    ASSUME LaneInv, NEW w \in Worker, EffectFails(w)
    PROVE  LaneInv'
<1>1. job[w].at \in {"step", "effect"} /\ job[w] # Idle
  BY DEF EffectFails, Idle
<1>7. This(w).effect = "verify" => KindOf[job[w].op] = "restore"
  <2>1. Working(w) /\ job[w].at = "effect" /\ TypeOK
    BY DEF LaneInv, EffectFails
  <2>2. job[w].step \in 1..Len(Steps(w))
    BY <1>1, <2>1, JobFacts, StepFacts DEF Working
  <2> QED BY <1>1, <2>1, <2>2, StepFacts DEF This, StepOf
<1>2. PICK out \in Outcome : /\ End(w, out) /\ out \notin {"held", "unordered"}
                             /\ out = "unverified" => KindOf[job[w].op] = "restore"
  BY <1>7 DEF EffectFails, Outcome
<1>3. UNCHANGED <<row, sync, admission, deferrals, interrupts, wrote, released>>
  BY DEF EffectFails
<1>4. deferrals \in 0..MaxDeferrals /\ TypeOK
  BY DEF LaneInv, TypeOK
<1>5. deferrals <= deferrals'
  BY <1>3, <1>4, DurableAssumption
<1>6. doubt' \in [Op -> BOOLEAN] /\ \A o \in Op : doubt'[o] => doubt[o]
  <2>1. doubt' = IF job[w].resumes THEN [doubt EXCEPT ![job[w].op] = FALSE] ELSE doubt
    BY DEF EffectFails
  <2> QED BY <1>1, <1>4, <2>1, DoubtLess
<1> QED BY <1>1, <1>2, <1>3, <1>4, <1>5, <1>6, EndInv

(* An effect nobody will see the end of: its operation is held, or runs    *)
(* under the lease of this very worker.                                    *)
LEMMA AbandonedIsCarried ==
    ASSUME LaneInv, NEW w \in Worker, NEW o \in Op, AtEffect(w), job[w].op = o,
           row' = row, o \notin released,
           job'[w] = Idle \/ (Release(o) /\ job'[w].at = "ended" /\ job'[w].out = "raised")
    PROVE  Carried(o)'
<1>1. job[w] # Idle /\ Working(w)
  BY DEF AtEffect, Idle, LaneInv
<1>2. ~ job[w].resumes /\ Committed(w)
  BY <1>1 DEF Working, Committed, AtEffect
<1>3. Touched(o) /\ (row[o].status = "reconciliation_required" \/ Owns(w, o))
  BY <1>1, <1>2 DEF Working
<1>4. Touched(o)'
  BY <1>3 DEF Touched
<1> QED BY <1>3, <1>4 DEF Carried, Owns, Release

LEMMA EffectUncertainInv ==
    ASSUME LaneInv, NEW w \in Worker, EffectUncertain(w)
    PROVE  LaneInv'
<1>1. job[w].at \in {"step", "effect"} /\ job[w] # Idle /\ End(w, "raised")
  <2>1. job[w].at = "effect"
    BY DEF EffectUncertain
  <2>2. End(w, "raised")
    BY DEF EffectUncertain
  <2>3. job[w] # Idle
    BY <2>1 DEF Idle
  <2> QED BY <2>1, <2>2, <2>3
<1>2. "raised" \in Outcome
  BY DEF Outcome
<1>3. UNCHANGED <<row, sync, admission, deferrals, interrupts, wrote, released>>
  BY DEF EffectUncertain
<1>4. deferrals \in 0..MaxDeferrals /\ TypeOK
  BY DEF LaneInv, TypeOK
<1>5. deferrals <= deferrals'
  BY <1>3, <1>4, DurableAssumption
<1>6. PICK o \in Op : o = job[w].op
  BY <1>1, <1>4, JobFacts
<1> DEFINE b == doubt[o] \/ (Release(o) /\ This(w).effect = "prod")
<1>7. doubt \in [Op -> BOOLEAN] /\ doubt' = [doubt EXCEPT ![o] = b]
  BY <1>4, <1>6 DEF EffectUncertain, TypeOK
<1>8. b \in BOOLEAN
  <2>1. doubt[o] \in BOOLEAN
    BY <1>7
  <2> QED BY <2>1
<1>9. b => doubt[o] \/ o \in released' \/ Carried(o)'
  <2> SUFFICES ASSUME Release(o), This(w).effect = "prod", o \notin released
               PROVE  Carried(o)'
    BY <1>3
  <2>1. AtEffect(w)
    BY DEF AtEffect, EffectUncertain
  <2>2. job'[w].at = "ended" /\ job'[w].out = "raised"
    BY <1>1, <1>2, <1>4, EndStep
  <2> QED BY <1>3, <1>6, <2>1, <2>2, AbandonedIsCarried
<1> HIDE DEF b
<1>10. doubt' \in [Op -> BOOLEAN]
  BY <1>7, <1>8
<1>11. ASSUME NEW p \in Op, doubt'[p]
       PROVE  doubt[p] \/ p \in released' \/ Carried(p)'
  <2>1. CASE p = o
    BY <1>7, <1>9, <1>11, <2>1
  <2>2. CASE p # o
    BY <1>7, <1>11, <2>2
  <2> QED BY <2>1, <2>2
<1> QED BY <1>1, <1>2, <1>3, <1>4, <1>5, <1>10, <1>11, EndInv

LEMMA HeartbeatLostInv ==
    ASSUME LaneInv, NEW w \in Worker, HeartbeatLost(w)
    PROVE  LaneInv'
<1>1. job[w] # Idle /\ job[w].at # "ended" /\ job[w].at \in {"step", "effect"}
  BY DEF HeartbeatLost, Idle
<1>2. TypeOK /\ Working(w)
  BY DEF LaneInv
<1>3. PICK o \in Op : o = job[w].op
  BY <1>1, <1>2, JobFacts
<1> DEFINE j == [job[w] EXCEPT !.lost = TRUE]
<1>4. job[w] \in Work /\ job' = [job EXCEPT ![w] = j]
  BY <1>1, <1>2, JobFacts DEF HeartbeatLost
<1>5. /\ j \in Work /\ j.op = job[w].op /\ j.resumes = job[w].resumes /\ j.out = job[w].out
      /\ j.replays = job[w].replays /\ j.at = job[w].at /\ j.step = job[w].step
  BY <1>4 DEF Work
<1> HIDE DEF j
<1>6. j \in Job /\ j # Idle
  BY <1>5 DEF Job, Work, Idle
<1>7. job' \in [Worker -> Job] /\ job'[w] = j /\ \A v \in Worker \ {w} : job'[v] = job[v]
  BY <1>2, <1>4, <1>6 DEF TypeOK
<1>8. UNCHANGED <<row, sync, admission, deferrals, interrupts, wrote, doubt, released>>
  BY DEF HeartbeatLost, history
<1>9. Steps(w)' = Steps(w)
  BY <1>5, <1>7, SameSteps
<1>10. This(w)' = This(w) /\ (AtStep(w)' <=> AtStep(w)) /\ (AtEffect(w)' <=> AtEffect(w))
  BY <1>5, <1>7, <1>9 DEF This, AtStep, AtEffect
<1>11. Committed(w)' <=> Committed(w)
  BY <1>5, <1>7, <1>10 DEF Committed
<1>12. (Owns(w, o)' <=> Owns(w, o)) /\ (Touched(o)' <=> Touched(o))
  BY <1>8 DEF Owns, Touched
<1>13. job'[w].op = o /\ job'[w] # Idle
  BY <1>3, <1>5, <1>6, <1>7
<1>14. Working(w)'
  BY <1>1, <1>2, <1>3, <1>5, <1>7, <1>8, <1>9, <1>10, <1>11, <1>12, <1>13 DEF Working
<1>15. JobMove(w)
  BY <1>1, <1>3, <1>11, <1>13, <1>14 DEF JobMove
<1>16. TypeOK' /\ deferrals' \in Nat /\ deferrals <= deferrals'
  BY <1>2, <1>7, <1>8, DurableAssumption DEF TypeOK
<1> QED BY <1>7, <1>8, <1>15, <1>16, JobStep

(* The next effect of a run is entered without the lease only when this    *)
(* one was an effect on production.                                        *)
LEMMA EffectDoneInv ==
    ASSUME LaneInv, NEW w \in Worker, EffectDone(w)
    PROVE  LaneInv'
<1>1. job[w] # Idle /\ job[w].at = "effect"
  <2>1. job[w].at = "effect"
    BY DEF EffectDone
  <2> QED BY <2>1 DEF Idle
<1>2. TypeOK /\ Working(w)
  BY DEF LaneInv
<1>3. PICK o \in Op : o = job[w].op
  BY <1>1, <1>2, JobFacts
<1> DEFINE l == Len(Steps(w))
           n == job[w].step + 1
           last == job[w].step = l
           e == [job[w] EXCEPT !.at = "ended", !.out = job[w].out, !.step = 1,
                               !.lost = FALSE, !.began = FALSE]
           j == IF last THEN e
                ELSE [job[w] EXCEPT !.at = "step", !.step = n]
<1>4. job[w] \in Work /\ job' = [job EXCEPT ![w] = j]
  BY <1>1, <1>2, JobFacts DEF EffectDone, End
<1>5. /\ job[w].step \in 1..5 /\ l \in 2..5 /\ job[w].step <= l /\ job[w].out = "pass"
      /\ Steps(w)[job[w].step].effect # "none"
  BY <1>1, <1>2, JobFacts, StepFacts DEF Working, This
<1> HIDE DEF l
<1>6. ~ last => n \in 1..l /\ n \in 1..5
  BY <1>5
<1> HIDE DEF n, last
<1>7. /\ j \in Work /\ j.op = o /\ j.resumes = job[w].resumes /\ j.out = "pass"
      /\ j.replays = job[w].replays
      /\ last => j.at = "ended"
      /\ ~ last => j.at = "step" /\ j.step = n
  <2>1. CASE last
    <3>1. job[w].out \in Outcome
      BY <1>4 DEF Work
    <3>2. /\ e \in Work /\ e.at = "ended" /\ e.out = job[w].out
          /\ e.op = job[w].op /\ e.resumes = job[w].resumes /\ e.replays = job[w].replays
      BY <1>4, <3>1, EndedJob
    <3> HIDE DEF e
    <3> QED BY <1>3, <1>5, <2>1, <3>2
  <2>2. CASE ~ last
    BY <1>3, <1>4, <1>5, <1>6, <2>2 DEF Work
  <2> QED BY <2>1, <2>2
<1> HIDE DEF j
<1>8. j \in Job /\ j # Idle
  BY <1>7 DEF Job, Work, Idle
<1>9. job' \in [Worker -> Job] /\ job'[w] = j /\ \A v \in Worker \ {w} : job'[v] = job[v]
  BY <1>2, <1>4, <1>8 DEF TypeOK
<1>10. UNCHANGED <<row, sync, admission, deferrals, interrupts, wrote, released>>
  BY DEF EffectDone
<1>11. doubt' \in [Op -> BOOLEAN] /\ \A p \in Op : doubt'[p] => doubt[p]
  <2>1. doubt' = IF job[w].resumes THEN [doubt EXCEPT ![job[w].op] = FALSE] ELSE doubt
    BY DEF EffectDone
  <2> QED BY <1>1, <1>2, <2>1, DoubtLess
<1>12. Steps(w)' = Steps(w)
  BY <1>3, <1>7, <1>9, SameSteps
<1>13. ~ last => job'[w].step <= Len(Steps(w)')
  BY <1>6, <1>7, <1>9, <1>12 DEF l
<1>14. Committed(w)' => Committed(w)
  <2> SUFFICES ASSUME Committed(w)'
               PROVE  Committed(w)
    OBVIOUS
  <2>1. ~ last /\ ~ job[w].resumes
    BY <1>7, <1>9 DEF Committed
  <2>2. CASE KindOf[o] = "bootstrap"
    BY <1>1, <1>3, <2>1, <2>2 DEF Committed
  <2>3. CASE KindOf[o] # "bootstrap"
    <3>1. Steps(w)[n].by = "flag"
      BY <1>7, <1>9, <1>12, <2>1, <2>3 DEF Committed, AtEffect, This
    <3>2. Steps(w)[job[w].step].effect = "prod"
      <4>1. job[w].step \in 1..(Len(Steps(w)) - 1)
        BY <1>5, <1>6, <2>1 DEF l, n
      <4> QED BY <1>1, <1>2, <3>1, <4>1, StepFacts DEF n
    <3> QED BY <1>1, <2>1, <3>2 DEF Committed, AtEffect, This
  <2> QED BY <2>2, <2>3
<1>15. (Owns(w, o)' <=> Owns(w, o)) /\ (Touched(o)' <=> Touched(o))
  BY <1>10 DEF Owns, Touched
<1>16. Working(w)'
  <2>1. /\ row[o].status # "none"
        /\ KindOf[o] = "bootstrap" => row[o].status # "pending"
        /\ job[w].resumes => o \in released /\ Release(o) /\ (Owns(w, o) => row[o].written)
        /\ Committed(w) =>
             /\ Release(o) => wrote[o]
             /\ o \notin released =>
                  /\ row[o].status = "reconciliation_required" \/ Owns(w, o)
                  /\ Touched(o)
    BY <1>1, <1>2, <1>3 DEF Working
  <2>2. job'[w] = j /\ j.at # "effect" /\ (j.at # "ended" => ~ last)
    BY <1>7, <1>9
  <2> QED BY <1>7, <1>9, <1>10, <1>13, <1>14, <1>15, <2>1, <2>2 DEF Working
<1>17. JobMove(w)
  BY <1>1, <1>3, <1>7, <1>8, <1>9, <1>14, <1>16 DEF JobMove
<1>18. TypeOK' /\ deferrals' \in Nat /\ deferrals <= deferrals'
  BY <1>2, <1>9, <1>10, <1>11, DurableAssumption DEF TypeOK
<1>19. \A p \in Op : wrote'[p] => wrote[p]
  BY <1>10
<1> QED BY <1>9, <1>10, <1>11, <1>17, <1>18, <1>19, JobStep

(* What the crashed workers leave behind.                                  *)
LEMMA DoubtLeft ==
    ASSUME LaneInv, NEW W \in SUBSET Worker, LeavesDoubt(W), row' = row,
           \A w \in W : job'[w] = Idle
    PROVE  /\ doubt' \in [Op -> BOOLEAN]
           /\ \A o \in Op : doubt'[o] => doubt[o] \/ o \in released \/ Carried(o)'
<1> DEFINE b(o) == \/ doubt[o]
                   \/ \E w \in W : /\ job[w].at = "effect" /\ job[w].op = o
                                   /\ This(w).effect = "prod"
<1>1. doubt' = [o \in Op |-> b(o)]
  BY DEF LeavesDoubt
<1>2. \A o \in Op : b(o) \in BOOLEAN
  BY DEF LaneInv, TypeOK
<1>3. ASSUME NEW o \in Op, b(o), o \notin released
      PROVE  doubt[o] \/ Carried(o)'
  <2>1. ASSUME NEW w \in W, job[w].at = "effect", job[w].op = o, This(w).effect = "prod"
        PROVE  Carried(o)'
    <3>1. AtEffect(w) /\ w \in Worker
      BY <2>1 DEF AtEffect
    <3> QED BY <1>3, <2>1, <3>1, AbandonedIsCarried
  <2> QED BY <1>3, <2>1
<1> HIDE DEF b
<1>4. doubt' \in [Op -> BOOLEAN] /\ \A o \in Op : doubt'[o] = b(o)
  BY <1>1, <1>2
<1> QED BY <1>3, <1>4

LEMMA CrashInv ==
    ASSUME LaneInv, NEW w \in Worker, Crash(w)
    PROVE  LaneInv'
<1>1. TypeOK /\ LeavesDoubt({w})
  BY DEF LaneInv, Crash
<1>2. job' = [job EXCEPT ![w] = Idle] /\ Idle \in Job
  BY DEF Crash, Idle, Job
<1>3. job' \in [Worker -> Job] /\ job'[w] = Idle /\ \A v \in Worker \ {w} : job'[v] = job[v]
  BY <1>1, <1>2 DEF TypeOK
<1>4. UNCHANGED <<row, sync, admission, deferrals, interrupts, wrote, released>>
  BY DEF Crash
<1>5. /\ doubt' \in [Op -> BOOLEAN]
      /\ \A o \in Op : doubt'[o] => doubt[o] \/ o \in released \/ Carried(o)'
  BY <1>1, <1>3, <1>4, DoubtLeft
<1>6. TypeOK' /\ deferrals' \in Nat /\ deferrals <= deferrals'
  BY <1>1, <1>3, <1>4, <1>5, DurableAssumption DEF TypeOK
<1>7. JobMove(w)
  BY <1>3 DEF JobMove
<1>8. \A p \in Op : wrote'[p] => wrote[p]
  BY <1>4
<1> QED BY <1>3, <1>4, <1>5, <1>6, <1>7, <1>8, JobStep

LEMMA ReplaceInv ==
    ASSUME LaneInv, Replace
    PROVE  LaneInv'
<1>1. TypeOK /\ LeavesDoubt(Worker) /\ Worker \in SUBSET Worker
  BY DEF LaneInv, Replace
<1>2. \A w \in Worker : job'[w] = Idle
  BY DEF Replace
<1>3. job' \in [Worker -> Job]
  BY DEF Replace, Job, Idle
<1>4. UNCHANGED <<row, sync, deferrals, interrupts, wrote, released>> /\ admission' = TRUE
  BY DEF Replace
<1>5. /\ doubt' \in [Op -> BOOLEAN]
      /\ \A o \in Op : doubt'[o] => doubt[o] \/ o \in released \/ Carried(o)'
  BY <1>1, <1>2, <1>4, DoubtLeft
<1>6. TypeOK' /\ deferrals' \in Nat /\ deferrals <= deferrals'
  BY <1>1, <1>3, <1>4, <1>5, DurableAssumption DEF TypeOK
<1>7. \A o \in Op : RowMove(o)
  BY <1>4 DEF RowMove
<1>8. \A w \in Worker : JobMove(w)
  BY <1>2 DEF JobMove
<1>9. \A o \in Op : (wrote'[o] => wrote[o]) /\ (wrote[o] => wrote'[o])
  BY <1>4
<1>10. Move
  BY <1>2, <1>4, <1>5, <1>6, <1>7, <1>8, <1>9 DEF Move
<1> QED BY <1>4, <1>6, <1>10, HoldersStay, RecoveriesStay, MoveInv

-----------------------------------------------------------------------------
(* Steps on the row of one operation that leave the workers alone.         *)

LEMMA OneRow ==
    ASSUME LaneInv, NEW o \in Op, NEW r \in Row, row' = [row EXCEPT ![o] = r]
    PROVE  /\ row' \in [Op -> Row] /\ row'[o] = r
           /\ \A p \in Op \ {o} : row'[p] = row[p]
           /\ \A p \in Op \ {o} : RowMove(p)
<1>1. /\ row' \in [Op -> Row] /\ row'[o] = r
      /\ \A p \in Op \ {o} : row'[p] = row[p]
  BY DEF LaneInv, TypeOK
<1> QED BY <1>1 DEF RowMove

LEMMA OneRowStep ==
    ASSUME LaneInv, NEW o \in Op, NEW r \in Row, row' = [row EXCEPT ![o] = r], RowMove(o),
           row[o].status \in Blocking,
           UNCHANGED <<job, sync, admission, deferrals, interrupts, wrote, doubt>>,
           released \subseteq released', released' \subseteq Op
    PROVE  LaneInv'
<1>1. /\ row' \in [Op -> Row] /\ row'[o] = r
      /\ \A p \in Op \ {o} : row'[p] = row[p]
      /\ \A p \in Op \ {o} : RowMove(p)
  BY OneRow
<1>2. TypeOK'
  BY <1>1 DEF LaneInv, TypeOK
<1>3. \A p \in Op : row'[p].status \in Blocking => row[p].status \in Blocking
  BY <1>1
<1>4. OneHolder'
  BY <1>3, HoldersStay
<1>5. \A p \in Op : /\ row[p].status = "none" => row'[p].status = "none"
                    /\ row[p].status = "fail" => row'[p].status = "fail"
  BY <1>1 DEF Blocking
<1>6. RecoveriesFollow'
  BY <1>5, RecoveriesStay
<1>7. \A p \in Op : RowMove(p)
  BY <1>1
<1> QED BY <1>2, <1>4, <1>6, <1>7, RowStep

LEMMA InspectInv ==
    ASSUME LaneInv, NEW o \in Op, Inspect(o)
    PROVE  LaneInv'
<1> DEFINE r == [row[o] EXCEPT !.inspected = TRUE]
<1>1. row[o] \in Row
  BY DEF LaneInv, TypeOK
<1>2. r \in Row /\ row' = [row EXCEPT ![o] = r]
  BY <1>1, FieldType DEF Inspect
<1>3. /\ r.phase = row[o].phase /\ r.written = row[o].written /\ r.status = row[o].status
      /\ r.marks = row[o].marks
      /\ r.attempt = row[o].attempt /\ r.owner = row[o].owner
  BY <1>1 DEF Row
<1> HIDE DEF r
<1>4. RowMove(o)
  BY <1>2, <1>3, OneRow DEF RowMove
<1> QED BY <1>2, <1>4, OneRowStep DEF Inspect, LaneInv, TypeOK, history, Blocking

LEMMA DelayElapsesInv ==
    ASSUME LaneInv, NEW o \in Op, DelayElapses(o)
    PROVE  LaneInv'
<1> DEFINE r == [row[o] EXCEPT !.settled = TRUE]
<1>1. row[o] \in Row
  BY DEF LaneInv, TypeOK
<1>2. r \in Row /\ row' = [row EXCEPT ![o] = r]
  BY <1>1, FieldType DEF DelayElapses
<1>3. /\ r.phase = row[o].phase /\ r.written = row[o].written /\ r.status = row[o].status
      /\ r.marks = row[o].marks
      /\ r.attempt = row[o].attempt /\ r.owner = row[o].owner
  BY <1>1 DEF Row
<1> HIDE DEF r
<1>4. RowMove(o)
  BY <1>2, <1>3, OneRow DEF RowMove
<1> QED BY <1>2, <1>4, OneRowStep DEF DelayElapses, LaneInv, TypeOK, history, Blocking

LEMMA LeaseRunsOutInv ==
    ASSUME LaneInv, NEW o \in Op, LeaseRunsOut(o)
    PROVE  LaneInv'
<1> DEFINE l == IF row[o].lease = "live" THEN "due" ELSE "expired"
           r == [row[o] EXCEPT !.lease = l]
<1>1. row[o] \in Row
  BY DEF LaneInv, TypeOK
<1>2. row' = [row EXCEPT ![o] = r]
  BY DEF LeaseRunsOut
<1>3. l \in {"none", "live", "due", "expired"}
  OBVIOUS
<1> HIDE DEF l
<1>4. r \in Row
  BY <1>1, <1>3, FieldType
<1>5. /\ r.phase = row[o].phase /\ r.written = row[o].written /\ r.status = row[o].status
      /\ r.marks = row[o].marks
      /\ r.attempt = row[o].attempt /\ r.owner = row[o].owner
  BY <1>1 DEF Row
<1> HIDE DEF r
<1>6. RowMove(o)
  BY <1>2, <1>4, <1>5, OneRow DEF RowMove
<1> QED BY <1>2, <1>4, <1>6, OneRowStep DEF LeaseRunsOut, LaneInv, TypeOK, history, Blocking

LEMMA CancelInv ==
    ASSUME LaneInv, NEW o \in Op, Cancel(o)
    PROVE  LaneInv'
<1> DEFINE r == Terminal(row[o], "cancelled")
<1>1. r \in Row /\ row' = [row EXCEPT ![o] = r]
  BY NoRowType DEF Cancel, Terminal, Phases
<1>2. r.status = "cancelled" /\ r.attempt = 0
  BY DEF Terminal, NoRow
<1> HIDE DEF r
<1>3. row[o].status \in {"pending", "reconciliation_required"}
  BY DEF Cancel, Cancellable
<1>4. /\ released \subseteq released' /\ released' \subseteq Op
      /\ row[o].status = "reconciliation_required" => o \in released'
  <2>1. released' = IF row[o].status = "pending" THEN released ELSE released \cup {o}
    BY DEF Cancel
  <2> QED BY <2>1 DEF LaneInv, TypeOK
<1>5. o \in released' \/ Unused(o)
  BY <1>3, <1>4, UnusedWhen
<1>6. RowMove(o)
  BY <1>1, <1>2, <1>3, <1>5, OneRow DEF RowMove, Blocking
<1> QED BY <1>1, <1>3, <1>4, <1>6, OneRowStep DEF Cancel, Blocking

LEMMA CreateInv ==
    ASSUME LaneInv, NEW o \in Op, Create(o)
    PROVE  LaneInv'
<1> DEFINE r == [row[o] EXCEPT !.status = "pending"]
<1>1. row[o] \in Row
  BY DEF LaneInv, TypeOK
<1>2. r \in Row /\ row' = [row EXCEPT ![o] = r]
  BY <1>1, FieldType DEF Create, Blocking
<1>3. r.status = "pending" /\ r.attempt = row[o].attempt
  BY <1>1 DEF Row
<1> HIDE DEF r
<1>4. /\ row' \in [Op -> Row] /\ row'[o] = r
      /\ \A p \in Op \ {o} : row'[p] = row[p]
      /\ \A p \in Op \ {o} : RowMove(p)
  BY <1>2, OneRow
<1>5. row[o].status = "none" /\ sync = "free" /\ Holders = {} /\ ~ Recovers(o)
  BY DEF Create, LaneFree
<1>6. RowMove(o)
  BY <1>3, <1>4, <1>5 DEF RowMove
<1>7. UNCHANGED <<job, sync, admission, deferrals, interrupts, wrote, doubt, released>>
  BY DEF Create, history
<1>8. TypeOK'
  BY <1>4, <1>7 DEF LaneInv, TypeOK
<1>9. OneHolder'
  <2>1. \A p \in Op : row'[p].status \in Blocking => p = o
    BY <1>4, <1>5 DEF Holders
  <2> QED BY <1>5, <1>7, <2>1 DEF OneHolder, Holders
<1>10. RecoveriesFollow'
  <2> SUFFICES ASSUME NEW p \in DOMAIN RecoveryOf, row'[RecoveryOf[p]].status # "none"
               PROVE  row'[p].status = "fail"
    BY DEF RecoveriesFollow
  <2>1. p \in Op /\ RecoveryOf[p] \in Op /\ RecoveryOf[p] # o
    BY <1>5, DurableAssumption DEF Recovers
  <2>2. row[p].status = "fail"
    BY <1>4, <2>1 DEF LaneInv, RecoveriesFollow
  <2> QED BY <1>4, <1>5, <2>1, <2>2
<1>11. \A p \in Op : RowMove(p)
  BY <1>4, <1>6
<1> QED BY <1>7, <1>8, <1>9, <1>10, <1>11, RowStep

(* A failed restore is queued again on a free lane, and its row shows what *)
(* it did.                                                                 *)
LEMMA RequeueInv ==
    ASSUME LaneInv, NEW o \in Op, Requeue(o)
    PROVE  LaneInv'
<1> DEFINE r == [row[o] EXCEPT !.status = "pending", !.phase = "started"]
<1>1. row[o] \in Row
  BY DEF LaneInv, TypeOK
<1>2. r \in Row /\ row' = [row EXCEPT ![o] = r]
  BY <1>1, PhaseFacts DEF Requeue, Row, Blocking, Phases
<1>3. /\ r.status = "pending" /\ r.attempt = row[o].attempt
      /\ r.phase = "started" /\ r.marks = row[o].marks
  BY <1>1 DEF Row
<1> HIDE DEF r
<1>4. /\ row' \in [Op -> Row] /\ row'[o] = r
      /\ \A p \in Op \ {o} : row'[p] = row[p]
      /\ \A p \in Op \ {o} : RowMove(p)
  BY <1>2, OneRow
<1>5. /\ KindOf[o] = "restore" /\ row[o].status = "fail" /\ row[o].attempt = 1
      /\ "started" \in row[o].marks /\ sync = "free" /\ Holders = {}
  BY DEF Requeue, Replayable, LaneFree
<1>6. RowMove(o)
  <2>1. Touched(o)'
    BY <1>3, <1>4, <1>5 DEF Touched, SafePhases
  <2> QED BY <1>3, <1>4, <1>5, <2>1 DEF RowMove
<1>7. UNCHANGED <<job, sync, admission, deferrals, interrupts, wrote, doubt, released>>
  BY DEF Requeue, history
<1>8. TypeOK'
  BY <1>4, <1>7 DEF LaneInv, TypeOK
<1>9. OneHolder'
  <2>1. \A p \in Op : row'[p].status \in Blocking => p = o
    BY <1>4, <1>5 DEF Holders
  <2> QED BY <1>5, <1>7, <2>1 DEF OneHolder, Holders
<1>10. RecoveriesFollow'
  <2> SUFFICES ASSUME NEW p \in DOMAIN RecoveryOf, row'[RecoveryOf[p]].status # "none"
               PROVE  row'[p].status = "fail"
    BY DEF RecoveriesFollow
  <2>1. p \in Op /\ RecoveryOf[p] \in Op /\ RecoveryOf[p] # o /\ p # o
    BY <1>5, DurableAssumption
  <2>2. row[p].status = "fail"
    BY <1>4, <2>1 DEF LaneInv, RecoveriesFollow
  <2> QED BY <1>4, <2>1, <2>2
<1>11. \A p \in Op : RowMove(p)
  BY <1>4, <1>6
<1> QED BY <1>7, <1>8, <1>9, <1>10, <1>11, RowStep

(* An expired lease is queued again only when the row shows nothing.       *)
LEMMA RecoveredInv ==
    ASSUME LaneInv, NEW o \in Op, row[o].status = "running",
           NEW safe \in BOOLEAN, NEW marks \in SUBSET Phases,
           safe => ~ Touched(o) /\ KindOf[o] # "bootstrap",
           row' = [row EXCEPT ![o] = Recovered(row[o], safe, marks)],
           UNCHANGED <<job, sync, admission, deferrals, interrupts, wrote, doubt, released>>
    PROVE  LaneInv'
<1> DEFINE r == Recovered(row[o], safe, marks)
<1>0. row[o] \in Row /\ row[o].status \in Blocking
  BY DEF LaneInv, TypeOK, Blocking
<1>1. /\ row[o].attempt \in Int /\ MaxAttempts \in Int /\ deferrals \in Int /\ deferrals >= 0
      /\ "created" \in Phases /\ row[o].attempt \in Attempts
  BY <1>0, RowFacts, PhaseFacts DEF LaneInv, Row, Attempts
<1>2. CASE safe /\ row[o].attempt < MaxAttempts
  <2>1. r = [Unleased(row[o]) EXCEPT !.status = "pending", !.phase = "created", !.marks = marks,
                                     !.settled = TRUE]
    BY <1>2 DEF Recovered, Requeued
  <2>2. r \in Row
    <3> DEFINE u == Unleased(row[o])
    <3>1. u \in Row
      BY <1>0, UnleasedType
    <3> HIDE DEF u
    <3>2. [u EXCEPT !.status = "pending", !.phase = "created", !.marks = marks,
                    !.settled = TRUE] \in Row
      BY <1>1, <3>1 DEF Row, Blocking, Phases
    <3> QED BY <2>1, <3>2 DEF u
  <2>3. r.status = "pending" /\ r.attempt = row[o].attempt
    BY <1>0, <2>1 DEF Unleased, Row
  <2>4. row' = [row EXCEPT ![o] = r]
    OBVIOUS
  <2> HIDE DEF r
  <2>5. o \in released' \/ Unused(o)
    BY <1>2, UnusedWhen
  <2>6. ~ wrote[o]
    BY <1>0, <1>2, UntouchedIsUnwritten
  <2>7. r.attempt < MaxAttempts + deferrals
    BY <1>1, <1>2, <2>3
  <2>8. row'[o] = r
    BY <2>2, <2>4, OneRow
  <2>9. RowMove(o)
    BY <1>2, <2>3, <2>5, <2>6, <2>7, <2>8 DEF RowMove
  <2> QED BY <1>0, <2>2, <2>4, <2>9, OneRowStep DEF LaneInv, TypeOK
<1>3. CASE safe /\ ~ (row[o].attempt < MaxAttempts)
  <2>1. r = [NoRow EXCEPT !.status = "fail"]
    BY <1>3 DEF Recovered, Terminal
  <2>2. r \in Row
    BY <2>1, NoRowType DEF Phases
  <2>3. r.status = "fail" /\ r.attempt = 0
    BY <2>1 DEF NoRow
  <2>4. row' = [row EXCEPT ![o] = r]
    OBVIOUS
  <2> HIDE DEF r
  <2>5. o \in released' \/ Unused(o)
    BY <1>3, UnusedWhen
  <2>6. row'[o] = r
    BY <2>2, <2>4, OneRow
  <2>7. RowMove(o)
    BY <1>0, <2>3, <2>5, <2>6 DEF RowMove
  <2> QED BY <1>0, <2>2, <2>4, <2>7, OneRowStep DEF LaneInv, TypeOK
<1>4. CASE ~ safe
  <2>1. r = [Unleased(row[o]) EXCEPT !.status = "reconciliation_required", !.unverified = FALSE]
    BY <1>4 DEF Recovered
  <2>2. r \in Row
    <3> DEFINE u == Unleased(row[o])
    <3>1. u \in Row
      BY <1>0, UnleasedType
    <3> HIDE DEF u
    <3>2. [u EXCEPT !.status = "reconciliation_required", !.unverified = FALSE] \in Row
      BY <3>1 DEF Row, Blocking
    <3> QED BY <2>1, <3>2 DEF u
  <2>3. /\ r.status = "reconciliation_required" /\ r.attempt = row[o].attempt
        /\ r.phase = row[o].phase /\ r.written = row[o].written /\ r.marks = row[o].marks
    BY <1>0, <2>1 DEF Unleased, Row
  <2>4. row' = [row EXCEPT ![o] = r]
    OBVIOUS
  <2> HIDE DEF r
  <2>5. row'[o] = r
    BY <2>2, <2>4, OneRow
  <2>6. r.attempt <= row[o].attempt
    BY <1>1, <2>3
  <2>7. RowMove(o)
    BY <2>3, <2>5, <2>6 DEF RowMove
  <2> QED BY <1>0, <2>2, <2>4, <2>7, OneRowStep DEF LaneInv, TypeOK
<1> QED BY <1>2, <1>3, <1>4

LEMMA RecoverInv ==
    ASSUME LaneInv, NEW o \in Op, Recover(o)
    PROVE  LaneInv'
<1>1. row[o] \in Row /\ row[o].status = "running"
  BY DEF Recover, LaneInv, TypeOK
<1>2. UNCHANGED <<job, sync, admission, deferrals, interrupts, wrote, doubt, released>>
  BY DEF Recover, history
<1>3. row[o].marks \in SUBSET Phases
  BY <1>1 DEF Row, Phases
<1>4. CASE RecoverBootstrap(o)
  <2> DEFINE safe == row[o].phase = "created"
             marks == row[o].marks
  <2>1. KindOf[o] = "bootstrap" /\ row' = [row EXCEPT ![o] = Recovered(row[o], safe, marks)]
    BY <1>4 DEF RecoverBootstrap
  <2>2. safe \in BOOLEAN /\ ~ safe
    BY <1>1, <2>1 DEF LaneInv, Accounted
  <2> HIDE DEF safe, marks
  <2> QED BY <1>1, <1>2, <1>3, <2>1, <2>2, RecoveredInv DEF marks
<1>5. CASE RecoverRestore(o)
  <2> DEFINE safe == row[o].phase \in SafePhases
             marks == {}
  <2>1. KindOf[o] = "restore" /\ row' = [row EXCEPT ![o] = Recovered(row[o], safe, marks)]
    BY <1>5 DEF RecoverRestore
  <2>2. safe \in BOOLEAN /\ (safe => ~ Touched(o)) /\ marks \in SUBSET Phases
    BY <2>1 DEF Touched
  <2> HIDE DEF safe, marks
  <2> QED BY <1>1, <1>2, <2>1, <2>2, RecoveredInv
<1>6. CASE RecoverRelease(o)
  <2> DEFINE safe == /\ row[o].phase \in SafePhases
                     /\ row[o].marks \subseteq SafePhases
                     /\ ~ row[o].written
             marks == row[o].marks \cap {"created"}
  <2>1. Release(o) /\ row' = [row EXCEPT ![o] = Recovered(row[o], safe, marks)]
    BY <1>6 DEF RecoverRelease
  <2>2. safe \in BOOLEAN /\ (safe => ~ Touched(o)) /\ marks \in SUBSET Phases
    BY <1>3, <2>1 DEF Touched, Release
  <2>3. KindOf[o] # "bootstrap"
    BY <2>1 DEF Release
  <2> HIDE DEF safe, marks
  <2> QED BY <1>1, <1>2, <2>1, <2>2, <2>3, RecoveredInv
<1> QED BY <1>4, <1>5, <1>6 DEF Recover

-----------------------------------------------------------------------------
(* The synchronous route and the drain.                                    *)

LEMMA SameRows ==
    ASSUME LaneInv, UNCHANGED <<row, job, deferrals, wrote, doubt, released>>, TypeOK', OneHolder'
    PROVE  LaneInv'
<1>1. \A p \in Op : RowMove(p)
  BY DEF RowMove
<1>2. RecoveriesFollow'
  BY RecoveriesStay
<1> QED BY <1>1, <1>2, RowStep

LEMMA SyncInv ==
    ASSUME LaneInv, SyncLock \/ SyncCheck \/ SyncEnd
    PROVE  LaneInv'
<1>1. UNCHANGED <<row, job, admission, deferrals, wrote, doubt, released>>
  BY DEF SyncLock, SyncCheck, SyncEnd, history
<1>2. interrupts' \in 0..MaxInterrupts
  <2>1. interrupts \in 0..MaxInterrupts
    BY DEF LaneInv, TypeOK
  <2>2. interrupts' = interrupts \/ (interrupts' = interrupts + 1 /\ interrupts < MaxInterrupts)
    BY DEF SyncLock, SyncCheck, SyncEnd
  <2> QED BY <2>1, <2>2, DurableAssumption
<1>3. sync' \in {"free", "locked", "running"} /\ (sync' = "running" => Holders = {})
  BY DEF SyncLock, SyncCheck, SyncEnd
<1>4. TypeOK'
  BY <1>1, <1>2, <1>3 DEF LaneInv, TypeOK
<1>5. OneHolder'
  BY <1>1, <1>3 DEF LaneInv, OneHolder, Holders
<1> QED BY <1>1, <1>4, <1>5, SameRows

LEMMA DrainInv ==
    ASSUME LaneInv, DrainPauses \/ DrainEnds
    PROVE  LaneInv'
<1>1. UNCHANGED <<row, job, sync, deferrals, wrote, doubt, released>>
  BY DEF DrainPauses, DrainEnds, history
<1>2. interrupts' \in 0..MaxInterrupts
  <2>1. interrupts \in 0..MaxInterrupts
    BY DEF LaneInv, TypeOK
  <2>2. interrupts' = interrupts \/ (interrupts' = interrupts + 1 /\ interrupts < MaxInterrupts)
    BY DEF DrainPauses, DrainEnds
  <2> QED BY <2>1, <2>2, DurableAssumption
<1>3. admission' \in BOOLEAN
  BY DEF DrainPauses, DrainEnds
<1>4. TypeOK'
  BY <1>1, <1>2, <1>3 DEF LaneInv, TypeOK
<1>5. OneHolder'
  BY <1>1 DEF LaneInv, OneHolder, Holders
<1> QED BY <1>1, <1>4, <1>5, SameRows

-----------------------------------------------------------------------------
(* Steps of a worker on the row of its operation.                          *)

LEMMA OneOpStep ==
    ASSUME LaneInv, NEW o \in Op, NEW r \in Row, row' = [row EXCEPT ![o] = r], RowMove(o),
           row[o].status \in Blocking,
           NEW w \in Worker, job' \in [Worker -> Job], JobMove(w),
           \A v \in Worker \ {w} : job'[v] = job[v],
           UNCHANGED <<sync, admission, deferrals, interrupts, doubt>>,
           released \subseteq released', released' \subseteq Op,
           wrote' \in [Op -> BOOLEAN],
           \A p \in Op : wrote[p] => wrote'[p],
           \A p \in Op : wrote'[p] => \/ wrote[p]
                                      \/ /\ row'[p].status \notin {"none", "pending"}
                                         /\ row'[p].status \in Blocking => Touched(p)'
    PROVE  LaneInv'
<1>1. /\ row' \in [Op -> Row] /\ row'[o] = r
      /\ \A p \in Op \ {o} : row'[p] = row[p]
      /\ \A p \in Op \ {o} : RowMove(p)
  BY OneRow
<1>2. TypeOK'
  BY <1>1 DEF LaneInv, TypeOK
<1>3. \A p \in Op : row'[p].status \in Blocking => row[p].status \in Blocking
  BY <1>1
<1>4. OneHolder'
  BY <1>3, HoldersStay
<1>5. \A p \in Op : /\ row[p].status = "none" => row'[p].status = "none"
                    /\ row[p].status = "fail" => row'[p].status = "fail"
  BY <1>1 DEF Blocking
<1>6. RecoveriesFollow'
  BY <1>5, RecoveriesStay
<1>7. \A p \in Op : RowMove(p)
  BY <1>1
<1>8. \A v \in Worker : JobMove(v)
  BY DEF JobMove
<1>9. deferrals' \in Nat /\ deferrals <= deferrals'
  BY DurableAssumption DEF LaneInv, TypeOK
<1>10. Move
  BY <1>7, <1>8, <1>9 DEF Move
<1> QED BY <1>2, <1>4, <1>6, <1>10, MoveInv

LEMMA FirstStep ==
    ASSUME NEW w \in Worker, NEW o \in Op, job'[w].op = o, job'[w].resumes \in BOOLEAN,
           job'[w].replays \in BOOLEAN
    PROVE  1 <= Len(Steps(w)') /\ Steps(w)'[1].by # "flag"
<1>1. KindOf[o] \in {"bootstrap", "restore", "promotion", "rollback"}
  BY DurableAssumption
<1>2. Steps(w)' \in {BootstrapSteps, RestoreSteps, ReplaySteps, PromotionSteps, RollbackSteps,
                     ResumeSteps}
  BY <1>1 DEF Steps
<1> QED BY <1>2, BootstrapFacts, RestoreFacts, ReplayFacts, PromotionFacts, RollbackFacts,
           ResumeFacts DEF Step

(* A worker that claims an operation starts from its first step.           *)
LEMMA ClaimedJob ==
    ASSUME LaneInv, NEW w \in Worker, NEW o \in Op, NEW j \in Work, job' = [job EXCEPT ![w] = j],
           j.op = o, j.at = "step", j.step = 1
    PROVE  /\ job' \in [Worker -> Job] /\ job'[w] = j /\ j # Idle
           /\ \A v \in Worker \ {w} : job'[v] = job[v]
           /\ Committed(w)' => ~ j.resumes /\ KindOf[o] = "bootstrap"
<1>1. j \in Job /\ j # Idle /\ j.resumes \in BOOLEAN /\ j.replays \in BOOLEAN
  BY DEF Job, Work, Idle
<1>2. job' \in [Worker -> Job] /\ job'[w] = j /\ \A v \in Worker \ {w} : job'[v] = job[v]
  BY <1>1 DEF LaneInv, TypeOK
<1>3. Committed(w)' => ~ j.resumes /\ KindOf[o] = "bootstrap"
  <2>1. Steps(w)'[1].by # "flag"
    BY <1>1, <1>2, FirstStep
  <2> QED BY <1>2, <2>1 DEF Committed, AtEffect, This
<1> QED BY <1>1, <1>2, <1>3

(* A row shows as much as another.                                         *)
ShowsAsMuch(r, s, kind) ==
    /\ kind = "restore" /\ r.marks # {} => s.marks = r.marks /\ s.phase = r.phase
    /\ kind \in {"promotion", "rollback"} => s.written = r.written

(* The row of a claimed operation.                                         *)
LEMMA ClaimedRow ==
    ASSUME LaneInv, NEW w \in Worker, NEW o \in Op,
           ClaimBootstrap(w, o) \/ ClaimRestore(w, o) \/ ClaimRelease(w, o)
    PROVE  /\ row[o].status = "pending"
           /\ \E r \in Row : /\ row' = [row EXCEPT ![o] = r]
                             /\ r.status = "running" /\ r.owner = w
                             /\ r.attempt = row[o].attempt + 1
                             /\ KindOf[o] = "bootstrap" => r.phase = "running"
                             /\ r.unverified = row[o].unverified
                             /\ ShowsAsMuch(row[o], r, KindOf[o])
<1>1. row[o].status = "pending"
  BY DEF ClaimBootstrap, ClaimRestore, ClaimRelease, Claimable
<1> DEFINE n == row[o].attempt + 1
           u == Leased(row[o], w)
<1>2. row[o] \in Row /\ row[o].phase \in Phases /\ row[o].marks \in SUBSET Phases
  BY DEF LaneInv, TypeOK, Row, Phases
<1>3. /\ u \in Row /\ u.status = "running" /\ u.owner = w
      /\ u.unverified = row[o].unverified /\ u.marks = row[o].marks
      /\ u.written = row[o].written
  BY <1>2, LeasedType DEF Leased, Row
<1>4. n \in Attempts
  <2>1. row[o].attempt < MaxAttempts + deferrals + 1
    <3>1. row[o].attempt < Budget(o) /\ row[o].attempt \in Int
      BY <1>1, RowFacts DEF LaneInv, Accounted
    <3>2. Budget(o) \in Int /\ Budget(o) <= MaxAttempts + deferrals + 1
      BY BudgetFacts DEF LaneInv
    <3>3. MaxAttempts \in Int /\ deferrals \in Int
      BY RowFacts DEF LaneInv
    <3> QED BY <3>1, <3>2, <3>3
  <2>2. /\ row[o].attempt \in Int /\ row[o].attempt >= 0 /\ MaxAttempts \in Int
        /\ deferrals \in Int /\ deferrals <= MaxDeferrals /\ MaxDeferrals \in Int
    BY RowFacts DEF LaneInv
  <2> QED BY <2>1, <2>2 DEF Attempts
<1>5. "running" \in Phases
  BY PhaseFacts
<1> HIDE DEF n, u
<1>6. CASE ClaimBootstrap(w, o)
  <2> DEFINE r == [u EXCEPT !.phase = "running", !.attempt = n]
  <2>1. /\ r \in Row /\ r.status = "running" /\ r.owner = w /\ r.attempt = n
        /\ r.phase = "running" /\ r.unverified = row[o].unverified
    BY <1>3, <1>4, <1>5 DEF Row, Attempts, Phases
  <2>2. row' = [row EXCEPT ![o] = r]
    BY <1>6 DEF ClaimBootstrap, n, u
  <2>3. KindOf[o] = "bootstrap"
    BY <1>6 DEF ClaimBootstrap
  <2> HIDE DEF r
  <2> QED BY <1>1, <2>1, <2>2, <2>3 DEF n, ShowsAsMuch
<1>7. CASE ClaimRestore(w, o)
  <2> DEFINE p == IF row[o].marks = {} THEN "running" ELSE row[o].phase
             r == [u EXCEPT !.phase = p, !.attempt = n]
  <2>1. row' = [row EXCEPT ![o] = r]
    BY <1>7 DEF ClaimRestore, n, u
  <2>2. p \in Phases
    BY <1>2, <1>5
  <2>5. row[o].marks # {} => p = row[o].phase
    OBVIOUS
  <2> HIDE DEF p
  <2>3. /\ r \in Row /\ r.status = "running" /\ r.owner = w /\ r.attempt = n
        /\ r.unverified = row[o].unverified /\ r.marks = row[o].marks /\ r.phase = p
    BY <1>3, <1>4, <2>2 DEF Row, Attempts, Phases
  <2>4. KindOf[o] = "restore"
    BY <1>7 DEF ClaimRestore
  <2> HIDE DEF r
  <2> QED BY <1>1, <2>1, <2>3, <2>4, <2>5 DEF n, ShowsAsMuch
<1>8. CASE ClaimRelease(w, o)
  <2> DEFINE m == IF row[o].marks = {} THEN {} ELSE row[o].marks \cup {"running"}
             r == [u EXCEPT !.phase = "running", !.marks = m, !.attempt = n]
  <2>1. row' = [row EXCEPT ![o] = r]
    BY <1>8 DEF ClaimRelease, n, u
  <2>2. m \in SUBSET Phases
    BY <1>2, <1>5
  <2> HIDE DEF m
  <2>3. /\ r \in Row /\ r.status = "running" /\ r.owner = w /\ r.attempt = n
        /\ r.unverified = row[o].unverified /\ r.written = row[o].written
    BY <1>3, <1>4, <1>5, <2>2 DEF Row, Attempts, Phases
  <2>4. KindOf[o] \in {"promotion", "rollback"}
    BY <1>8 DEF ClaimRelease, Release
  <2> HIDE DEF r
  <2> QED BY <1>1, <2>1, <2>3, <2>4 DEF n, ShowsAsMuch
<1> QED BY <1>6, <1>7, <1>8

LEMMA ClaimInv ==
    ASSUME LaneInv, NEW w \in Worker, NEW o \in Op, Claim(w, o)
    PROVE  LaneInv'
<1>1. job[w] = Idle /\ (ClaimBootstrap(w, o) \/ ClaimRestore(w, o) \/ ClaimRelease(w, o))
  BY DEF Claim
<1>2. row[o].status = "pending"
  BY <1>1, ClaimedRow
<1>3. PICK r \in Row : /\ row' = [row EXCEPT ![o] = r]
                       /\ r.status = "running" /\ r.owner = w
                       /\ r.attempt = row[o].attempt + 1
                       /\ KindOf[o] = "bootstrap" => r.phase = "running"
                       /\ ShowsAsMuch(row[o], r, KindOf[o])
  BY <1>1, ClaimedRow
<1>4. row'[o] = r
  BY <1>3, OneRow
<1>14. Touched(o) => Touched(o)'
  BY <1>3, <1>4, DurableAssumption DEF Touched, ShowsAsMuch
<1> DEFINE j == NewJob(o, FALSE, TRUE)
<1>5. /\ j \in Work /\ j.op = o /\ j.at = "step" /\ j.step = 1 /\ j.out = "pass"
      /\ ~ j.resumes /\ j.resumes \in BOOLEAN /\ j.replays \in BOOLEAN
      /\ job' = [job EXCEPT ![w] = j]
  <2>1. row[o].unverified \in BOOLEAN
    BY DEF LaneInv, TypeOK, Row
  <2> QED BY <2>1 DEF Claim, NewJob, Work, Outcome
<1> HIDE DEF j
<1>6. /\ job' \in [Worker -> Job] /\ job'[w] = j /\ j # Idle
      /\ \A v \in Worker \ {w} : job'[v] = job[v]
      /\ Committed(w)' => KindOf[o] = "bootstrap"
  <2>1. j \in Work /\ job' = [job EXCEPT ![w] = j] /\ j.op = o /\ j.at = "step" /\ j.step = 1
    BY <1>5
  <2> QED BY <2>1, ClaimedJob
<1>7. UNCHANGED <<sync, admission, deferrals, interrupts, wrote, doubt, released>>
  BY DEF Claim, history
<1>8. Claims(w, o)
  BY <1>1, <1>3, <1>4, <1>5, <1>6 DEF Claims
<1>9. RowMove(o)
  BY <1>2, <1>3, <1>4, <1>8, <1>14 DEF RowMove
<1>10. Working(w)'
  <2>1. 1 <= Len(Steps(w)')
    BY <1>5, <1>6, FirstStep
  <2>2. Owns(w, o)' /\ (KindOf[o] = "bootstrap" => Touched(o)')
    BY <1>3, <1>4 DEF Owns, Touched
  <2>3. KindOf[o] = "bootstrap" => ~ Release(o)
    BY DEF Release
  <2> QED BY <1>3, <1>4, <1>5, <1>6, <2>1, <2>2, <2>3 DEF Working
<1>11. o \in Holders /\ row[o].status \in Blocking
  BY <1>2 DEF Holders, Blocking
<1>12. JobMove(w)
  BY <1>2, <1>8, <1>10, <1>11 DEF JobMove
<1>13. /\ released' \subseteq Op /\ wrote' \in [Op -> BOOLEAN]
       /\ \A p \in Op : (wrote[p] => wrote'[p]) /\ (wrote'[p] => wrote[p])
  BY <1>7 DEF LaneInv, TypeOK
<1> QED BY <1>3, <1>6, <1>7, <1>9, <1>11, <1>12, <1>13, OneOpStep

LEMMA ClaimReconciliationInv ==
    ASSUME LaneInv, NEW w \in Worker, NEW o \in Op, NEW charge \in BOOLEAN,
           ClaimReconciliation(w, o, charge)
    PROVE  LaneInv'
<1>1. /\ job[w] = Idle /\ Release(o) /\ row[o].written
      /\ row[o].status = "reconciliation_required"
      /\ charge => row[o].attempt < MaxAttempts
  BY DEF ClaimReconciliation
<1> DEFINE n == row[o].attempt + (IF charge THEN 1 ELSE 0)
           u == Leased(row[o], w)
           r == [u EXCEPT !.attempt = n]
<1>2. row[o] \in Row
  BY DEF LaneInv, TypeOK
<1>3. /\ u \in Row /\ u.status = "running" /\ u.owner = w
      /\ u.phase = row[o].phase /\ u.written = row[o].written /\ u.marks = row[o].marks
  BY <1>2, LeasedType DEF Leased, Row
<1>4. n \in Attempts /\ n <= MaxAttempts + deferrals
  <2>1. row[o].attempt <= MaxAttempts + deferrals
    <3>1. Accounted(o)
      BY DEF LaneInv
    <3>2. Budget(o) = MaxAttempts + deferrals
      BY <1>1, BudgetFacts DEF LaneInv, Release
    <3> QED BY <1>1, <3>1, <3>2 DEF Accounted
  <2>2. /\ row[o].attempt \in Int /\ row[o].attempt >= 0 /\ MaxAttempts \in Int
        /\ deferrals \in Int /\ deferrals >= 0 /\ deferrals <= MaxDeferrals /\ MaxDeferrals \in Int
    BY RowFacts DEF LaneInv
  <2>3. CASE charge
    BY <1>1, <2>1, <2>2, <2>3 DEF Attempts
  <2>4. CASE ~ charge
    BY <1>1, <2>1, <2>2, <2>4 DEF Attempts
  <2> QED BY <2>3, <2>4
<1>5. row' = [row EXCEPT ![o] = r]
  BY DEF ClaimReconciliation
<1> HIDE DEF n, u
<1>6. /\ r \in Row /\ r.status = "running" /\ r.owner = w /\ r.attempt = n
      /\ r.phase = row[o].phase /\ r.written = row[o].written /\ r.marks = row[o].marks
  BY <1>3, <1>4 DEF Row, Attempts
<1> HIDE DEF r
<1>7. row'[o] = r
  BY <1>5, <1>6, OneRow
<1> DEFINE j == NewJob(o, TRUE, charge)
<1>8. /\ j \in Work /\ j.op = o /\ j.at = "step" /\ j.step = 1 /\ j.out = "pass"
      /\ j.resumes /\ j.resumes \in BOOLEAN /\ j.replays \in BOOLEAN
      /\ job' = [job EXCEPT ![w] = j]
  <2>1. row[o].unverified \in BOOLEAN
    BY <1>2 DEF Row
  <2> QED BY <2>1 DEF ClaimReconciliation, NewJob, Work, Outcome
<1> HIDE DEF j
<1>9. /\ job' \in [Worker -> Job] /\ job'[w] = j /\ j # Idle
      /\ \A v \in Worker \ {w} : job'[v] = job[v]
      /\ ~ Committed(w)'
  BY <1>8, ClaimedJob
<1>10. UNCHANGED <<sync, admission, deferrals, interrupts, wrote, doubt>>
       /\ released' = released \cup {o}
  BY DEF ClaimReconciliation
<1>11. Claims(w, o) /\ o \in released'
  BY <1>1, <1>6, <1>7, <1>8, <1>9, <1>10 DEF Claims
<1>12. RowMove(o)
  BY <1>1, <1>4, <1>6, <1>7, <1>11 DEF RowMove
<1>13. Working(w)'
  <2>1. 1 <= Len(Steps(w)')
    BY <1>8, <1>9, FirstStep
  <2>2. KindOf[o] # "bootstrap"
    BY <1>1 DEF Release
  <2>3. Release(o)'
    BY <1>1 DEF Release
  <2> QED BY <1>1, <1>6, <1>7, <1>8, <1>9, <1>11, <2>1, <2>2, <2>3 DEF Working
<1>14. o \in Holders /\ row[o].status \in Blocking
  BY <1>1 DEF Holders, Blocking
<1>15. JobMove(w)
  BY <1>11, <1>13, <1>14 DEF JobMove
<1>16. /\ released \subseteq released' /\ released' \subseteq Op /\ wrote' \in [Op -> BOOLEAN]
       /\ \A p \in Op : (wrote[p] => wrote'[p]) /\ (wrote'[p] => wrote[p])
  BY <1>10 DEF LaneInv, TypeOK
<1> QED BY <1>5, <1>6, <1>9, <1>10, <1>12, <1>14, <1>15, <1>16, OneOpStep

LEMMA RankFacts ==
    ASSUME NEW p \in Phases, NEW q \in Phases, ~ (PhaseRank[q] < PhaseRank[p]), p \notin SafePhases
    PROVE  q \notin SafePhases
<1>1. /\ PhaseRank["created"] = 0 /\ PhaseRank["running"] = 1 /\ PhaseRank["validated"] = 2
      /\ PhaseRank["backup"] = 3 /\ PhaseRank["started"] = 4
  BY DEF PhaseRank
<1> QED BY <1>1, PhaseFacts DEF SafePhases

(* What a checkpoint leaves in the row.                                    *)
LEMMA RecordedRow ==
    ASSUME LaneInv, NEW w \in Worker, NEW o \in Op, job[w].op = o, Checkpoint(w)
    PROVE  \E r \in Row :
              /\ row' = [row EXCEPT ![o] = r]
              /\ r.status = row[o].status /\ r.attempt = row[o].attempt
              /\ r.owner = row[o].owner /\ r.unverified = row[o].unverified
              /\ row[o].written => r.written
              /\ KindOf[o] = "restore" =>
                    /\ r.marks # {}
                    /\ row[o].phase \notin SafePhases => r.phase \notin SafePhases
                    /\ This(w).effect = "prod" => r.phase \notin SafePhases
              /\ This(w).by = "write" => r.written
<1>1. AtStep(w) /\ job[w] # Idle /\ This(w).by \in {"phase", "write"} /\ ~ Backwards(w)
  BY DEF Checkpoint, AtStep, Idle
<1>2. row[o] \in Row /\ TypeOK
  BY DEF LaneInv, TypeOK
<1>3. StepOf(This(w), KindOf[o], job[w].resumes)
  <2>1. job[w].step \in 1..Len(Steps(w))
    BY <1>1, <1>2, JobFacts, StepFacts DEF AtStep
  <2> QED BY <1>1, <1>2, <2>1, StepFacts DEF This
<1> DEFINE s == This(w)
           u == Recorded(row[o], s)
           r == [u EXCEPT !.settled = FALSE, !.inspected = FALSE]
<1>4. row' = [row EXCEPT ![o] = r]
  BY DEF Checkpoint
<1>5. /\ s.phase \in Phases
      /\ s.by = "write" => KindOf[o] \in {"promotion", "rollback"}
      /\ s.effect = "prod" => s.phase = "started"
      /\ s.by = "phase" => ~ (PhaseRank[s.phase] < PhaseRank[row[o].phase])
  BY <1>1, <1>3, PhaseFacts DEF StepOf, Backwards
<1> HIDE DEF s
<1>6. /\ u \in Row
      /\ u.status = row[o].status /\ u.attempt = row[o].attempt /\ u.owner = row[o].owner
      /\ u.unverified = row[o].unverified
      /\ row[o].written => u.written
      /\ s.by = "write" => u.written
      /\ s.by # "write" => u.phase = s.phase /\ u.marks # {}
  <2>1. CASE s.by = "write" /\ row[o].written
    BY <1>2, <2>1 DEF Recorded
  <2>2. CASE ~ (s.by = "write" /\ row[o].written)
    <3> DEFINE m == row[o].marks \cup {s.phase}
               b == row[o].written \/ s.by = "write"
               x == [row[o] EXCEPT !.phase = s.phase, !.marks = m, !.written = b]
    <3>1. u = x
      BY <2>2 DEF Recorded
    <3>2. m \in SUBSET Phases /\ b \in BOOLEAN
      BY <1>2, <1>5 DEF Row, Phases
    <3>3. (row[o].written => b) /\ (s.by = "write" => b) /\ m # {}
      OBVIOUS
    <3> HIDE DEF m, b
    <3>4. /\ x \in Row /\ x.phase = s.phase /\ (b => x.written) /\ x.marks = m
          /\ x.unverified = row[o].unverified
          /\ x.status = row[o].status /\ x.attempt = row[o].attempt /\ x.owner = row[o].owner
      BY <1>2, <1>5, <3>2 DEF Row, Phases
    <3> HIDE DEF x, u
    <3> QED BY <3>1, <3>3, <3>4
  <2> QED BY <2>1, <2>2
<1> HIDE DEF u
<1>7. /\ r \in Row /\ r.status = u.status /\ r.attempt = u.attempt /\ r.owner = u.owner
      /\ (r.written <=> u.written) /\ r.phase = u.phase
      /\ r.marks = u.marks /\ r.unverified = u.unverified
  BY <1>6 DEF Row
<1> HIDE DEF r
<1>8. KindOf[o] = "restore" =>
         /\ r.marks # {}
         /\ row[o].phase \notin SafePhases => r.phase \notin SafePhases
         /\ s.effect = "prod" => r.phase \notin SafePhases
  <2> SUFFICES ASSUME KindOf[o] = "restore"
               PROVE  /\ r.marks # {}
                      /\ row[o].phase \notin SafePhases => r.phase \notin SafePhases
                      /\ s.effect = "prod" => r.phase \notin SafePhases
    OBVIOUS
  <2>1. s.by = "phase" /\ r.phase = s.phase /\ r.marks # {}
    BY <1>1, <1>5, <1>6, <1>7 DEF s
  <2>2. row[o].phase \in Phases
    BY <1>2 DEF Row, Phases
  <2>3. row[o].phase \notin SafePhases => r.phase \notin SafePhases
    BY <1>5, <2>1, <2>2, RankFacts
  <2>4. s.effect = "prod" => r.phase \notin SafePhases
    BY <1>5, <2>1 DEF SafePhases
  <2> QED BY <2>1, <2>3, <2>4
<1> QED BY <1>4, <1>6, <1>7, <1>8 DEF s

(* A checkpoint is written under the lease, so its worker enters the       *)
(* effect as the owner, and the row shows it from then on.                 *)
LEMMA CheckpointInv ==
    ASSUME LaneInv, NEW w \in Worker, Checkpoint(w)
    PROVE  LaneInv'
<1>1. /\ TypeOK /\ Working(w) /\ AtStep(w) /\ Proceed(w) /\ job[w] # Idle
      /\ job[w].at = "step"
  BY DEF LaneInv, Checkpoint, AtStep, Idle
<1>2. PICK o \in Op : o = job[w].op
  BY <1>1, JobFacts
<1>3. This(w).by \in {"phase", "write"} /\ Owns(w, o)
  BY <1>2 DEF Checkpoint, LeaseIsCurrent, Owns
<1>4. job[w].step \in 1..Len(Steps(w))
  BY <1>1, JobFacts, StepFacts DEF AtStep
<1>5. StepOf(This(w), KindOf[o], job[w].resumes)
  BY <1>1, <1>2, <1>4, StepFacts DEF This
<1>6. ~ job[w].resumes /\ KindOf[o] # "bootstrap"
  BY <1>3, <1>5 DEF StepOf
<1>7. PICK r \in Row :
         /\ row' = [row EXCEPT ![o] = r]
         /\ r.status = row[o].status /\ r.attempt = row[o].attempt
         /\ r.owner = row[o].owner
         /\ row[o].written => r.written
         /\ KindOf[o] = "restore" =>
               /\ r.marks # {}
               /\ row[o].phase \notin SafePhases => r.phase \notin SafePhases
               /\ This(w).effect = "prod" => r.phase \notin SafePhases
         /\ This(w).by = "write" => r.written
  BY <1>2, RecordedRow
<1>8. row'[o] = r
  BY <1>7, OneRow
<1>9. /\ KindOf[o] \in {"restore", "promotion", "rollback"}
      /\ KindOf[o] # "restore" => Release(o)
  BY <1>6, DurableAssumption DEF Release
<1>10. Touched(o) => Touched(o)'
  BY <1>7, <1>8, <1>9 DEF Touched
<1>11. This(w).effect = "prod" => Touched(o)'
  BY <1>3, <1>5, <1>7, <1>8, <1>9 DEF Touched, StepOf
<1>12. Owns(w, o)' /\ row[o].status = "running" /\ row[o].owner = w
  BY <1>3, <1>7, <1>8 DEF Owns
<1>13. RowMove(o)
  BY <1>1, <1>6, <1>7, <1>8, <1>10, <1>12 DEF RowMove
<1>14. /\ job' \in [Worker -> Job] /\ job'[w] # Idle
       /\ job'[w].op = o /\ job'[w].resumes = job[w].resumes
       /\ job'[w].replays = job[w].replays /\ job'[w].out = job[w].out
       /\ This(w).effect # "none" => job'[w].at = "effect" /\ job'[w].step = job[w].step
       /\ This(w).effect = "none" =>
            /\ job'[w].at = "step" /\ job'[w].step = job[w].step + 1
            /\ job[w].step + 1 \in 1..Len(Steps(w))
       /\ \A v \in Worker \ {w} : job'[v] = job[v]
       /\ wrote' \in [Op -> BOOLEAN]
       /\ \A p \in Op : wrote[p] => wrote'[p]
       /\ \A p \in Op : wrote'[p] /\ ~ wrote[p] => p = o /\ This(w).effect = "prod"
       /\ This(w).effect = "prod" => wrote'[o]
  BY <1>1, <1>2, ProceedStep
<1>15. Steps(w)' = Steps(w)
  BY <1>2, <1>14, SameSteps
<1>16. Committed(w)' => This(w).effect = "prod"
  <2>1. CASE This(w).effect = "none"
    <3>0. job[w].step \in 1..(Len(Steps(w)) - 1)
      BY <1>4, <1>14, <2>1
    <3>1. Steps(w)[job[w].step + 1].by # "flag"
      BY <1>1, <2>1, <3>0, StepFacts DEF This
    <3>2. This(w)'.by # "flag" /\ ~ AtEffect(w)'
      BY <1>14, <1>15, <2>1, <3>1 DEF This, AtEffect
    <3> QED BY <1>6, <1>14, <3>2 DEF Committed
  <2>2. CASE This(w).effect # "none"
    <3>1. This(w)' = This(w)
      BY <1>14, <1>15, <2>2 DEF This
    <3> QED BY <1>6, <1>14, <2>2, <3>1 DEF Committed, AtEffect, AtStep
  <2> QED BY <2>1, <2>2
<1>17. Working(w)'
  <2>1. row'[o].status = "running"
    BY <1>7, <1>8, <1>12
  <2>2. job'[w].at = "effect" => This(w)'.effect # "none"
    BY <1>14, <1>15 DEF This
  <2>3. job'[w].step <= Len(Steps(w)') /\ job'[w].out = "pass" /\ job'[w].at # "ended"
    BY <1>1, <1>4, <1>14, <1>15 DEF Working
  <2> QED BY <1>6, <1>11, <1>12, <1>14, <1>16, <2>1, <2>2, <2>3 DEF Working
<1>18. JobMove(w)
  BY <1>1, <1>2, <1>3, <1>14, <1>17 DEF JobMove
<1>19. UNCHANGED <<sync, admission, deferrals, interrupts, doubt, released>>
  BY DEF Checkpoint
<1>20. released' \subseteq Op /\ released \subseteq released' /\ row[o].status \in Blocking
  BY <1>12, <1>19 DEF LaneInv, TypeOK, Blocking
<1>21. \A p \in Op : wrote'[p] => \/ wrote[p]
                                  \/ /\ row'[p].status \notin {"none", "pending"}
                                     /\ row'[p].status \in Blocking => Touched(p)'
  <2> SUFFICES ASSUME NEW p \in Op, wrote'[p], ~ wrote[p]
               PROVE  /\ row'[p].status \notin {"none", "pending"}
                      /\ row'[p].status \in Blocking => Touched(p)'
    OBVIOUS
  <2>1. p = o /\ This(w).effect = "prod"
    BY <1>14
  <2>2. row'[o].status = "running"
    BY <1>7, <1>8, <1>12
  <2> QED BY <1>11, <2>1, <2>2
<1> QED BY <1>7, <1>13, <1>14, <1>18, <1>19, <1>20, <1>21, OneOpStep

-----------------------------------------------------------------------------
(* The end of a run.                                                       *)

(* A worker that is done with its operation.                               *)
LEMMA DoneJob ==
    ASSUME LaneInv, NEW w \in Worker, job' = [job EXCEPT ![w] = Idle]
    PROVE  /\ job' \in [Worker -> Job] /\ job'[w] = Idle
           /\ \A v \in Worker \ {w} : job'[v] = job[v]
<1>1. Idle \in Job
  BY DEF Job, Idle
<1> QED BY <1>1 DEF LaneInv, TypeOK

(* The owner of the lease, at the end of a run whose effects are known,    *)
(* leaves nobody at an effect.                                             *)
LEMMA EndedIsUnused ==
    ASSUME LaneInv, NEW w \in Worker, NEW o \in Op, job[w].op = o, job[w].at = "ended",
           Owns(w, o), o \notin released,
           ~ (Release(o) /\ job[w].out = "raised" /\ row[o].written)
    PROVE  Unused(o)
<1>1. ~ doubt[o]
  <2> SUFFICES ASSUME doubt[o]
               PROVE  FALSE
    OBVIOUS
  <2>1. Carried(o)
    BY DEF LaneInv, Doubted
  <2>2. row[o].status = "running" /\ row[o].owner = w /\ job[w] # Idle
    BY DEF Owns, Idle
  <2>3. Release(o) /\ job[w].out = "raised" /\ Touched(o)
    BY <2>1, <2>2 DEF Carried
  <2>4. row[o].written
    BY <2>3 DEF Touched, Release
  <2> QED BY <2>3, <2>4
<1>2. ASSUME NEW v \in Worker, Committed(v), job[v].op = o
      PROVE  FALSE
  <2>1. job[v] # Idle /\ Working(v)
    BY <1>2 DEF LaneInv, Committed, Idle
  <2>2. row[o].status = "reconciliation_required" \/ Owns(v, o)
    BY <1>2, <2>1 DEF Working
  <2>3. v = w
    BY <2>2 DEF Owns
  <2> QED BY <1>2, <2>3 DEF Committed
<1> QED BY <1>1, <1>2 DEF Unused

LEMMA RefundedFacts ==
    ASSUME LaneInv, NEW o \in Op, NEW j \in Work
    PROVE  Refunded(row[o], j) \in Attempts /\ Refunded(row[o], j) <= row[o].attempt
           /\ Refunded(row[o], j) \in Int
<1>1. row[o].attempt \in Int /\ row[o].attempt >= 0 /\ row[o].attempt \in Attempts
  <2>1. row[o].attempt \in Attempts
    BY DEF LaneInv, TypeOK, Row, Attempts
  <2> QED BY <2>1, RowFacts DEF LaneInv
<1>2. MaxAttempts \in Int /\ MaxDeferrals \in Int
  BY DurableAssumption
<1> DEFINE n == row[o].attempt
<1>3. Refunded(row[o], j) = n \/ (n > 0 /\ Refunded(row[o], j) = n - 1)
  BY DEF Refunded
<1>4. n \in Int /\ n >= 0 /\ n \in Attempts
  BY <1>1
<1> HIDE DEF n
<1>5. /\ Refunded(row[o], j) \in Attempts /\ Refunded(row[o], j) <= n
      /\ Refunded(row[o], j) \in Int
  BY <1>2, <1>3, <1>4 DEF Attempts
<1> QED BY <1>5 DEF n

(* The ends of a release that are written to its row.                      *)
LEMMA EndingFacts ==
    ASSUME NEW r, NEW j \in Work, j.out = "unverified" => KindOf[j.op] = "restore"
    PROVE  /\ Ending(r, j) \in {"pass", "fail", "hold", "retry"}
           /\ Ending(r, j) = "pass" <=> j.out = "pass"
           /\ Ending(r, j) \in {"hold", "retry"} => Release(j.op)
           /\ Ending(r, j) = "retry" =>
                /\ j.out \in {"held", "unordered"} /\ ~ j.resumes
                /\ j.out = "unordered" => ~ r.written
           /\ Ending(r, j) \in {"pass", "fail"} /\ Release(j.op) =>
                ~ (j.out = "raised" /\ r.written)
<1>1. j.out \in Outcome /\ (Release(j.op) => j.out # "unverified")
  BY DEF Work, Release
<1>2. CASE Release(j.op)
  <2>1. Ending(r, j) = ReleaseEnding(r, j)
    BY <1>2 DEF Ending
  <2>2. CASE j.out \in {"pass", "fail", "refused", "aborted", "denied"}
    BY <1>2, <2>1, <2>2 DEF ReleaseEnding
  <2>3. CASE j.out = "held"
    BY <1>2, <2>1, <2>3 DEF ReleaseEnding
  <2>4. CASE j.out = "unordered"
    BY <1>2, <2>1, <2>4 DEF ReleaseEnding
  <2>5. CASE j.out = "raised"
    BY <1>2, <2>1, <2>5 DEF ReleaseEnding
  <2> QED BY <1>1, <1>2, <2>2, <2>3, <2>4, <2>5 DEF Outcome
<1>3. CASE ~ Release(j.op)
  BY <1>3 DEF Ending
<1> QED BY <1>2, <1>3

(* The row of a finished operation.                                        *)
LEMMA FinishedFacts ==
    ASSUME NEW r \in Row, NEW j \in Work, j.out = "unverified" => KindOf[j.op] = "restore",
           Ending(r, j) \in {"pass", "fail"}
    PROVE  /\ Finished(r, j) \in Row /\ Finished(r, j).status = Ending(r, j)
           /\ Finished(r, j).attempt \in {0, r.attempt}
           /\ Finished(r, j).unverified => /\ Ending(r, j) = "fail"
                                           /\ j.out = "unverified" \/ r.unverified
<1> DEFINE e == Ending(r, j)
           kept == j.out = "unverified" \/ (r.unverified /\ j.out \in {"raised", "denied"})
           m == r.marks
           n == r.attempt
           t(x) == [NoRow EXCEPT !.status = x]
<1>1. e = "pass" <=> j.out = "pass"
  BY EndingFacts
<1>2. m \in SUBSET Phases /\ n \in Attempts
  BY DEF Row, Phases, Attempts
<1>3. CASE kept
  <2>1. e = "fail"
    BY <1>1, <1>3
  <2>2. Finished(r, j) = [t("fail") EXCEPT !.marks = m, !.attempt = n, !.unverified = TRUE]
    BY <1>3 DEF Finished, Terminal
  <2> HIDE DEF e, m, n
  <2>3. [t("fail") EXCEPT !.marks = m, !.attempt = n, !.unverified = TRUE] \in Row
    BY <1>2, NoRowType
  <2>4. /\ [t("fail") EXCEPT !.marks = m, !.attempt = n, !.unverified = TRUE].status = "fail"
        /\ [t("fail") EXCEPT !.marks = m, !.attempt = n, !.unverified = TRUE].attempt = n
    BY DEF NoRow
  <2> QED BY <1>3, <2>1, <2>2, <2>3, <2>4 DEF e, n
<1>4. CASE ~ kept
  <2>1. Finished(r, j) = t(e)
    BY <1>4 DEF Finished, Terminal
  <2> HIDE DEF e
  <2>2. t(e) \in Row
    BY NoRowType DEF e, Phases
  <2>3. t(e).status = e /\ t(e).attempt = 0 /\ t(e).unverified = FALSE
    BY DEF NoRow
  <2> QED BY <2>1, <2>2, <2>3 DEF e
<1> QED BY <1>3, <1>4

(* The row of the operation is left as it is when its lease is gone.       *)
LEMMA CompleteStaleInv ==
    ASSUME LaneInv, NEW w \in Worker, Complete(w), ~ LeaseIsCurrent(w)
    PROVE  LaneInv'
<1>1. /\ job' = [job EXCEPT ![w] = Idle] /\ row' = row
      /\ UNCHANGED <<sync, admission, deferrals, interrupts, wrote, doubt, released>>
  BY DEF Complete, history
<1>2. /\ job' \in [Worker -> Job] /\ job'[w] = Idle
      /\ \A v \in Worker \ {w} : job'[v] = job[v]
  BY <1>1, DoneJob
<1>3. JobMove(w)
  BY <1>2 DEF JobMove
<1>4. TypeOK' /\ deferrals' \in Nat /\ deferrals <= deferrals'
  BY <1>1, <1>2, DurableAssumption DEF LaneInv, TypeOK
<1>5. \A o \in Op : (wrote'[o] => wrote[o]) /\ (doubt'[o] => doubt[o])
  BY <1>1
<1> QED BY <1>1, <1>2, <1>3, <1>4, <1>5, JobStep

(* One write to the row of the operation, and the worker is done.          *)
LEMMA EndedStep ==
    ASSUME LaneInv, NEW w \in Worker, NEW o \in Op, NEW r \in Row, row' = [row EXCEPT ![o] = r],
           RowMove(o), row[o].status = "running", job' = [job EXCEPT ![w] = Idle],
           UNCHANGED <<sync, admission, deferrals, interrupts, wrote, doubt, released>>
    PROVE  LaneInv'
<1>1. /\ job' \in [Worker -> Job] /\ job'[w] = Idle
      /\ \A v \in Worker \ {w} : job'[v] = job[v]
  BY DoneJob
<1>2. JobMove(w)
  BY <1>1 DEF JobMove
<1>3. row[o].status \in Blocking /\ released' \subseteq Op /\ wrote' \in [Op -> BOOLEAN]
      /\ released \subseteq released'
  BY DEF LaneInv, TypeOK, Blocking
<1>4. \A p \in Op : (wrote'[p] => wrote[p]) /\ (wrote[p] => wrote'[p])
  OBVIOUS
<1> QED BY <1>1, <1>2, <1>3, <1>4, OneOpStep

(* A promotion that fails frees the lane for its recovery alone.           *)
LEMMA RecoveryQueuedInv ==
    ASSUME LaneInv, NEW w \in Worker, NEW o \in Op, job[w].op = o, RecoveryQueued(w),
           row[o].status = "running", Unused(o) \/ o \in released,
           job' = [job EXCEPT ![w] = Idle],
           UNCHANGED <<sync, admission, deferrals, interrupts, wrote, doubt, released>>
    PROVE  LaneInv'
<1> DEFINE q == RecoveryOf[o]
           r == Terminal(row[o], "fail")
           m == {"created"}
           s == [NoRow EXCEPT !.status = "pending", !.marks = m]
<1>1. o \in DOMAIN RecoveryOf /\ row' = [row EXCEPT ![o] = r, ![q] = s]
  BY DEF RecoveryQueued
<1>2. q \in Op /\ KindOf[q] = "rollback" /\ KindOf[o] = "promotion" /\ q # o
  BY <1>1, DurableAssumption
<1>3. r \in Row /\ r.status = "fail" /\ r.attempt = 0
  BY NoRowType DEF Terminal, NoRow, Phases
<1>4. s \in Row /\ s.status = "pending" /\ s.attempt = 0
  <2>1. m \in SUBSET Phases
    BY PhaseFacts
  <2>2. "pending" \in Blocking \cup {"none", "pass", "fail", "cancelled"}
    BY DEF Blocking
  <2> HIDE DEF m
  <2>3. s \in Row
    BY <2>1, <2>2, NoRowType
  <2>4. s.status = "pending" /\ s.attempt = 0
    BY DEF NoRow
  <2> QED BY <2>3, <2>4
<1> HIDE DEF q, r, s
<1>5. /\ row' \in [Op -> Row] /\ row'[o] = r /\ row'[q] = s
      /\ \A p \in Op \ {o, q} : row'[p] = row[p]
  BY <1>1, <1>2, <1>3, <1>4 DEF LaneInv, TypeOK
<1>6. row[q].status = "none"
  BY <1>1 DEF LaneInv, RecoveriesFollow, q
<1>7. /\ job' \in [Worker -> Job] /\ job'[w] = Idle
      /\ \A v \in Worker \ {w} : job'[v] = job[v]
  BY DoneJob
<1>8. TypeOK'
  BY <1>5, <1>7 DEF LaneInv, TypeOK
<1>9. \A p \in Op : RowMove(p)
  <2> TAKE p \in Op
  <2>1. CASE p = o
    BY <1>3, <1>5, <2>1 DEF RowMove, Blocking
  <2>2. CASE p = q
    BY <1>4, <1>5, <1>6, <2>2 DEF RowMove
  <2>3. CASE p # o /\ p # q
    BY <1>5, <2>3 DEF RowMove
  <2> QED BY <2>1, <2>2, <2>3
<1>10. o \in Holders
  BY DEF Holders, Blocking
<1>11. OneHolder'
  <2>1. sync' # "running"
    BY <1>10 DEF LaneInv, OneHolder
  <2>2. \A p \in Op : row'[p].status \in Blocking => p = q
    <3> TAKE p \in Op
    <3>1. p # o /\ p # q /\ row[p].status \in Blocking => p \in Holders
      BY DEF Holders
    <3> QED BY <1>3, <1>5, <1>10, <3>1 DEF LaneInv, OneHolder, Blocking
  <2> QED BY <2>1, <2>2 DEF OneHolder, Holders
<1>12. RecoveriesFollow'
  <2> SUFFICES ASSUME NEW p \in DOMAIN RecoveryOf, row'[RecoveryOf[p]].status # "none"
               PROVE  row'[p].status = "fail"
    BY DEF RecoveriesFollow
  <2>1. p \in Op /\ KindOf[p] = "promotion" /\ RecoveryOf[p] \in Op
        /\ KindOf[RecoveryOf[p]] = "rollback"
    BY DurableAssumption
  <2>2. CASE p = o
    BY <1>3, <1>5, <2>2
  <2>3. CASE p # o
    <3>1. RecoveryOf[p] # q
      BY <1>1, <2>3, DurableAssumption DEF q
    <3>2. RecoveryOf[p] # o /\ p # q
      BY <1>2, <2>1
    <3>3. row[p].status = "fail"
      BY <1>5, <2>1, <3>1, <3>2 DEF LaneInv, RecoveriesFollow
    <3> QED BY <1>5, <2>1, <2>3, <3>2, <3>3
  <2> QED BY <2>2, <2>3
<1>13. \A v \in Worker : JobMove(v)
  BY <1>7 DEF JobMove
<1>14. deferrals' \in Nat /\ deferrals <= deferrals'
  BY DurableAssumption DEF LaneInv, TypeOK
<1>15. \A p \in Op : (wrote'[p] => wrote[p]) /\ (doubt'[p] => doubt[p])
  OBVIOUS
<1>16. Move
  BY <1>7, <1>9, <1>13, <1>14, <1>15 DEF Move
<1> QED BY <1>8, <1>11, <1>12, <1>16, MoveInv

(* A worker that still owns its lease writes how its run ended.            *)
LEMMA CompleteCurrentInv ==
    ASSUME LaneInv, NEW w \in Worker, Complete(w), LeaseIsCurrent(w)
    PROVE  LaneInv'
<1>1. job[w].at = "ended" /\ WriteEnding(w) /\ job[w] # Idle
  <2>1. job[w].at = "ended" /\ WriteEnding(w)
    BY DEF Complete
  <2> QED BY <2>1 DEF Idle
<1>2. /\ job' = [job EXCEPT ![w] = Idle]
      /\ UNCHANGED <<sync, admission, deferrals, interrupts, wrote, doubt, released>>
  BY DEF Complete, history
<1>3. PICK o \in Op : o = job[w].op
  BY <1>1, JobFacts DEF LaneInv
<1>4. Owns(w, o) /\ row[o].status = "running" /\ row[o] \in Row /\ row[o].status \in Blocking
  BY <1>3 DEF LeaseIsCurrent, Owns, LaneInv, TypeOK, Blocking
<1>5. job[w] \in Work /\ Working(w) /\ (job[w].out = "unverified" => KindOf[o] = "restore")
  BY <1>1, <1>3, JobFacts DEF LaneInv, Working
<1> DEFINE e == Ending(row[o], job[w])
           n == Refunded(row[o], job[w])
<1>6. /\ e \in {"pass", "fail", "hold", "retry"}
      /\ e \in {"hold", "retry"} => Release(o)
      /\ e = "retry" =>
           /\ job[w].out \in {"held", "unordered"} /\ ~ job[w].resumes
           /\ job[w].out = "unordered" => ~ row[o].written
      /\ e \in {"pass", "fail"} => ~ (Release(o) /\ job[w].out = "raised" /\ row[o].written)
  BY <1>3, <1>5, EndingFacts
<1>7. n \in Attempts /\ n <= row[o].attempt /\ n \in Int
  BY <1>5, RefundedFacts
<1>8. e \in {"pass", "fail"} => Unused(o) \/ o \in released
  BY <1>1, <1>3, <1>4, <1>6, EndedIsUnused
<1>9. CASE NeedsRecovery(row[o], job[w]) /\ RecoveryQueued(w)
  <2>1. e = "fail"
    BY <1>9 DEF NeedsRecovery
  <2> QED BY <1>2, <1>3, <1>4, <1>8, <1>9, <2>1, RecoveryQueuedInv
<1>10. ASSUME row' = [row EXCEPT ![o] =
                          [Unleased(row[o]) EXCEPT !.status = "reconciliation_required"]]
       PROVE  LaneInv'
  <2> DEFINE u == Unleased(row[o])
             r == [u EXCEPT !.status = "reconciliation_required"]
  <2>1. /\ u \in Row /\ u.phase = row[o].phase /\ u.written = row[o].written
        /\ u.attempt = row[o].attempt /\ u.marks = row[o].marks
    BY <1>4, UnleasedType DEF Unleased, Row
  <2>2. row' = [row EXCEPT ![o] = r]
    BY <1>10
  <2> HIDE DEF u
  <2>3. /\ r \in Row /\ r.status = "reconciliation_required" /\ r.attempt = row[o].attempt
        /\ r.phase = row[o].phase /\ r.written = row[o].written /\ r.marks = row[o].marks
    BY <2>1 DEF Row, Blocking
  <2> HIDE DEF r
  <2>4. row'[o] = r
    BY <2>2, <2>3, OneRow
  <2>5. r.attempt <= row[o].attempt
    BY <2>3, RowFacts DEF LaneInv
  <2>6. RowMove(o)
    BY <1>4, <2>3, <2>4, <2>5 DEF RowMove
  <2> QED BY <1>2, <1>4, <2>2, <2>3, <2>6, EndedStep
<1>11. CASE ~ NeedsRecovery(row[o], job[w]) /\ e = "hold"
  <2> DEFINE u == Unleased(row[o])
             r == [u EXCEPT !.status = "reconciliation_required", !.attempt = n]
  <2>1. /\ u \in Row /\ u.phase = row[o].phase /\ u.written = row[o].written
        /\ u.marks = row[o].marks
    BY <1>4, UnleasedType DEF Unleased, Row
  <2>2. row' = [row EXCEPT ![o] = r]
    BY <1>1, <1>3, <1>11 DEF WriteEnding, Held
  <2> HIDE DEF u, n
  <2>3. /\ r \in Row /\ r.status = "reconciliation_required" /\ r.attempt = n
        /\ r.phase = row[o].phase /\ r.written = row[o].written /\ r.marks = row[o].marks
    BY <1>7, <2>1 DEF Row, Blocking, Attempts
  <2> HIDE DEF r
  <2>4. row'[o] = r
    BY <2>2, <2>3, OneRow
  <2>5. RowMove(o)
    BY <1>4, <1>7, <2>3, <2>4 DEF RowMove
  <2> QED BY <1>2, <1>4, <2>2, <2>3, <2>5, EndedStep
<1>12. CASE ~ NeedsRecovery(row[o], job[w]) /\ e = "retry"
  <2> DEFINE u == Unleased(row[o])
             p == IF row[o].marks = {} THEN "created" ELSE row[o].phase
             r == [u EXCEPT !.status = "pending", !.attempt = n, !.phase = p]
  <2>1. u \in Row
    BY <1>4, UnleasedType
  <2>2. row' = [row EXCEPT ![o] = r]
    BY <1>1, <1>3, <1>12 DEF WriteEnding, Retried
  <2>3. p \in Phases
    BY <1>4, PhaseFacts DEF Row, Phases
  <2> HIDE DEF u, n, p
  <2>4. r \in Row /\ r.status = "pending" /\ r.attempt = n
    BY <1>7, <2>1, <2>3 DEF Row, Blocking, Attempts, Phases
  <2> HIDE DEF r
  <2>5. row'[o] = r
    BY <2>2, <2>4, OneRow
  <2>6. /\ row[o].attempt < MaxAttempts + deferrals
        /\ ~ row[o].written
    BY <1>1, <1>3, <1>4, <1>5, <1>6, <1>12 DEF Working
  <2>7. KindOf[o] # "bootstrap" /\ ~ Touched(o)
    BY <1>6, <1>12, <2>6 DEF Release, Touched
  <2>8. ~ wrote[o] /\ (o \in released' \/ Unused(o))
    BY <1>2, <1>4, <2>7, UntouchedIsUnwritten, UnusedWhen
  <2>9. n < MaxAttempts + deferrals
    <3>1. row[o].attempt \in Int /\ MaxAttempts \in Int /\ deferrals \in Int
      BY RowFacts DEF LaneInv
    <3> QED BY <1>7, <2>6, <3>1
  <2>10. RowMove(o)
    BY <1>4, <2>4, <2>5, <2>7, <2>8, <2>9 DEF RowMove
  <2> QED BY <1>2, <1>4, <2>2, <2>4, <2>10, EndedStep
<1>13. CASE ~ NeedsRecovery(row[o], job[w]) /\ e \in {"pass", "fail"}
  <2> DEFINE r == Finished(row[o], job[w])
  <2>1. row' = [row EXCEPT ![o] = r]
    BY <1>1, <1>3, <1>13 DEF WriteEnding
  <2>2. r \in Row /\ r.status = e /\ r.attempt \in {0, row[o].attempt}
    BY <1>3, <1>4, <1>5, <1>13, FinishedFacts
  <2> HIDE DEF r, e
  <2>3. row'[o] = r
    BY <2>1, <2>2, OneRow
  <2>4. RowMove(o)
    BY <1>2, <1>4, <1>8, <1>13, <2>2, <2>3 DEF RowMove
  <2> QED BY <1>2, <1>4, <2>1, <2>2, <2>4, EndedStep
<1>14. CASE NeedsRecovery(row[o], job[w])
  BY <1>1, <1>3, <1>9, <1>10, <1>14 DEF WriteEnding
<1> QED BY <1>6, <1>11, <1>12, <1>13, <1>14

LEMMA CompleteInv ==
    ASSUME LaneInv, NEW w \in Worker, Complete(w)
    PROVE  LaneInv'
BY CompleteStaleInv, CompleteCurrentInv

-----------------------------------------------------------------------------
(* The invariant.                                                          *)

LEMMA InitInv ==
    ASSUME Init
    PROVE  LaneInv
<1>1. \A o \in Op : row[o] = NoRow /\ ~ wrote[o] /\ ~ doubt[o]
  BY DEF Init
<1>2. \A w \in Worker : job[w] = Idle
  BY DEF Init
<1>3. NoRow.status = "none" /\ NoRow.attempt = 0 /\ NoRow \in Row
  <2>1. 0 \in Attempts /\ "created" \in Phases
    BY DurableAssumption, PhaseFacts DEF Attempts
  <2> QED BY <2>1 DEF NoRow, Row, Attempts, Phases
<1>4. TypeOK
  <2>1. Idle \in Job
    BY DEF Idle, Job
  <2> QED BY <1>3, <2>1, DurableAssumption DEF Init, TypeOK
<1>5. OneHolder
  BY <1>1, <1>3 DEF OneHolder, Holders, Blocking, Init
<1>6. RecoveriesFollow
  BY <1>1, <1>3, DurableAssumption DEF RecoveriesFollow
<1>7. \A w \in Worker : ~ Committed(w) /\ Working(w)
  BY <1>2 DEF Committed, Working, Idle
<1>8. ASSUME NEW o \in Op
      PROVE  Accounted(o) /\ Doubted(o)
  <2>1. deferrals = 0 /\ MaxAttempts \in Int /\ MaxAttempts > 0
    BY DurableAssumption DEF Init
  <2>2. row[o].attempt < Budget(o)
    BY <1>1, <1>3, <2>1 DEF Budget
  <2> QED BY <1>1, <1>3, <2>2 DEF Accounted, Doubted
<1> QED BY <1>4, <1>5, <1>6, <1>7, <1>8 DEF LaneInv, OneCommitted

LEMMA StutterInv ==
    ASSUME LaneInv, UNCHANGED vars
    PROVE  LaneInv'
<1>1. UNCHANGED <<row, job, sync, admission, deferrals, interrupts, wrote, doubt, released>>
  BY DEF vars, history
<1>2. TypeOK' /\ OneHolder'
  BY <1>1 DEF LaneInv, TypeOK, OneHolder, Holders
<1> QED BY <1>1, <1>2, SameRows

LEMMA NextInv ==
    ASSUME LaneInv, [Next]_vars
    PROVE  LaneInv'
<1>1. ASSUME NEW w \in Worker, WorkerNext(w)
      PROVE  LaneInv'
  <2>1. CASE Checkpoint(w)
    BY <2>1, CheckpointInv
  <2>2. CASE Unrecorded(w)
    BY <2>2, UnrecordedInv
  <2>3. CASE LeaseLost(w)
    BY <2>3, LeaseLostInv
  <2>4. CASE Denied(w)
    BY <2>4, DeniedInv
  <2>5. CASE Deferred(w)
    BY <2>5, DeferredInv
  <2>6. CASE EffectDone(w)
    BY <2>6, EffectDoneInv
  <2>7. CASE EffectFails(w)
    BY <2>7, EffectFailsInv
  <2>8. CASE EffectUncertain(w)
    BY <2>8, EffectUncertainInv
  <2>9. CASE HeartbeatLost(w)
    BY <2>9, HeartbeatLostInv
  <2>10. CASE Complete(w)
    BY <2>10, CompleteInv
  <2>11. CASE Crash(w)
    BY <2>11, CrashInv
  <2>12. ASSUME NEW o \in Op, Claim(w, o)
         PROVE  LaneInv'
    BY <2>12, ClaimInv
  <2>13. ASSUME NEW o \in Op, NEW charge \in BOOLEAN, ClaimReconciliation(w, o, charge)
         PROVE  LaneInv'
    BY <2>13, ClaimReconciliationInv
  <2> QED BY <1>1, <2>1, <2>2, <2>3, <2>4, <2>5, <2>6, <2>7, <2>8, <2>9, <2>10, <2>11,
             <2>12, <2>13 DEF WorkerNext
<1>2. ASSUME NEW o \in Op, OpNext(o)
      PROVE  LaneInv'
  BY <1>2, CreateInv, InspectInv, CancelInv, RequeueInv, RecoverInv,
     LeaseRunsOutInv, DelayElapsesInv
     DEF OpNext
<1>3. CASE UNCHANGED vars
  BY <1>3, StutterInv
<1> QED BY <1>1, <1>2, <1>3, SyncInv, DrainInv, ReplaceInv DEF Next

-----------------------------------------------------------------------------
(* Which runs of a restore only replay its end.                            *)

(* What a step may do to the result of an operation, and to its lease.     *)
ReplayRow(o) ==
    LET r == row[o]  s == row'[o] IN
    /\ s.unverified => KindOf[o] = "restore" /\ s.status \in {"fail", "pending", "running"}
    /\ o \in released' => Release(o) \/ s.status = "cancelled"
    /\ s.status = "running" =>
          \/ r.status = "running" /\ s.owner = r.owner /\ s.unverified = r.unverified
          \/ r.status # "running" /\ (job'[s.owner].replays <=> s.unverified)

(* What it may do to a worker: no run changes what it is.                  *)
ReplayJob(w) ==
    \/ job'[w] = job[w]
    \/ job'[w] = Idle
    \/ job[w] # Idle /\ job'[w].op = job[w].op /\ job'[w].replays = job[w].replays
    \/ row[job'[w].op].status # "running"

LEMMA ReplaysStay ==
    ASSUME Replays, TypeOK', \A o \in Op : ReplayRow(o), \A w \in Worker : ReplayJob(w)
    PROVE  Replays'
<1>1. ASSUME NEW w \in Worker, job'[w] # Idle, row'[job'[w].op].status = "running",
             row'[job'[w].op].owner = w
      PROVE  job'[w].replays <=> row'[job'[w].op].unverified
  <2>1. PICK o \in Op : o = job'[w].op
    BY <1>1 DEF TypeOK, Job, Idle
  <2>2. ReplayRow(o) /\ ReplayJob(w)
    OBVIOUS
  <2>3. CASE row[o].status # "running"
    BY <1>1, <2>1, <2>2, <2>3 DEF ReplayRow
  <2>4. CASE row[o].status = "running"
    <3>1. row'[o].owner = row[o].owner /\ row'[o].unverified = row[o].unverified
      BY <1>1, <2>1, <2>2, <2>4 DEF ReplayRow
    <3>2. job[w] # Idle /\ job[w].op = o /\ job'[w].replays = job[w].replays
      BY <1>1, <2>1, <2>2, <2>4 DEF ReplayJob
    <3>3. Owns(w, o)
      BY <1>1, <2>1, <2>4, <3>1 DEF Owns
    <3> QED BY <2>1, <3>1, <3>2, <3>3 DEF Replays
  <2> QED BY <2>3, <2>4
<1>2. \A o \in Op : /\ row'[o].unverified => /\ KindOf[o] = "restore"
                                            /\ row'[o].status \in {"fail", "pending", "running"}
                    /\ o \in released' => Release(o) \/ row'[o].status = "cancelled"
  BY DEF ReplayRow
<1> QED BY <1>1, <1>2 DEF Replays, Owns, Release

(* A step that leaves the rows alone.                                      *)
LEMMA ReplaysSameRows ==
    ASSUME Replays, TypeOK', row' = row, released' = released, \A w \in Worker : ReplayJob(w)
    PROVE  Replays'
<1>1. \A o \in Op : ReplayRow(o)
  BY DEF ReplayRow, Replays
<1> QED BY <1>1, ReplaysStay

(* A step on the row of one operation.                                     *)
LEMMA ReplaysOneRow ==
    ASSUME LaneInv, Replays, TypeOK', NEW o \in Op, NEW r \in Row, row' = [row EXCEPT ![o] = r],
           row'[o] = r => ReplayRow(o), released' \subseteq released \cup {o},
           \A w \in Worker : ReplayJob(w)
    PROVE  Replays'
<1>1. row'[o] = r /\ \A p \in Op \ {o} : row'[p] = row[p]
  BY OneRow
<1>2. \A p \in Op : ReplayRow(p)
  BY <1>1 DEF ReplayRow, Replays
<1> QED BY <1>2, ReplaysStay

(* The steps of a run, but for its end, leave its operation and its kind.  *)
LEMMA ReplaysRun ==
    ASSUME LaneInv, Replays, TypeOK', NEW w \in Worker,
           \/ Unrecorded(w) \/ LeaseLost(w) \/ Denied(w) \/ Deferred(w) \/ EffectDone(w)
           \/ EffectFails(w) \/ EffectUncertain(w) \/ HeartbeatLost(w) \/ Crash(w)
    PROVE  Replays'
<1>0. TypeOK /\ job \in [Worker -> Job]
  BY DEF LaneInv, TypeOK
<1>1. row' = row /\ released' = released
  BY DEF Unrecorded, LeaseLost, Denied, Deferred, EffectDone, EffectFails, EffectUncertain,
     HeartbeatLost, Crash, history
<1>2. job[w] # Idle
  <2>1. job[w].at \in {"step", "effect"} \/ job[w] # Idle
    BY DEF Unrecorded, LeaseLost, Denied, Deferred, EffectDone, EffectFails, EffectUncertain,
       HeartbeatLost, Crash, AtStep
  <2> QED BY <2>1 DEF Idle
<1>3. job[w] \in Work
  BY <1>0, <1>2, JobFacts
<1>4. ASSUME NEW out \in Outcome, End(w, out)
      PROVE  \A v \in Worker : ReplayJob(v)
  BY <1>0, <1>2, <1>4, EndStep DEF ReplayJob
<1>5. CASE Unrecorded(w)
  <2>1. AtStep(w) /\ Proceed(w)
    BY <1>5 DEF Unrecorded
  <2>2. \A v \in Worker : ReplayJob(v)
    BY <1>0, <1>2, <2>1, ProceedStep DEF ReplayJob
  <2> QED BY <1>1, <2>2, ReplaysSameRows
<1>6. CASE LeaseLost(w) \/ Denied(w) \/ Deferred(w) \/ EffectFails(w) \/ EffectUncertain(w)
  <2>1. \E out \in Outcome : End(w, out)
    BY <1>6 DEF LeaseLost, Denied, Deferred, EffectFails, EffectUncertain, Outcome
  <2> QED BY <1>1, <1>4, <2>1, ReplaysSameRows
<1>7. CASE EffectDone(w)
  <2>1. CASE End(w, job[w].out)
    <3>1. job[w].out \in Outcome
      BY <1>3 DEF Work
    <3> QED BY <1>1, <1>4, <2>1, <3>1, ReplaysSameRows
  <2>2. CASE ~ End(w, job[w].out)
    <3> DEFINE n == job[w].step + 1
               j == [job[w] EXCEPT !.at = "step", !.step = n]
    <3>1. job' = [job EXCEPT ![w] = j]
      BY <1>7, <2>2 DEF EffectDone
    <3> HIDE DEF n
    <3>2. j.op = job[w].op /\ j.replays = job[w].replays
      BY <1>3 DEF Work
    <3> HIDE DEF j
    <3>3. \A v \in Worker : ReplayJob(v)
      BY <1>0, <1>2, <3>1, <3>2 DEF ReplayJob
    <3> QED BY <1>1, <3>3, ReplaysSameRows
  <2> QED BY <2>1, <2>2
<1>8. CASE HeartbeatLost(w)
  <2> DEFINE j == [job[w] EXCEPT !.lost = TRUE]
  <2>1. job' = [job EXCEPT ![w] = j]
    BY <1>8 DEF HeartbeatLost
  <2>2. j.op = job[w].op /\ j.replays = job[w].replays
    BY <1>3 DEF Work
  <2> HIDE DEF j
  <2>3. \A v \in Worker : ReplayJob(v)
    BY <1>0, <1>2, <2>1, <2>2 DEF ReplayJob
  <2> QED BY <1>1, <2>3, ReplaysSameRows
<1>9. CASE Crash(w)
  <2>1. \A v \in Worker : ReplayJob(v)
    BY <1>0, <1>9 DEF Crash, ReplayJob
  <2> QED BY <1>1, <2>1, ReplaysSameRows
<1> QED BY <1>5, <1>6, <1>7, <1>8, <1>9

LEMMA ReplaysCheckpoint ==
    ASSUME LaneInv, Replays, TypeOK', NEW w \in Worker, Checkpoint(w)
    PROVE  Replays'
<1>1. TypeOK /\ AtStep(w) /\ Proceed(w) /\ job[w] # Idle
  BY DEF LaneInv, Checkpoint, AtStep, Idle
<1>2. PICK o \in Op : o = job[w].op
  BY <1>1, JobFacts
<1>3. row[o].status = "running" /\ released' = released
  BY <1>2 DEF Checkpoint, LeaseIsCurrent
<1>4. PICK r \in Row : /\ row' = [row EXCEPT ![o] = r] /\ r.status = row[o].status
                       /\ r.owner = row[o].owner /\ r.unverified = row[o].unverified
  BY <1>2, RecordedRow
<1>5. row'[o] = r => ReplayRow(o)
  BY <1>3, <1>4 DEF ReplayRow, Replays
<1>6. \A v \in Worker : ReplayJob(v)
  BY <1>1, ProceedStep DEF ReplayJob
<1> QED BY <1>3, <1>4, <1>5, <1>6, ReplaysOneRow

(* A claim takes what the row shows into the run.                          *)
LEMMA ReplaysClaim ==
    ASSUME LaneInv, Replays, TypeOK', NEW w \in Worker, NEW o \in Op,
           Claim(w, o) \/ \E charge \in BOOLEAN : ClaimReconciliation(w, o, charge)
    PROVE  Replays'
<1>0. row[o] \in Row /\ job \in [Worker -> Job]
  BY DEF LaneInv, TypeOK
<1>1. CASE Claim(w, o)
  <2>1. /\ row[o].status = "pending" /\ released' = released
        /\ job' = [job EXCEPT ![w] = NewJob(o, FALSE, TRUE)]
    BY <1>1, ClaimedRow DEF Claim, history
  <2>2. PICK r \in Row : /\ row' = [row EXCEPT ![o] = r] /\ r.status = "running"
                         /\ r.owner = w /\ r.unverified = row[o].unverified
    BY <1>1, ClaimedRow DEF Claim
  <2>3. /\ job'[w].op = o /\ job'[w].replays = row[o].unverified
        /\ \A v \in Worker \ {w} : job'[v] = job[v]
    BY <1>0, <2>1 DEF NewJob
  <2>4. row'[o] = r => ReplayRow(o)
    BY <2>1, <2>2, <2>3 DEF ReplayRow, Replays
  <2>5. \A v \in Worker : ReplayJob(v)
    BY <2>1, <2>3 DEF ReplayJob
  <2> QED BY <2>1, <2>2, <2>4, <2>5, ReplaysOneRow
<1>2. ASSUME NEW charge \in BOOLEAN, ClaimReconciliation(w, o, charge)
      PROVE  Replays'
  <2> DEFINE n == row[o].attempt + (IF charge THEN 1 ELSE 0)
             r == [Leased(row[o], w) EXCEPT !.attempt = n]
  <2>1. /\ Release(o) /\ row[o].status = "reconciliation_required"
        /\ row' = [row EXCEPT ![o] = r] /\ released' = released \cup {o}
        /\ job' = [job EXCEPT ![w] = NewJob(o, TRUE, charge)]
    BY <1>2 DEF ClaimReconciliation
  <2> HIDE DEF n
  <2>2. r.status = "running" /\ r.owner = w /\ r.unverified = row[o].unverified
    BY <1>0 DEF Leased, Row
  <2> HIDE DEF r
  <2>3. r \in Row
    BY <1>0, <2>1 DEF TypeOK
  <2>4. /\ job'[w].op = o /\ job'[w].replays = row[o].unverified
        /\ \A v \in Worker \ {w} : job'[v] = job[v]
    BY <1>0, <2>1 DEF NewJob
  <2>5. row'[o] = r => ReplayRow(o)
    BY <2>1, <2>2, <2>4 DEF ReplayRow, Replays
  <2>6. \A v \in Worker : ReplayJob(v)
    BY <2>1, <2>4 DEF ReplayJob
  <2> QED BY <2>1, <2>3, <2>5, <2>6, ReplaysOneRow
<1> QED BY <1>1, <1>2

(* The end of a run leaves a result only of a restore.                     *)
LEMMA ReplaysComplete ==
    ASSUME LaneInv, Replays, TypeOK', NEW w \in Worker, Complete(w)
    PROVE  Replays'
<1>1. job[w].at = "ended" /\ job[w] # Idle
  <2>1. job[w].at = "ended"
    BY DEF Complete
  <2> QED BY <2>1 DEF Idle
<1>2. PICK o \in Op : o = job[w].op
  BY <1>1, JobFacts DEF LaneInv
<1>3. row[o] \in Row /\ row \in [Op -> Row] /\ released' = released /\ job \in [Worker -> Job]
  BY DEF LaneInv, TypeOK, Complete, history
<1>4. \A v \in Worker : ReplayJob(v)
  BY <1>3 DEF Complete, ReplayJob
<1>5. CASE ~ LeaseIsCurrent(w)
  <2>1. row' = row
    BY <1>5 DEF Complete
  <2> QED BY <1>3, <1>4, <2>1, ReplaysSameRows
<1>6. CASE LeaseIsCurrent(w)
  <2>1. row[o].status = "running" /\ WriteEnding(w)
    BY <1>2, <1>6 DEF LeaseIsCurrent, Complete
  <2>2. job[w] \in Work /\ (job[w].out = "unverified" => KindOf[o] = "restore")
    BY <1>1, <1>2, JobFacts DEF LaneInv, Working
  <2>3. /\ o \in released => Release(o)
        /\ row[o].unverified => KindOf[o] = "restore"
    BY <2>1 DEF Replays
  <2> DEFINE e == Ending(row[o], job[w])
  <2>4. /\ e \in {"pass", "fail", "hold", "retry"}
        /\ e \in {"hold", "retry"} => Release(o)
    BY <1>2, <2>2, EndingFacts
  <2>5. CASE RecoveryQueued(w)
    <3> DEFINE q == RecoveryOf[o]
               r == Terminal(row[o], "fail")
               m == {"created"}
               s == [NoRow EXCEPT !.status = "pending", !.marks = m]
    <3>1. o \in DOMAIN RecoveryOf /\ row' = [row EXCEPT ![o] = r, ![q] = s]
      BY <1>2, <2>5 DEF RecoveryQueued
    <3>2. q \in Op /\ KindOf[q] = "rollback" /\ KindOf[o] = "promotion" /\ q # o
      BY <3>1, DurableAssumption
    <3>3. ~ r.unverified /\ r.status = "fail" /\ ~ s.unverified /\ s.status = "pending"
      BY DEF Terminal, NoRow
    <3> HIDE DEF q, r, s
    <3>4. row'[o] = r /\ row'[q] = s /\ \A p \in Op \ {o, q} : row'[p] = row[p]
      BY <1>3, <3>1, <3>2
    <3>5. \A p \in Op : ReplayRow(p)
      <4> TAKE p \in Op
      <4>1. CASE p = o
        BY <3>2, <3>3, <3>4, <4>1 DEF ReplayRow, Release
      <4>2. CASE p = q
        BY <3>2, <3>3, <3>4, <4>2 DEF ReplayRow, Release
      <4>3. CASE p # o /\ p # q
        BY <1>3, <3>4, <4>3 DEF ReplayRow, Replays
      <4> QED BY <4>1, <4>2, <4>3
    <3> QED BY <1>4, <3>5, ReplaysStay
  <2>6. ASSUME NEW r, row' = [row EXCEPT ![o] = r],
               r.unverified => KindOf[o] = "restore" /\ r.status \in {"fail", "pending"},
               r.status # "running"
        PROVE  Replays'
    <3>1. r \in Row
      BY <1>3, <2>6 DEF TypeOK
    <3>2. row'[o] = r => ReplayRow(o)
      BY <1>3, <2>3, <2>6 DEF ReplayRow
    <3> QED BY <1>3, <1>4, <2>6, <3>1, <3>2, ReplaysOneRow
  <2>7. CASE row' = [row EXCEPT ![o] = [Unleased(row[o]) EXCEPT
                                            !.status = "reconciliation_required"]]
             /\ NeedsRecovery(row[o], job[w])
    <3> DEFINE r == [Unleased(row[o]) EXCEPT !.status = "reconciliation_required"]
    <3>1. r.status = "reconciliation_required" /\ r.unverified = row[o].unverified
      BY <1>3 DEF Unleased, Row
    <3>2. KindOf[o] = "promotion"
      BY <1>2, <2>7 DEF NeedsRecovery
    <3>3. row' = [row EXCEPT ![o] = r]
      BY <2>7
    <3> HIDE DEF r
    <3> QED BY <2>3, <2>6, <3>1, <3>2, <3>3
  <2>8. CASE ~ NeedsRecovery(row[o], job[w]) /\ e = "hold"
    <3> DEFINE r == Held(row[o], job[w])
    <3>1. r.status = "reconciliation_required" /\ r.unverified = row[o].unverified
      BY <1>3 DEF Held, Unleased, Row
    <3>2. row' = [row EXCEPT ![o] = r]
      BY <1>2, <2>1, <2>8 DEF WriteEnding
    <3>3. KindOf[o] # "restore"
      BY <2>4, <2>8 DEF Release
    <3> HIDE DEF r
    <3> QED BY <2>3, <2>6, <3>1, <3>2, <3>3
  <2>9. CASE ~ NeedsRecovery(row[o], job[w]) /\ e = "retry"
    <3> DEFINE r == Retried(row[o], job[w])
    <3>1. r.status = "pending" /\ r.unverified = row[o].unverified
      BY <1>3 DEF Retried, Unleased, Row
    <3>2. row' = [row EXCEPT ![o] = r]
      BY <1>2, <2>1, <2>9 DEF WriteEnding
    <3> HIDE DEF r
    <3> QED BY <2>3, <2>6, <3>1, <3>2
  <2>10. CASE ~ NeedsRecovery(row[o], job[w]) /\ e \in {"pass", "fail"}
    <3> DEFINE r == Finished(row[o], job[w])
    <3>1. r.status = e /\ (r.unverified => e = "fail" /\ KindOf[o] = "restore")
      BY <1>2, <1>3, <2>2, <2>3, <2>10, FinishedFacts
    <3>2. row' = [row EXCEPT ![o] = r]
      BY <1>2, <2>1, <2>10 DEF WriteEnding
    <3> HIDE DEF r, e
    <3> QED BY <2>6, <2>10, <3>1, <3>2
  <2>11. CASE NeedsRecovery(row[o], job[w])
    BY <1>2, <2>1, <2>5, <2>7, <2>11 DEF WriteEnding
  <2> QED BY <2>4, <2>8, <2>9, <2>10, <2>11
<1> QED BY <1>5, <1>6

(* A result is left by no other step.                                      *)
LEMMA ReplaysOp ==
    ASSUME LaneInv, Replays, TypeOK', NEW o \in Op, OpNext(o)
    PROVE  Replays'
<1>1. /\ row[o] \in Row /\ row \in [Op -> Row] /\ job' = job
      /\ released \subseteq released' /\ released' \subseteq released \cup {o}
  BY DEF LaneInv, TypeOK, OpNext, Create, Inspect, Cancel, Requeue, Recover, LeaseRunsOut,
     DelayElapses, history
<1>2. \A v \in Worker : ReplayJob(v)
  BY <1>1 DEF ReplayJob
<1>3. ASSUME NEW r, row' = [row EXCEPT ![o] = r], row'[o] = r => ReplayRow(o)
      PROVE  Replays'
  <2>1. r \in Row
    BY <1>1, <1>3 DEF TypeOK
  <2> QED BY <1>1, <1>2, <1>3, <2>1, ReplaysOneRow
<1>4. CASE Create(o)
  <2> DEFINE r == [row[o] EXCEPT !.status = "pending"]
  <2>1. /\ row' = [row EXCEPT ![o] = r] /\ row[o].status = "none" /\ released' = released
    BY <1>4 DEF Create, history
  <2>2. r.status = "pending" /\ r.unverified = row[o].unverified
    BY <1>1 DEF Row
  <2> HIDE DEF r
  <2>3. row'[o] = r => ReplayRow(o)
    BY <2>1, <2>2 DEF ReplayRow, Replays
  <2> QED BY <1>3, <2>1, <2>3
<1>5. ASSUME NEW r, row' = [row EXCEPT ![o] = r], released' = released,
             r.status = row[o].status, r.owner = row[o].owner, r.unverified = row[o].unverified
      PROVE  Replays'
  <2>1. row'[o] = r => ReplayRow(o)
    BY <1>5 DEF ReplayRow, Replays
  <2> QED BY <1>3, <1>5, <2>1
<1>6. CASE Inspect(o) \/ DelayElapses(o) \/ LeaseRunsOut(o)
  <2> DEFINE l == IF row[o].lease = "live" THEN "due" ELSE "expired"
             a == [row[o] EXCEPT !.inspected = TRUE]
             b == [row[o] EXCEPT !.settled = TRUE]
             c == [row[o] EXCEPT !.lease = l]
  <2>1. /\ released' = released
        /\ \/ row' = [row EXCEPT ![o] = a] \/ row' = [row EXCEPT ![o] = b]
           \/ row' = [row EXCEPT ![o] = c]
    BY <1>6 DEF Inspect, DelayElapses, LeaseRunsOut, history
  <2> HIDE DEF l
  <2>2. /\ a.status = row[o].status /\ a.owner = row[o].owner /\ a.unverified = row[o].unverified
        /\ b.status = row[o].status /\ b.owner = row[o].owner /\ b.unverified = row[o].unverified
        /\ c.status = row[o].status /\ c.owner = row[o].owner /\ c.unverified = row[o].unverified
    BY <1>1 DEF Row
  <2> HIDE DEF a, b, c
  <2> QED BY <1>5, <2>1, <2>2
<1>7. CASE Cancel(o)
  <2> DEFINE r == Terminal(row[o], "cancelled")
  <2>1. row' = [row EXCEPT ![o] = r]
    BY <1>7 DEF Cancel
  <2>2. r.status = "cancelled" /\ ~ r.unverified
    BY DEF Terminal, NoRow
  <2> HIDE DEF r
  <2>3. row'[o] = r => ReplayRow(o)
    BY <2>2 DEF ReplayRow
  <2> QED BY <1>3, <2>1, <2>3
<1>8. CASE Requeue(o)
  <2> DEFINE r == [row[o] EXCEPT !.status = "pending", !.phase = "started"]
  <2>1. /\ row' = [row EXCEPT ![o] = r] /\ row[o].status = "fail" /\ released' = released
        /\ KindOf[o] = "restore"
    BY <1>8 DEF Requeue, history
  <2>2. r.status = "pending"
    BY <1>1 DEF Row
  <2> HIDE DEF r
  <2>3. row'[o] = r => ReplayRow(o)
    BY <2>1, <2>2 DEF ReplayRow, Replays
  <2> QED BY <1>3, <2>1, <2>3
<1>9. CASE Recover(o)
  <2>1. PICK safe \in BOOLEAN, marks \in SUBSET Phases :
         row' = [row EXCEPT ![o] = Recovered(row[o], safe, marks)]
    <3> DEFINE s == row[o].phase = "created"
               t == row[o].phase \in SafePhases
               u == /\ row[o].phase \in SafePhases
                    /\ row[o].marks \subseteq SafePhases
                    /\ ~ row[o].written
               R(safe, marks) == row' = [row EXCEPT ![o] = Recovered(row[o], safe, marks)]
    <3>1. R(s, row[o].marks) \/ R(t, {}) \/ R(u, row[o].marks \cap {"created"})
      BY <1>9 DEF Recover, RecoverBootstrap, RecoverRestore, RecoverRelease
    <3>2. s \in BOOLEAN /\ t \in BOOLEAN /\ u \in BOOLEAN
      OBVIOUS
    <3>3. row[o].marks \in SUBSET Phases
      BY <1>1 DEF Row, Phases
    <3>4. {} \in SUBSET Phases /\ row[o].marks \cap {"created"} \in SUBSET Phases
      BY <3>3
    <3> HIDE DEF s, t, u
    <3> QED BY <3>1, <3>2, <3>3, <3>4
  <2> DEFINE r == Recovered(row[o], safe, marks)
  <2>2. row[o].status = "running" /\ released' = released
    BY <1>9 DEF Recover, history
  <2>3. \/ r.status = "pending" /\ r.unverified = row[o].unverified
        \/ r.status \in {"fail", "reconciliation_required"} /\ ~ r.unverified
    <3>1. CASE safe /\ row[o].attempt < MaxAttempts
      <4>1. r = Requeued(row[o], marks)
        BY <3>1 DEF Recovered
      <4> HIDE DEF r
      <4> QED BY <1>1, <4>1 DEF Requeued, Unleased, Row
    <3>2. CASE safe /\ ~ (row[o].attempt < MaxAttempts)
      BY <3>2 DEF Recovered, Terminal, NoRow
    <3>3. CASE ~ safe
      <4>1. r = [Unleased(row[o]) EXCEPT !.status = "reconciliation_required",
                                         !.unverified = FALSE]
        BY <3>3 DEF Recovered
      <4> HIDE DEF r
      <4> QED BY <1>1, <4>1 DEF Unleased, Row
    <3> QED BY <3>1, <3>2, <3>3
  <2>4. row' = [row EXCEPT ![o] = r]
    BY <2>1
  <2> HIDE DEF r
  <2>5. row'[o] = r => ReplayRow(o)
    BY <2>2, <2>3 DEF ReplayRow, Replays
  <2> QED BY <1>3, <2>4, <2>5
<1> QED BY <1>4, <1>6, <1>7, <1>8, <1>9 DEF OpNext

LEMMA ReplaysNext ==
    ASSUME LaneInv, Replays, LaneInv', [Next]_vars
    PROVE  Replays'
<1>0. TypeOK'
  BY DEF LaneInv
<1>1. ASSUME NEW w \in Worker, WorkerNext(w)
      PROVE  Replays'
  BY <1>0, <1>1, ReplaysCheckpoint, ReplaysRun, ReplaysComplete, ReplaysClaim DEF WorkerNext
<1>2. ASSUME NEW o \in Op, OpNext(o)
      PROVE  Replays'
  BY <1>0, <1>2, ReplaysOp
<1>3. CASE SyncLock \/ SyncCheck \/ SyncEnd \/ DrainPauses \/ DrainEnds \/ Replace \/ UNCHANGED vars
  <2>1. row' = row /\ released' = released
    BY <1>3 DEF SyncLock, SyncCheck, SyncEnd, DrainPauses, DrainEnds, Replace, vars, history
  <2>2. \A w \in Worker : ReplayJob(w)
    BY <1>3 DEF SyncLock, SyncCheck, SyncEnd, DrainPauses, DrainEnds, Replace, vars, ReplayJob
  <2> QED BY <1>0, <2>1, <2>2, ReplaysSameRows
<1> QED BY <1>1, <1>2, <1>3 DEF Next

(* The inductive invariant holds: whoever enters an effect on production   *)
(* owned the lease and wrote so before, and a row that says so is never    *)
(* queued again by a recovery (postgres.py:18143-18224, 18085-18114), only *)
(* when its run ended and is replayed (postgres.py:17323-17370).           *)
THEOREM InvHolds == Spec => []Inv
<1>1. Init => Inv
  <2>1. Init => Replays
    BY DEF Init, Replays, NoRow, Owns
  <2> QED BY <2>1, InitInv DEF Inv
<1>2. Inv /\ [Next]_vars => Inv'
  BY NextInv, ReplaysNext DEF Inv
<1> QED BY <1>1, <1>2, PTL DEF Spec

(* Every variable keeps its shape, attempts stay within their budget.      *)
THEOREM TypesHold == Spec => []TypeOK
<1>1. Inv => TypeOK
  BY DEF Inv, LaneInv
<1> QED BY <1>1, InvHolds, PTL

-----------------------------------------------------------------------------
(* The lane.                                                               *)

(* A worker at an effect it may not have taken up again is committed, and  *)
(* its operation holds the lane.                                           *)
LEMMA ExecutorFacts ==
    ASSUME LaneInv, NEW w \in Worker, AtEffect(w), job[w].op \notin released
    PROVE  Committed(w) /\ job[w].op \in Holders
<1>1. job[w] # Idle /\ Working(w)
  BY DEF AtEffect, Idle, LaneInv
<1>2. PICK o \in Op : o = job[w].op
  BY <1>1, JobFacts DEF LaneInv
<1>3. Committed(w)
  BY <1>1 DEF Working, Committed, AtEffect
<1>4. row[o].status \in Blocking
  BY <1>1, <1>2, <1>3 DEF Working, Owns, Blocking
<1> QED BY <1>2, <1>3, <1>4 DEF Holders

LEMMA ExecutorsExclude ==
    ASSUME LaneInv
    PROVE  OneExecutor
<1> SUFFICES ASSUME NEW w \in Worker, AtEffect(w), job[w].op \notin released
             PROVE  /\ sync # "running"
                    /\ \A v \in Worker : AtEffect(v) /\ v # w => job[v].op \in released
  BY DEF OneExecutor
<1>1. Committed(w) /\ job[w].op \in Holders
  BY ExecutorFacts
<1>2. sync # "running"
  BY <1>1 DEF LaneInv, OneHolder
<1>3. ASSUME NEW v \in Worker, AtEffect(v), v # w, job[v].op \notin released
      PROVE  FALSE
  <2>1. Committed(v) /\ job[v].op \in Holders
    BY <1>3, ExecutorFacts
  <2>2. job[v].op = job[w].op
    BY <1>1, <2>1 DEF LaneInv, OneHolder
  <2> QED BY <1>1, <1>3, <2>1, <2>2 DEF LaneInv, OneCommitted
<1> QED BY <1>2, <1>3

LEMMA DoubtHolds ==
    ASSUME LaneInv
    PROVE  DoubtHoldsLane
<1> SUFFICES ASSUME NEW o \in Op, o \notin released,
                    doubt[o] \/ \E w \in Worker : AtEffect(w) /\ job[w].op = o
             PROVE  o \in Holders
  BY DEF DoubtHoldsLane
<1>1. CASE doubt[o]
  BY <1>1 DEF LaneInv, Doubted, Carried, Holders, Blocking
<1>2. ASSUME NEW w \in Worker, AtEffect(w), job[w].op = o
      PROVE  o \in Holders
  BY <1>2, ExecutorFacts
<1> QED BY <1>1, <1>2

(* The lane has one holder, be it a durable operation, whoever queued it,  *)
(* or a synchronous release (postgres.py:17786-17840, 18229-18268).        *)
THEOREM LaneIsExclusive == Spec => []OneHolder
<1>1. Inv => OneHolder
  BY DEF Inv, LaneInv
<1> QED BY <1>1, InvHolds, PTL

(* No two workers are at effects on the lane together, however late one of *)
(* them is (odoo_stable_operation_worker.py:1702-1741), unless the lane    *)
(* was released by an admin or a cutover was taken up again.               *)
THEOREM EffectsAreExclusive == Spec => []OneExecutor
<1>1. Inv => OneExecutor
  BY ExecutorsExclude DEF Inv
<1> QED BY <1>1, InvHolds, PTL

(* An effect nobody saw the end of keeps the lane, through crashes, lease  *)
(* recovery and replacement of the service (postgres.py:18143-18224).      *)
THEOREM DoubtIsHeld == Spec => []DoubtHoldsLane
<1>1. Inv => DoubtHoldsLane
  BY DoubtHolds DEF Inv
<1> QED BY <1>1, InvHolds, PTL

-----------------------------------------------------------------------------
(* What a step may never do to a row.                                      *)

(* Which rows the end of a run writes.                                     *)
LEMMA EndingWrites ==
    ASSUME LaneInv, NEW w \in Worker, WriteEnding(w), NEW o \in Op, job[w].op = o,
           row[o].status = "running",
           NEW p \in Op, p # o, row[p].status # "none"
    PROVE  row'[p] = row[p]
<1>1. row \in [Op -> Row]
  BY DEF LaneInv, TypeOK
<1>2. CASE RecoveryQueued(w)
  <2>1. o \in DOMAIN RecoveryOf /\ p # RecoveryOf[o]
    BY <1>2 DEF RecoveryQueued, LaneInv, RecoveriesFollow
  <2> QED BY <1>1, <1>2, <2>1 DEF RecoveryQueued
<1>3. CASE ~ RecoveryQueued(w)
  <2>1. \E r : row' = [row EXCEPT ![o] = r]
    BY <1>3 DEF WriteEnding
  <2> QED BY <1>1, <2>1
<1> QED BY <1>2, <1>3

(* A running operation ends only with its run, or when its lease expired.  *)
LEMMA LeavesRunning ==
    ASSUME LaneInv, [Next]_vars, NEW o \in Op,
           row[o].status = "running", row'[o].status # "running"
    PROVE  \/ \E w \in Worker : Complete(w) /\ LeaseIsCurrent(w) /\ job[w].op = o /\ job[w] # Idle
           \/ Recover(o)
<1>0. row \in [Op -> Row]
  BY DEF LaneInv, TypeOK
<1>1. ASSUME NEW w \in Worker, WorkerNext(w)
      PROVE  Complete(w) /\ LeaseIsCurrent(w) /\ job[w].op = o /\ job[w] # Idle
  <2>1. CASE Checkpoint(w)
    <3>1. PICK p \in Op : p = job[w].op
      <4>1. job[w].at = "step"
        BY <2>1 DEF Checkpoint, AtStep
      <4>2. job[w] # Idle
        BY <4>1 DEF Idle
      <4> QED BY <4>2, JobFacts DEF LaneInv
    <3>2. PICK r \in Row : row' = [row EXCEPT ![p] = r] /\ r.status = row[p].status
      BY <2>1, <3>1, RecordedRow
    <3> QED BY <1>0, <3>2
  <2>2. CASE \/ Unrecorded(w) \/ LeaseLost(w) \/ Denied(w) \/ Deferred(w) \/ EffectDone(w)
             \/ EffectFails(w) \/ EffectUncertain(w) \/ HeartbeatLost(w) \/ Crash(w)
    <3>1. row' = row
      BY <2>2 DEF Unrecorded, LeaseLost, Denied, Deferred, EffectDone, EffectFails,
         EffectUncertain, HeartbeatLost, Crash
    <3> QED BY <3>1
  <2>3. CASE Complete(w)
    <3>1. job[w].at = "ended"
      BY <2>3 DEF Complete
    <3>2. job[w] # Idle
      BY <3>1 DEF Idle
    <3>3. PICK p \in Op : p = job[w].op
      BY <3>2, JobFacts DEF LaneInv
    <3>4. LeaseIsCurrent(w)
      BY <2>3 DEF Complete
    <3>5. row[p].status = "running" /\ WriteEnding(w)
      BY <2>3, <3>3, <3>4 DEF LeaseIsCurrent, Complete
    <3>6. p = o
      BY <3>3, <3>5, EndingWrites
    <3> QED BY <2>3, <3>2, <3>3, <3>4, <3>6
  <2>4. ASSUME NEW p \in Op, Claim(w, p)
        PROVE  FALSE
    <3>1. row[p].status = "pending" /\ \E r \in Row : row' = [row EXCEPT ![p] = r]
      BY <2>4, ClaimedRow DEF Claim
    <3> QED BY <1>0, <3>1
  <2>5. ASSUME NEW p \in Op, NEW charge \in BOOLEAN, ClaimReconciliation(w, p, charge)
        PROVE  FALSE
    <3>1. row[p].status = "reconciliation_required"
      BY <2>5 DEF ClaimReconciliation
    <3>2. \E r : row' = [row EXCEPT ![p] = r]
      BY <2>5 DEF ClaimReconciliation
    <3> QED BY <1>0, <3>1, <3>2
  <2> QED BY <1>1, <2>1, <2>2, <2>3, <2>4, <2>5 DEF WorkerNext
<1>2. ASSUME NEW p \in Op, OpNext(p)
      PROVE  Recover(o)
  <2>1. CASE Create(p) \/ Inspect(p) \/ Cancel(p) \/ Requeue(p) \/ DelayElapses(p)
    <3>1. row[p].status # "running"
      BY <2>1 DEF Create, Inspect, Cancel, Cancellable, Requeue, DelayElapses
    <3>2. \E r : row' = [row EXCEPT ![p] = r]
      BY <2>1 DEF Create, Inspect, Cancel, Requeue, DelayElapses
    <3> QED BY <1>0, <3>1, <3>2
  <2>2. CASE LeaseRunsOut(p)
    <3> DEFINE l == IF row[p].lease = "live" THEN "due" ELSE "expired"
               r == [row[p] EXCEPT !.lease = l]
    <3>1. row' = [row EXCEPT ![p] = r]
      BY <2>2 DEF LeaseRunsOut
    <3> HIDE DEF l
    <3>2. r.status = row[p].status
      BY <1>0 DEF Row
    <3> HIDE DEF r
    <3> QED BY <1>0, <3>1, <3>2
  <2>3. CASE Recover(p)
    <3>1. \E r : row' = [row EXCEPT ![p] = r]
      BY <2>3 DEF Recover, RecoverBootstrap, RecoverRestore, RecoverRelease
    <3> QED BY <1>0, <2>3, <3>1
  <2> QED BY <1>2, <2>1, <2>2, <2>3 DEF OpNext
<1>3. CASE SyncLock \/ SyncCheck \/ SyncEnd \/ DrainPauses \/ DrainEnds \/ Replace \/ UNCHANGED vars
  <2>1. row' = row
    BY <1>3 DEF SyncLock, SyncCheck, SyncEnd, DrainPauses, DrainEnds, Replace, vars
  <2> QED BY <2>1
<1> QED BY <1>1, <1>2, <1>3 DEF Next

(* A restore goes back to the queue only from a phase before its effects.  *)
LEMMA RestoreRequeued ==
    ASSUME LaneInv, [Next]_vars, NEW o \in Op, KindOf[o] = "restore",
           row[o].status = "running", row'[o].status = "pending"
    PROVE  ~ Touched(o)'
<1>0. row \in [Op -> Row] /\ row[o] \in Row
  BY DEF LaneInv, TypeOK
<1>1. ASSUME NEW w \in Worker, Complete(w), LeaseIsCurrent(w), job[w].op = o, job[w] # Idle
      PROVE  FALSE
  <2>1. job[w].at = "ended" /\ WriteEnding(w) /\ job[w] \in Work
    BY <1>1, JobFacts DEF Complete, LaneInv
  <2>2. ~ Release(o) /\ ~ NeedsRecovery(row[o], job[w])
    BY <1>1 DEF Release, NeedsRecovery
  <2> DEFINE r == Finished(row[o], job[w])
  <2>3. Ending(row[o], job[w]) \in {"pass", "fail"}
    BY <1>1, <2>2 DEF Ending
  <2>4. row' = [row EXCEPT ![o] = r]
    BY <1>1, <2>1, <2>2, <2>3 DEF WriteEnding
  <2>5. r.status \in {"pass", "fail"}
    BY <1>0, <1>1, <2>1, <2>3, FinishedFacts
  <2> HIDE DEF r
  <2> QED BY <1>0, <2>4, <2>5
<1>2. Recover(o)
  BY <1>1, LeavesRunning
<1> DEFINE safe == row[o].phase \in SafePhases
           r == Recovered(row[o], safe, {})
<1>3. row' = [row EXCEPT ![o] = r]
  BY <1>2 DEF Recover, RecoverBootstrap, RecoverRestore, RecoverRelease, Release
<1>4. row'[o] = r
  BY <1>0, <1>3
<1>5. CASE safe /\ row[o].attempt < MaxAttempts
  <2>1. r = [Unleased(row[o]) EXCEPT !.status = "pending", !.phase = "created", !.marks = {},
                                     !.settled = TRUE]
    BY <1>5 DEF Recovered, Requeued
  <2>2. r.marks = {}
    BY <1>0, <2>1 DEF Unleased, Row
  <2> HIDE DEF r
  <2> QED BY <1>4, <2>2 DEF Touched
<1>6. CASE safe /\ ~ (row[o].attempt < MaxAttempts)
  BY <1>4, <1>6 DEF Recovered, Terminal, NoRow
<1>7. CASE ~ safe
  <2>1. r = [Unleased(row[o]) EXCEPT !.status = "reconciliation_required", !.unverified = FALSE]
    BY <1>7 DEF Recovered
  <2>2. r.status = "reconciliation_required"
    BY <1>0, <2>1 DEF Unleased, Row
  <2> HIDE DEF r
  <2> QED BY <1>4, <2>2
<1> QED BY <1>5, <1>6, <1>7

(* What goes from a worker back to the queue has not begun a production    *)
(* effect, in this or any earlier attempt (postgres.py:18143-18224).       *)
THEOREM RequeuesAreUntouched == Spec => RequeuedIsUntouched
<1> DEFINE Requeues == \A o \in Op : row[o].status = "running" /\ row'[o].status = "pending"
                                     => ~ wrote'[o]
<1>1. Inv /\ [Next]_vars => Requeues
  <2> SUFFICES ASSUME Inv, [Next]_vars, NEW o \in Op,
                      row[o].status = "running", row'[o].status = "pending", wrote'[o]
               PROVE  FALSE
    OBVIOUS
  <2>1. LaneInv'
    BY NextInv DEF Inv
  <2>2. KindOf[o] = "restore" /\ Touched(o)'
    BY <2>1 DEF LaneInv, Accounted, Holders, Blocking
  <2> QED BY <2>2, RestoreRequeued DEF Inv
<1>2. Inv /\ [Next]_vars => [Requeues]_vars
  BY <1>1
<1>3. Spec => [][Requeues]_vars
  BY <1>2, InvHolds, PTL DEF Spec
<1> QED BY <1>3 DEF RequeuedIsUntouched

(* A terminal row is not written, but for a failed restore that is queued  *)
(* once more.                                                              *)
LEMMA TerminalStays ==
    ASSUME LaneInv, [Next]_vars, NEW p \in Op, row[p].status \in {"pass", "fail", "cancelled"}
    PROVE  row'[p] = row[p] \/ Requeue(p)
<1>0. row \in [Op -> Row]
  BY DEF LaneInv, TypeOK
<1>1. ASSUME NEW w \in Worker, WorkerNext(w)
      PROVE  row'[p] = row[p]
  <2>1. CASE Checkpoint(w)
    <3>1. row[job[w].op].status = "running"
      BY <2>1 DEF Checkpoint, LeaseIsCurrent
    <3>2. \E r : row' = [row EXCEPT ![job[w].op] = r]
      BY <2>1 DEF Checkpoint
    <3> QED BY <1>0, <3>1, <3>2
  <2>2. CASE \/ Unrecorded(w) \/ LeaseLost(w) \/ Denied(w) \/ Deferred(w) \/ EffectDone(w)
             \/ EffectFails(w) \/ EffectUncertain(w) \/ HeartbeatLost(w) \/ Crash(w)
    BY <2>2 DEF Unrecorded, LeaseLost, Denied, Deferred, EffectDone, EffectFails,
       EffectUncertain, HeartbeatLost, Crash
  <2>3. CASE Complete(w)
    <3>1. PICK o \in Op : o = job[w].op
      <4>1. job[w].at = "ended"
        BY <2>3 DEF Complete
      <4>2. job[w] # Idle
        BY <4>1 DEF Idle
      <4> QED BY <4>2, JobFacts DEF LaneInv
    <3>2. CASE LeaseIsCurrent(w)
      <4>1. row[o].status = "running" /\ WriteEnding(w)
        BY <2>3, <3>1, <3>2 DEF LeaseIsCurrent, Complete
      <4>2. p # o /\ row[p].status # "none"
        BY <4>1
      <4> QED BY <3>1, <4>1, <4>2, EndingWrites
    <3>3. CASE ~ LeaseIsCurrent(w)
      BY <2>3, <3>3 DEF Complete
    <3> QED BY <3>2, <3>3
  <2>4. ASSUME NEW o \in Op, Claim(w, o)
        PROVE  row'[p] = row[p]
    <3>1. row[o].status = "pending" /\ \E r \in Row : row' = [row EXCEPT ![o] = r]
      BY <2>4, ClaimedRow DEF Claim
    <3> QED BY <1>0, <3>1
  <2>5. ASSUME NEW o \in Op, NEW charge \in BOOLEAN, ClaimReconciliation(w, o, charge)
        PROVE  row'[p] = row[p]
    <3>1. row[o].status = "reconciliation_required"
      BY <2>5 DEF ClaimReconciliation
    <3>2. \E r : row' = [row EXCEPT ![o] = r]
      BY <2>5 DEF ClaimReconciliation
    <3> QED BY <1>0, <3>1, <3>2
  <2> QED BY <1>1, <2>1, <2>2, <2>3, <2>4, <2>5 DEF WorkerNext
<1>2. ASSUME NEW o \in Op, OpNext(o)
      PROVE  row'[p] = row[p] \/ Requeue(p)
  <2>1. CASE Requeue(o)
    <3>1. \E r : row' = [row EXCEPT ![o] = r]
      BY <2>1 DEF Requeue
    <3> QED BY <1>0, <2>1, <3>1
  <2>2. CASE ~ Requeue(o)
    <3>1. row[o].status \notin {"pass", "fail", "cancelled"}
      BY <1>2, <2>2 DEF OpNext, Create, Inspect, Cancel, Cancellable, Recover, LeaseRunsOut,
         DelayElapses
    <3>2. \E r : row' = [row EXCEPT ![o] = r]
      BY <1>2, <2>2 DEF OpNext, Create, Inspect, Cancel, Recover, RecoverBootstrap, RecoverRestore,
         RecoverRelease, LeaseRunsOut, DelayElapses
    <3> QED BY <1>0, <3>1, <3>2
  <2> QED BY <2>1, <2>2
<1>3. CASE SyncLock \/ SyncCheck \/ SyncEnd \/ DrainPauses \/ DrainEnds \/ Replace \/ UNCHANGED vars
  BY <1>3 DEF SyncLock, SyncCheck, SyncEnd, DrainPauses, DrainEnds, Replace, vars
<1> QED BY <1>1, <1>2, <1>3 DEF Next

(* Whoever is at a production effect of a restore with a result is its     *)
(* owner, and replays it.                                                  *)
LEMMA ReplayerFacts ==
    ASSUME Inv, NEW w \in Worker, AtEffect(w), row[job[w].op].unverified
    PROVE  job[w].replays /\ row[job[w].op].status = "running"
<1>1. job[w] # Idle /\ Working(w)
  BY DEF AtEffect, Idle, Inv, LaneInv
<1>2. PICK o \in Op : o = job[w].op
  BY <1>1, JobFacts DEF Inv, LaneInv
<1>3. KindOf[o] = "restore" /\ row[o].status \in {"fail", "pending", "running"}
  BY <1>2 DEF Inv, Replays
<1>4. ~ job[w].resumes /\ o \notin released
  BY <1>1, <1>2, <1>3 DEF Working, Inv, Replays, Release
<1>5. Committed(w)
  BY <1>4 DEF Committed, AtEffect
<1>6. Owns(w, o)
  BY <1>1, <1>2, <1>3, <1>4, <1>5 DEF Working
<1> QED BY <1>1, <1>2, <1>6 DEF Inv, Replays, Owns

(* A terminal record stays what it is, whatever a worker that lost its     *)
(* lease found (postgres.py:18116-18141): only a restore that failed its   *)
(* verification is queued again, with its evidence, once, on a free lane   *)
(* and with no worker at an effect of it (postgres.py:17323-17370), and no *)
(* run restores again what was restored.                                   *)
THEOREM TerminalRecordsStay == Spec => TerminalIsFinal
<1> DEFINE Final ==
      /\ RestoredOnce
      /\ \A o \in Op :
            row[o].status \in {"pass", "fail", "cancelled"} /\ row'[o] # row[o]
            => /\ KindOf[o] = "restore" /\ row[o].attempt = 1
               /\ row[o].status = "fail" /\ row'[o].status = "pending"
               /\ row'[o].unverified /\ row'[o].marks = row[o].marks
               /\ Holders = {} /\ sync # "running"
               /\ \A w \in Worker : ~ (AtEffect(w) /\ job[w].op = o)
<1>1. Inv /\ [Next]_vars => Final
  <2> SUFFICES ASSUME Inv, [Next]_vars
               PROVE  Final
    OBVIOUS
  <2>1. RestoredOnce
    BY ReplayerFacts DEF RestoredOnce
  <2>2. ASSUME NEW o \in Op, row[o].status \in {"pass", "fail", "cancelled"}, row'[o] # row[o]
        PROVE  /\ KindOf[o] = "restore" /\ row[o].attempt = 1
               /\ row[o].status = "fail" /\ row'[o].status = "pending"
               /\ row'[o].unverified /\ row'[o].marks = row[o].marks
               /\ Holders = {} /\ sync # "running"
               /\ \A w \in Worker : ~ (AtEffect(w) /\ job[w].op = o)
    <3>1. Requeue(o)
      BY <2>2, TerminalStays DEF Inv
    <3>2. row[o] \in Row /\ row \in [Op -> Row]
      BY DEF Inv, LaneInv, TypeOK
    <3> DEFINE r == [row[o] EXCEPT !.status = "pending", !.phase = "started"]
    <3>3. row' = [row EXCEPT ![o] = r]
      BY <3>1 DEF Requeue
    <3>4. r.status = "pending" /\ r.unverified = row[o].unverified /\ r.marks = row[o].marks
      BY <3>2 DEF Row
    <3> HIDE DEF r
    <3>5. row'[o] = r
      BY <3>2, <3>3
    <3>6. /\ KindOf[o] = "restore" /\ row[o].status = "fail" /\ row[o].attempt = 1
          /\ row[o].unverified /\ sync = "free" /\ Holders = {}
      BY <3>1 DEF Requeue, Replayable, LaneFree
    <3>7. \A w \in Worker : ~ (AtEffect(w) /\ job[w].op = o)
      BY <3>6, ReplayerFacts
    <3> QED BY <3>4, <3>5, <3>6, <3>7
  <2> QED BY <2>1, <2>2
<1>2. Inv /\ [Next]_vars => [Final]_vars
  BY <1>1
<1>3. Spec => [][Final]_vars
  BY <1>2, InvHolds, PTL DEF Spec
<1> QED BY <1>3 DEF TerminalIsFinal

(* How the run of a promotion that wrote production can end it as failed.  *)
LEMMA FailedPromotion ==
    ASSUME LaneInv, NEW w \in Worker, NEW o \in Op, job[w].op = o, job[w] # Idle, WriteEnding(w),
           KindOf[o] = "promotion", o \in ClientRelease, row[o].written,
           row'[o].status = "fail", job[w].out \notin {"refused", "aborted"},
           job[w].at = "ended"
    PROVE  Holders' # {}
<1>1. row[o] \in Row /\ row \in [Op -> Row] /\ job[w] \in Work
  BY JobFacts DEF LaneInv, TypeOK
<1>6. job[w].out = "unverified" => KindOf[job[w].op] = "restore"
  BY DEF LaneInv, Working
<1> DEFINE e == Ending(row[o], job[w])
<1>2. e \in {"pass", "fail", "hold", "retry"}
  BY <1>1, <1>6, EndingFacts
<1>3. CASE RecoveryQueued(w)
  <2> DEFINE q == RecoveryOf[o]
             m == {"created"}
             s == [NoRow EXCEPT !.status = "pending", !.marks = m]
  <2>1. row' = [row EXCEPT ![o] = Terminal(row[o], "fail"), ![q] = s]
    BY <1>3 DEF RecoveryQueued
  <2>2. q \in Op /\ s.status = "pending"
    BY <1>3, DurableAssumption DEF RecoveryQueued, NoRow
  <2> HIDE DEF q, s
  <2>3. row'[q] = s
    BY <1>1, <2>1, <2>2
  <2> QED BY <2>2, <2>3 DEF Holders, Blocking
<1>4. CASE NeedsRecovery(row[o], job[w]) /\ ~ RecoveryQueued(w)
  <2> DEFINE r == [Unleased(row[o]) EXCEPT !.status = "reconciliation_required"]
  <2>1. row' = [row EXCEPT ![o] = r]
    BY <1>4 DEF WriteEnding
  <2>2. r.status = "reconciliation_required"
    BY <1>1 DEF Unleased, Row
  <2> HIDE DEF r
  <2> QED BY <1>1, <2>1, <2>2
<1>5. CASE ~ NeedsRecovery(row[o], job[w])
  <2>1. e # "fail"
    BY <1>5 DEF NeedsRecovery
  <2> DEFINE r == CASE e = "hold" -> Held(row[o], job[w])
                    [] e = "retry" -> Retried(row[o], job[w])
                    [] OTHER -> Finished(row[o], job[w])
  <2>2. row' = [row EXCEPT ![o] = r]
    BY <1>5 DEF WriteEnding
  <2>3. /\ Held(row[o], job[w]).status = "reconciliation_required"
        /\ Retried(row[o], job[w]).status = "pending"
        /\ e = "pass" => Finished(row[o], job[w]).status = e
    <3> DEFINE u == Unleased(row[o])
    <3>1. u \in Row
      BY <1>1, UnleasedType
    <3> HIDE DEF u, e
    <3>2. /\ \A n : [u EXCEPT !.status = "reconciliation_required", !.attempt = n].status
                    = "reconciliation_required"
          /\ \A n, p : [u EXCEPT !.status = "pending", !.attempt = n, !.phase = p].status
                       = "pending"
      BY <3>1 DEF Row
    <3>3. e = "pass" => Finished(row[o], job[w]).status = e
      BY <1>1, <1>6, FinishedFacts DEF e
    <3> QED BY <3>2, <3>3 DEF Held, Retried, u
  <2>4. r.status \in {"reconciliation_required", "pending", "pass"}
    BY <1>2, <2>1, <2>3
  <2> HIDE DEF r
  <2>5. row'[o] = r
    BY <1>1, <2>2
  <2> QED BY <2>4, <2>5
<1> QED BY <1>3, <1>4, <1>5

(* A running promotion that wrote production fails only as its run ends.   *)
LEMMA OnlyRunsFail ==
    ASSUME LaneInv, [Next]_vars, NEW o \in Op, KindOf[o] = "promotion", row[o].written,
           row[o].status = "running", row'[o].status = "fail"
    PROVE  \E w \in Worker : Complete(w) /\ LeaseIsCurrent(w) /\ job[w].op = o /\ job[w] # Idle
<1>0. row \in [Op -> Row]
  BY DEF LaneInv, TypeOK
<1>1. ~ Recover(o)
  <2> SUFFICES ASSUME Recover(o)
               PROVE  FALSE
    OBVIOUS
  <2>1. RecoverRelease(o)
    BY DEF Recover, RecoverBootstrap, RecoverRestore
  <2> DEFINE safe == /\ row[o].phase \in SafePhases
                     /\ row[o].marks \subseteq SafePhases
                     /\ ~ row[o].written
             r == Recovered(row[o], safe, row[o].marks \cap {"created"})
  <2>2. row' = [row EXCEPT ![o] = r]
    BY <2>1 DEF RecoverRelease
  <2>3. ~ safe
    OBVIOUS
  <2> HIDE DEF safe
  <2>4. r = [Unleased(row[o]) EXCEPT !.status = "reconciliation_required", !.unverified = FALSE]
    BY <2>3 DEF Recovered
  <2>5. r.status = "reconciliation_required"
    BY <1>0, <2>4 DEF Unleased, Row
  <2> HIDE DEF r
  <2> QED BY <1>0, <2>2, <2>5
<1> QED BY <1>1, LeavesRunning

(* A Client release that failed after its production write does not free   *)
(* the lane (postgres.py:18426-18472, odoo_release_recovery.py:142): its   *)
(* recovery holds it, unless the cutover was refused or aborted.           *)
THEOREM FailedReleasesKeepTheLane == Spec => FailedReleaseKeepsLane
<1> DEFINE Kept == \A o \in ClientRelease :
                      /\ KindOf[o] = "promotion" /\ row[o].written
                      /\ row[o].status = "running" /\ row'[o].status = "fail"
                      => \/ Holders' # {}
                         \/ \E w \in Worker : /\ job[w].at = "ended" /\ job[w].op = o
                                             /\ job[w].out \in {"refused", "aborted"}
<1>1. Inv /\ [Next]_vars => Kept
  <2> SUFFICES ASSUME Inv, [Next]_vars, NEW o \in ClientRelease,
                      KindOf[o] = "promotion", row[o].written,
                      row[o].status = "running", row'[o].status = "fail"
               PROVE  \/ Holders' # {}
                      \/ \E w \in Worker : /\ job[w].at = "ended" /\ job[w].op = o
                                          /\ job[w].out \in {"refused", "aborted"}
    OBVIOUS
  <2>1. o \in Op
    BY DurableAssumption
  <2>2. PICK w \in Worker : Complete(w) /\ LeaseIsCurrent(w) /\ job[w].op = o /\ job[w] # Idle
    BY <2>1, OnlyRunsFail DEF Inv
  <2>3. job[w].at = "ended" /\ WriteEnding(w)
    BY <2>2 DEF Complete
  <2>4. CASE job[w].out \in {"refused", "aborted"}
    BY <2>2, <2>3, <2>4
  <2>5. CASE job[w].out \notin {"refused", "aborted"}
    BY <2>1, <2>2, <2>3, <2>5, FailedPromotion DEF Inv
  <2> QED BY <2>4, <2>5
<1>2. Inv /\ [Next]_vars => [Kept]_vars
  BY <1>1
<1>3. Spec => [][Kept]_vars
  BY <1>2, InvHolds, PTL DEF Spec
<1> QED BY <1>3 DEF FailedReleaseKeepsLane

=============================================================================

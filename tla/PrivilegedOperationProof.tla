---------------------- MODULE PrivilegedOperationProof ----------------------
(***************************************************************************)
(* Proofs about PrivilegedOperation for every set of operations, workers   *)
(* and descriptors and any number of foreign writes and crashes.           *)
(*                                                                         *)
(* The argument: the reservation of an execution is acquired once, so an   *)
(* operation has at most one executor, and a worker recovers it only after *)
(* the reservation stopped running (Knows).  As long as a write is not on  *)
(* record the reservation holds its target; it is settled as failed only   *)
(* by an executor that did not write, after which nobody may (Settled,     *)
(* Truthful).  Every write compares the version that was reviewed, and a   *)
(* write of the policy also the version that authorized it.                *)
(*                                                                         *)
(* Steps come in three kinds: those that move records (RecordStep), those  *)
(* that move reservations (ReservationStep) and writes (WriteStep).        *)
(***************************************************************************)
EXTENDS PrivilegedOperation, FiniteSetTheorems, TLAPS

-----------------------------------------------------------------------------
(* Facts about the state.                                                  *)

LEMMA OpFacts ==
    ASSUME TypeOK, NEW o \in Op
    PROVE  /\ op[o] \in Record /\ Kind(o) \in Things
           /\ op[o].plan \in Versions /\ op[o].plan \in Int
           /\ res[o] \in Reservation
BY PrivilegedAssumption, FS_CardinalityType DEF TypeOK, Record, Kind, Versions

LEMMA VersionFacts ==
    ASSUME TypeOK
    PROVE  /\ Cardinality(Op) \in Nat /\ Cardinality(inner) \in Nat /\ IsFiniteSet(inner)
           /\ drifts \in Int /\ MaxDrifts \in Int
           /\ \A k \in Things : version[k] \in Versions /\ version[k] \in Nat
           /\ 0 \in Versions
<1>1. IsFiniteSet(inner) /\ Cardinality(inner) \in Nat /\ Cardinality(Op) \in Nat
  BY PrivilegedAssumption, FS_Subset, FS_CardinalityType DEF TypeOK
<1> QED BY <1>1, PrivilegedAssumption DEF TypeOK, Versions

LEMMA WorkerFacts ==
    ASSUME TypeOK, NEW w \in Worker
    PROVE  /\ wk[w] \in Job /\ wk[w].seen \in Int
           /\ wk[w].done \in BOOLEAN /\ wk[w].doubt \in BOOLEAN
           /\ w # NoWorker
BY PrivilegedAssumption, VersionFacts DEF TypeOK, Job, Versions

(* What the steps do to the worker that takes them.                        *)
LEMMA GotoStep ==
    ASSUME TypeOK, NEW w \in Worker, NEW label, Goto(w, label)
    PROVE  /\ wk'[w].pc = label /\ wk'[w].op = wk[w].op /\ wk'[w].seen = wk[w].seen
           /\ wk'[w].done = wk[w].done /\ wk'[w].doubt = wk[w].doubt
           /\ \A v \in Worker \ {w} : wk'[v] = wk[v]
BY WorkerFacts DEF TypeOK, Goto, Job

LEMMA RaiseStep ==
    ASSUME TypeOK, NEW w \in Worker, Raise(w)
    PROVE  /\ wk'[w].pc = (IF wk[w].done THEN "mark" ELSE "settle")
           /\ wk'[w].op = wk[w].op /\ wk'[w].done = wk[w].done
           /\ \A v \in Worker \ {w} : wk'[v] = wk[v]
BY WorkerFacts DEF TypeOK, Raise, Job

LEMMA FinishStep ==
    ASSUME TypeOK, NEW w \in Worker, Finish(w)
    PROVE  /\ wk'[w] = Idle /\ Knows(w)' /\ ~ Committing(w)'
           /\ \A o \in Op : ~ MayWrite(w, o)'
           /\ \A v \in Worker \ {w} : wk'[v] = wk[v]
<1>1. wk'[w] = Idle /\ \A v \in Worker \ {w} : wk'[v] = wk[v]
  BY DEF TypeOK, Finish
<1>2. wk'[w].pc = "idle"
  BY <1>1 DEF Idle
<1>3. Knows(w)'
  BY <1>1, <1>2 DEF Knows, Committing, Owning, Reviving, Idle
<1>4. ~ Committing(w)' /\ \A o \in Op : ~ MayWrite(w, o)'
  BY <1>2 DEF MayWrite, Committing
<1> QED BY <1>1, <1>3, <1>4

-----------------------------------------------------------------------------
(* Types.                                                                  *)

LEMMA FinishType ==
    ASSUME TypeOK, NEW w \in Worker, Finish(w)
    PROVE  wk' \in [Worker -> Job]
<1>1. 0 \in Versions
  BY VersionFacts
<1>2. Idle \in Job
  BY <1>1 DEF Idle, Job
<1> QED BY <1>2 DEF TypeOK, Finish

LEMMA RaiseType ==
    ASSUME TypeOK, NEW w \in Worker, Raise(w)
    PROVE  wk' \in [Worker -> Job]
<1>1. [wk[w] EXCEPT !.pc = IF wk[w].done THEN "mark" ELSE "settle",
                    !.seen = 0, !.doubt = wk[w].done] \in Job
  BY WorkerFacts, VersionFacts DEF Job
<1>2. wk' = [wk EXCEPT ![w] = [wk[w] EXCEPT !.pc = IF wk[w].done THEN "mark" ELSE "settle",
                                            !.seen = 0, !.doubt = wk[w].done]]
  BY DEF Raise
<1> QED BY <1>1, <1>2 DEF TypeOK

LEMMA DoneType ==
    ASSUME TypeOK, NEW w \in Worker, Done(w)
    PROVE  wk' \in [Worker -> Job]
<1>1. [wk[w] EXCEPT !.pc = "record", !.seen = 0, !.done = TRUE] \in Job
  BY WorkerFacts, VersionFacts DEF Job
<1>2. wk' = [wk EXCEPT ![w] = [wk[w] EXCEPT !.pc = "record", !.seen = 0, !.done = TRUE]]
  BY DEF Done
<1> QED BY <1>1, <1>2 DEF TypeOK

LEMMA GotoType ==
    ASSUME TypeOK, NEW w \in Worker,
           NEW label \in {"reserve", "claim", "release", "authorize", "replan", "apply",
                          "record", "complete", "settle", "mark", "fail", "distrust",
                          "prepare", "reauthorize", "recover", "adopt_record", "adopt",
                          "give_up"},
           Goto(w, label)
    PROVE  wk' \in [Worker -> Job]
BY WorkerFacts DEF TypeOK, Goto, Job

LEMMA StatusType ==
    ASSUME TypeOK, NEW o \in Op, NEW d \in BOOLEAN
    PROVE  /\ [op EXCEPT ![o].status = "executing"] \in [Op -> Record]
           /\ [op EXCEPT ![o].status = "executed"] \in [Op -> Record]
           /\ [op EXCEPT ![o].status = "approved"] \in [Op -> Record]
           /\ [op EXCEPT ![o].status = "cancelled"] \in [Op -> Record]
           /\ [op EXCEPT ![o].status = "revoked"] \in [Op -> Record]
           /\ [op EXCEPT ![o].viewed = TRUE] \in [Op -> Record]
           /\ Failed(o, d) \in [Op -> Record]
<1>1. op[o] \in Record /\ op \in [Op -> Record]
  BY DEF TypeOK
<1>2. [op[o] EXCEPT !.status = "execution_failed", !.doubt = d] \in Record
  BY <1>1 DEF Record
<1>3. Failed(o, d) \in [Op -> Record]
  BY <1>1, <1>2 DEF Failed
<1> QED BY <1>1, <1>3 DEF Record

LEMMA CompletedType ==
    ASSUME TypeOK, NEW w \in Worker, Mine(w) \in Op, NEW code \in {200, 409}
    PROVE  Completed(w, code) \in Reservation /\ Marked(w) \in Reservation
<1> DEFINE r == res[Mine(w)]
<1>1. r \in Reservation
  BY OpFacts
<1> HIDE DEF r
<1>2. Expire(r) \in Reservation
  BY <1>1 DEF Expire, Reservation
<1> DEFINE y == [r EXCEPT !.state = "completed"]
<1>3. y \in Reservation
  BY <1>1 DEF Reservation
<1> HIDE DEF y
<1>4. [y EXCEPT !.code = code] \in Reservation
  BY <1>3 DEF Reservation
<1> QED BY <1>1, <1>2, <1>4 DEF Completed, Marked, r, y

(* The version that a write makes is still within bounds.                  *)
LEMMA WriteType ==
    ASSUME TypeOK, VersionsBounded, NEW o \in Op, o \notin inner, Write(o)
    PROVE  /\ inner' \subseteq Op /\ effects' \subseteq Op \X Versions
           /\ version' \in [Things -> Versions] /\ granted' \in BOOLEAN
           /\ Cardinality(inner') = Cardinality(inner) + 1
           /\ version'[Kind(o)] = version[Kind(o)] + 1
           /\ \A k \in Things \ {Kind(o)} : version'[k] = version[k]
<1>1. Kind(o) \in Things /\ version[Kind(o)] \in Versions
  BY OpFacts, VersionFacts
<1>2. inner' = inner \cup {o} /\ inner' \subseteq Op
  BY DEF Write, TypeOK
<1>3. Cardinality(inner') = Cardinality(inner) + 1
  BY <1>2, VersionFacts, FS_AddElement
<1>4. Cardinality(inner') <= Cardinality(Op)
  BY <1>2, PrivilegedAssumption, FS_Subset
<1>5. version[Kind(o)] + 1 \in Versions
  BY <1>1, <1>3, <1>4, VersionFacts, PrivilegedAssumption DEF VersionsBounded, Versions, TypeOK
<1>6. /\ version' \in [Things -> Versions]
      /\ version'[Kind(o)] = version[Kind(o)] + 1
      /\ \A k \in Things \ {Kind(o)} : version'[k] = version[k]
  BY <1>1, <1>5 DEF Write, TypeOK
<1>7. effects' \subseteq Op \X Versions /\ granted' \in BOOLEAN
  BY <1>1 DEF Write, TypeOK
<1> QED BY <1>2, <1>3, <1>6, <1>7

LEMMA PeopleType ==
    ASSUME TypeOK, NEW o \in Op, People(o) \/ LeaseRunsOut(o)
    PROVE  TypeOK'
<1>1. ASSUME NEW k \in Kinds, Plan(o, k)
      PROVE  TypeOK'
  <2>1. k \in Things /\ version[k] \in Versions
    BY PrivilegedAssumption, VersionFacts DEF Things
  <2>2. \A changes \in BOOLEAN :
          [NoRecord EXCEPT !.status = "planned", !.kind = k, !.plan = version[k],
                           !.expects = changes] \in Record
    BY <2>1, VersionFacts DEF NoRecord, Record, Things
  <2> QED BY <1>1, <2>2 DEF Plan, TypeOK
<1>2. CASE View(o) \/ Approve(o) \/ Cancel(o) \/ Revoke(o)
  <2>1. /\ [op EXCEPT ![o].status = "approved"] \in [Op -> Record]
        /\ [op EXCEPT ![o].status = "cancelled"] \in [Op -> Record]
        /\ [op EXCEPT ![o].status = "revoked"] \in [Op -> Record]
        /\ [op EXCEPT ![o].viewed = TRUE] \in [Op -> Record]
    BY StatusType
  <2>2. op' \in [Op -> Record]
    <3>1. CASE View(o) BY <2>1, <3>1 DEF View
    <3>2. CASE Approve(o) BY <2>1, <3>2 DEF Approve
    <3>3. CASE Cancel(o) BY <2>1, <3>3 DEF Cancel
    <3>4. CASE Revoke(o) BY <2>1, <3>4 DEF Revoke
    <3> QED BY <1>2, <3>1, <3>2, <3>3, <3>4
  <2> QED BY <1>2, <2>2 DEF View, Approve, Cancel, Revoke, TypeOK
<1>3. CASE LeaseRunsOut(o)
  <2>1. [res[o] EXCEPT !.lease = "past"] \in Reservation
    BY OpFacts DEF Reservation
  <2> QED BY <1>3, <2>1 DEF LeaseRunsOut, TypeOK
<1> QED BY <1>1, <1>2, <1>3 DEF People

LEMMA DriftType ==
    ASSUME TypeOK, VersionsBounded, NEW k \in Things, Drift(k)
    PROVE  TypeOK' /\ VersionsBounded'
<1>1. drifts' = drifts + 1 /\ drifts' \in 0..MaxDrifts
  BY PrivilegedAssumption DEF Drift, TypeOK
<1>2. Cardinality(inner) <= Cardinality(Op)
  BY PrivilegedAssumption, FS_Subset DEF TypeOK
<1>3. version[k] + 1 \in Versions
  BY <1>1, <1>2, VersionFacts DEF VersionsBounded, Versions
<1>4. TypeOK'
  BY <1>1, <1>3 DEF Drift, TypeOK
<1>5. VersionsBounded'
  BY <1>1, VersionFacts DEF Drift, VersionsBounded, TypeOK
<1> QED BY <1>4, <1>5

LEMMA CrashType ==
    ASSUME TypeOK, NEW w \in Worker, Crash(w)
    PROVE  TypeOK'
BY PrivilegedAssumption, FinishType DEF Crash, TypeOK

LEMMA PickType ==
    ASSUME TypeOK, NEW w \in Worker, NEW o \in Op, PickApproved(w, o) \/ PickExecuting(w, o)
    PROVE  TypeOK'
<1>1. /\ [wk[w] EXCEPT !.pc = "reserve", !.op = o] \in Job
      /\ [wk[w] EXCEPT !.pc = "prepare", !.op = o] \in Job
  BY WorkerFacts DEF Job
<1>2. \/ wk' = [wk EXCEPT ![w] = [wk[w] EXCEPT !.pc = "reserve", !.op = o]]
      \/ wk' = [wk EXCEPT ![w] = [wk[w] EXCEPT !.pc = "prepare", !.op = o]]
  BY DEF PickApproved, PickExecuting
<1>3. wk' \in [Worker -> Job]
  BY <1>1, <1>2 DEF TypeOK
<1> QED BY <1>3 DEF PickApproved, PickExecuting, TypeOK

LEMMA GuardType ==
    ASSUME TypeOK, NEW w \in Worker, Guard(w)
    PROVE  TypeOK'
<1>1. version["authz"] \in Versions
  BY VersionFacts DEF Things
<1>2. \A label \in {"commit", "recommit"} :
        [wk[w] EXCEPT !.pc = label, !.seen = version["authz"]] \in Job
  BY <1>1, WorkerFacts DEF Job
<1>3. \E label \in {"commit", "recommit"} :
        wk' = [wk EXCEPT ![w] = [wk[w] EXCEPT !.pc = label, !.seen = version["authz"]]]
  BY DEF Guard
<1> QED BY <1>2, <1>3 DEF Guard, TypeOK

LEMMA ExecuteType ==
    ASSUME TypeOK, VersionsBounded, NEW w \in Worker, Knows(w), Mine(w) \in Op, Execute(w)
    PROVE  TypeOK'
<1> DEFINE o == Mine(w)
<1> USE GotoType, FinishType, RaiseType
<1>1. CASE Reserve(w)
  <2>1. /\ [state |-> "running", owner |-> w, lease |-> "live", code |-> 0] \in Reservation
        /\ \A p \in Op : Expire(res[p]) \in Reservation
    BY OpFacts DEF Reservation, Expire
  <2>2. res' \in [Op -> Reservation]
    BY <1>1, <2>1, OpFacts DEF Reserve, TypeOK
  <2> QED BY <1>1, <2>2 DEF Reserve, TypeOK
<1>2. CASE Claim(w)
  <2>1. op' \in [Op -> Record]
    BY <1>2, StatusType DEF Claim, TypeOK
  <2>2. wk' \in [Worker -> Job]
    BY <1>2 DEF Claim
  <2> QED BY <1>2, <2>1, <2>2 DEF Claim, TypeOK
<1>3. CASE Release(w)
  BY <1>3, CompletedType DEF Release, TypeOK
<1>4. CASE Authorize(w)
  <2>1. CASE wk' = [wk EXCEPT ![w].pc = "replan", ![w].seen = version["authz"]]
    <3>1. version["authz"] \in Versions
      BY VersionFacts DEF Things
    <3>2. [wk[w] EXCEPT !.pc = "replan", !.seen = version["authz"]] \in Job
      BY <3>1, WorkerFacts DEF Job
    <3> QED BY <1>4, <2>1, <3>2 DEF Authorize, TypeOK
  <2> QED BY <1>4, <2>1 DEF Authorize, TypeOK
<1>5. CASE Replan(w)
  BY <1>5 DEF Replan, TypeOK
<1>6. CASE Apply(w)
  <2>1. wk' \in [Worker -> Job] /\ UNCHANGED <<op, res, drifts, crashes>>
    BY <1>6, DoneType DEF Apply, Wrote
  <2>2. lost' \subseteq Op
    BY <1>6 DEF Apply, Wrote, TypeOK
  <2>3. /\ inner' \subseteq Op /\ effects' \subseteq Op \X Versions
        /\ version' \in [Things -> Versions] /\ granted' \in BOOLEAN
    BY <1>6, WriteType DEF Apply, Wrote, TypeOK
  <2> QED BY <2>1, <2>2, <2>3 DEF TypeOK
<1>7. CASE ReadBackFails(w)
  BY <1>7 DEF ReadBackFails, TypeOK
<1>8. CASE RecordExecuted(w)
  <2>1. op' \in [Op -> Record]
    BY <1>8, StatusType DEF RecordExecuted, TypeOK
  <2>2. wk' \in [Worker -> Job]
    BY <1>8 DEF RecordExecuted
  <2> QED BY <1>8, <2>1, <2>2 DEF RecordExecuted, TypeOK
<1>9. CASE CompleteExecuted(w)
  <2>1. res' \in [Op -> Reservation]
    BY <1>9, CompletedType DEF CompleteExecuted, TypeOK
  <2>2. wk' \in [Worker -> Job]
    BY <1>9 DEF CompleteExecuted
  <2> QED BY <1>9, <2>1, <2>2 DEF CompleteExecuted, TypeOK
<1>10. CASE Settle(w)
  <2> DEFINE c == Completed(w, 409)
             denied == [c EXCEPT !.state = "completed", !.code = 409]
             late == res'[o].code # 409
  <2>1. c \in Reservation
    BY CompletedType
  <2>2. denied \in Reservation
    <3> HIDE DEF c
    <3> DEFINE y == [c EXCEPT !.state = "completed"]
    <3>1. y \in Reservation
      BY <2>1 DEF Reservation
    <3> HIDE DEF y
    <3>2. [y EXCEPT !.code = 409] \in Reservation
      BY <3>1 DEF Reservation
    <3> QED BY <3>2 DEF y
  <2>3. res' = [res EXCEPT ![o] = c] \/ res' = [res EXCEPT ![o] = denied]
    BY <1>10 DEF Settle
  <2>4. res' \in [Op -> Reservation]
    <3> HIDE DEF denied, c
    <3> QED BY <2>1, <2>2, <2>3 DEF TypeOK
  <2>5. \E label \in {"fail", "mark"}, d \in BOOLEAN :
            wk' = [wk EXCEPT ![w] = [wk[w] EXCEPT !.pc = label, !.doubt = d]]
    <3>1. late \in BOOLEAN /\ FALSE \in BOOLEAN
      OBVIOUS
    <3>2. \/ wk' = [wk EXCEPT ![w].pc = IF late THEN "mark" ELSE "fail", ![w].doubt = late]
          \/ wk' = [wk EXCEPT ![w].pc = "fail", ![w].doubt = FALSE]
      BY <1>10 DEF Settle
    <3> HIDE DEF late
    <3>3. CASE late
      <4>1. wk' = [wk EXCEPT ![w] = [wk[w] EXCEPT !.pc = "mark", !.doubt = TRUE]]
               \/ wk' = [wk EXCEPT ![w] = [wk[w] EXCEPT !.pc = "fail", !.doubt = FALSE]]
        BY <3>2, <3>3
      <4> QED BY <4>1
    <3>4. CASE ~ late
      <4>1. wk' = [wk EXCEPT ![w] = [wk[w] EXCEPT !.pc = "fail", !.doubt = FALSE]]
        BY <3>1, <3>2, <3>4
      <4> QED BY <4>1
    <3> QED BY <3>3, <3>4
  <2>6. \A label \in {"fail", "mark"}, d \in BOOLEAN :
            [wk[w] EXCEPT !.pc = label, !.doubt = d] \in Job
    <3> SUFFICES ASSUME NEW j \in Job, NEW d \in BOOLEAN
                 PROVE  /\ [j EXCEPT !.pc = "fail", !.doubt = d] \in Job
                        /\ [j EXCEPT !.pc = "mark", !.doubt = d] \in Job
      BY WorkerFacts
    <3>1. [j EXCEPT !.pc = "fail", !.doubt = d] \in Job
      BY DEF Job
    <3>2. [j EXCEPT !.pc = "mark", !.doubt = d] \in Job
      BY DEF Job
    <3> QED BY <3>1, <3>2
  <2>7. wk' \in [Worker -> Job]
    BY <2>5, <2>6 DEF TypeOK
  <2> QED BY <1>10, <2>4, <2>7 DEF Settle, TypeOK
<1>11. CASE Mark(w)
  <2>1. [wk[w] EXCEPT !.pc = "fail", !.doubt = TRUE] \in Job
    BY WorkerFacts DEF Job
  <2>2. wk' = [wk EXCEPT ![w] = [wk[w] EXCEPT !.pc = "fail", !.doubt = TRUE]]
    BY <1>11 DEF Mark
  <2> QED BY <1>11, <2>1, <2>2, CompletedType DEF Mark, TypeOK
<1>12. CASE Distrust(w)
  BY <1>12, CompletedType DEF Distrust, TypeOK
<1>13. CASE Fail(w)
  BY <1>13, StatusType, WorkerFacts DEF Fail, TypeOK
<1>14. CASE Guard(w)
  BY <1>14, GuardType
<1>15. CASE Commit(w)
  <2>1. wk' \in [Worker -> Job] /\ UNCHANGED <<op, res, drifts, crashes>>
    BY <1>15, DoneType DEF Commit, Wrote
  <2>2. lost' \subseteq Op
    BY <1>15 DEF Commit, Wrote, TypeOK
  <2>3. /\ inner' \subseteq Op /\ effects' \subseteq Op \X Versions
        /\ version' \in [Things -> Versions] /\ granted' \in BOOLEAN
    BY <1>15, WriteType DEF Commit, Wrote, Committing, Knows, TypeOK
  <2> QED BY <2>1, <2>2, <2>3 DEF TypeOK
<1> QED BY <1>1, <1>2, <1>3, <1>4, <1>5, <1>6, <1>7, <1>8, <1>9, <1>10, <1>11, <1>12, <1>13,
           <1>14, <1>15
        DEF Execute

LEMMA ReconcileType ==
    ASSUME TypeOK, VersionsBounded, NEW w \in Worker, Knows(w), Mine(w) \in Op, Reconcile(w)
    PROVE  TypeOK'
<1> USE GotoType, FinishType
<1>1. CASE Prepare(w)
  <2>1. Expire(res[Mine(w)]) \in Reservation
    BY OpFacts DEF Reservation, Expire
  <2>2. wk' \in [Worker -> Job]
    BY <1>1 DEF Prepare
  <2> QED BY <1>1, <2>1, <2>2 DEF Prepare, TypeOK
<1>2. CASE Reauthorize(w)
  BY <1>2 DEF Reauthorize, TypeOK
<1>3. CASE Recover(w)
  <2>1. wk' \in [Worker -> Job] /\ UNCHANGED <<op, res, lost, drifts, crashes>>
    BY <1>3 DEF Recover
  <2>2. /\ inner' \subseteq Op /\ effects' \subseteq Op \X Versions
        /\ version' \in [Things -> Versions] /\ granted' \in BOOLEAN
    BY <1>3, WriteType DEF Recover, TypeOK
  <2> QED BY <2>1, <2>2 DEF TypeOK
<1>4. CASE AdoptRecord(w)
  <2>1. op' \in [Op -> Record]
    BY <1>4, StatusType DEF AdoptRecord, TypeOK
  <2>2. wk' \in [Worker -> Job]
    BY <1>4 DEF AdoptRecord
  <2> QED BY <1>4, <2>1, <2>2 DEF AdoptRecord, TypeOK
<1>5. CASE Adopt(w)
  <2>1. [res[Mine(w)] EXCEPT !.state = "completed", !.code = 200] \in Reservation
    <3> DEFINE y == [res[Mine(w)] EXCEPT !.state = "completed"]
    <3>1. y \in Reservation
      BY OpFacts DEF Reservation
    <3> HIDE DEF y
    <3>2. [y EXCEPT !.code = 200] \in Reservation
      BY <3>1 DEF Reservation
    <3> QED BY <3>2 DEF y
  <2>2. res' \in [Op -> Reservation]
    BY <1>5, <2>1 DEF Adopt, TypeOK
  <2> QED BY <1>5, <2>2 DEF Adopt, TypeOK
<1>6. CASE GiveUp(w)
  BY <1>6, StatusType DEF GiveUp, TypeOK
<1>7. CASE Recommit(w)
  <2>1. wk' \in [Worker -> Job] /\ UNCHANGED <<op, res, lost, drifts, crashes>>
    BY <1>7 DEF Recommit
  <2>2. /\ inner' \subseteq Op /\ effects' \subseteq Op \X Versions
        /\ version' \in [Things -> Versions] /\ granted' \in BOOLEAN
    BY <1>7, WriteType DEF Recommit, Committing, Knows, TypeOK
  <2> QED BY <2>1, <2>2 DEF TypeOK
<1> QED BY <1>1, <1>2, <1>3, <1>4, <1>5, <1>6, <1>7 DEF Reconcile

(* Every step keeps the types.                                             *)
LEMMA NextType ==
    ASSUME TypeOK, VersionsBounded, \A w \in Worker : Knows(w), [Next]_vars
    PROVE  TypeOK'
<1>1. CASE \E o \in Op : People(o) \/ LeaseRunsOut(o)
  BY <1>1, PeopleType
<1>2. CASE \E k \in Kinds \cup {"authz"} : Drift(k)
  BY <1>2, DriftType, PrivilegedAssumption DEF Things
<1>3. CASE \E w \in Worker : Execute(w) \/ Reconcile(w)
  <2>1. PICK w \in Worker : Execute(w) \/ Reconcile(w)
    BY <1>3
  <2>2. wk[w].pc # "idle"
    BY <2>1 DEF Execute, Reserve, Claim, Release, Authorize, Replan, Guard, Apply, Commit, ReadBackFails,
                RecordExecuted, CompleteExecuted, Settle, Mark, Distrust, Fail,
                Reconcile, Prepare, Reauthorize, Recover, Recommit, AdoptRecord, Adopt, GiveUp
  <2>3. Mine(w) \in Op
    BY <2>2 DEF Knows
  <2> QED BY <2>1, <2>3, ExecuteType, ReconcileType
<1>4. CASE \E w \in Worker : Crash(w)
  BY <1>4, CrashType
<1>5. CASE \E w \in Worker, o \in Op : PickApproved(w, o) \/ PickExecuting(w, o)
  BY <1>5, PickType
<1>6. CASE UNCHANGED vars
  BY <1>6 DEF vars, TypeOK
<1> QED BY <1>1, <1>2, <1>3, <1>4, <1>5, <1>6 DEF Next

-----------------------------------------------------------------------------
(* What every step may do to the workers.                                  *)

(* A worker stands still, or moves to where it knows enough, may not write *)
(* for an operation that is settled as failed, and takes the locks of      *)
(* backup policies only when they are free.                                *)
Careful(v) ==
    \/ wk'[v] = wk[v]
    \/ /\ Knows(v)'
       /\ Committing(v)' => /\ ~ BackupsLocked
                            /\ \A u \in Worker \ {v} : wk'[u] = wk[u]
       /\ \A o \in Op : MayWrite(v, o)' => MayWrite(v, o) \/ res'[o].code # 409

LEMMA LocksAreExclusive ==
    ASSUME OneCommits, \A v \in Worker : Careful(v)
    PROVE  OneCommits'
<1> SUFFICES ASSUME NEW v \in Worker, NEW w \in Worker, Committing(v)', Committing(w)', v # w
             PROVE  FALSE
  BY DEF OneCommits
<1>1. wk'[v] = wk[v] => Committing(v)
  BY DEF Committing
<1>2. wk'[w] = wk[w] => Committing(w)
  BY DEF Committing
<1> QED BY <1>1, <1>2 DEF OneCommits, Careful, BackupsLocked

(* Only the owner of a running reservation may write for its operation.    *)
LEMMA OwnerWrites ==
    ASSUME TypeOK, NEW w \in Worker, NEW v \in Worker, NEW o \in Op,
           Knows(v), v # w, res[o].owner = w,
           res[o].state = "running" \/ Kind(o) = "import"
    PROVE  ~ MayWrite(v, o)
BY DEF Knows, MayWrite, Committing, Owning, Reviving, Mine, Kind

-----------------------------------------------------------------------------
(* Steps that move records.                                                *)

(* What may happen to the record of an operation.                          *)
RecordMove(o) ==
    \/ op'[o] = op[o]
    \/ op[o].status = "none" /\ op'[o].status = "planned"
    \/ /\ op'[o].kind = op[o].kind /\ op'[o].plan = op[o].plan
       /\ \/ /\ op[o].status = "planned"
             /\ op'[o].status \in {"planned", "approved", "cancelled"}
          \/ op[o].status = "approved" /\ op'[o].status = "revoked"
          \/ /\ op[o].status = "approved" /\ op'[o].status = "executing"
             /\ \E w \in Worker : /\ wk[w].pc = "claim" /\ Mine(w) = o
                                  /\ wk'[w].pc # "claim"
          \/ op[o].status = "executing" /\ op'[o].status = "executed" /\ o \in inner
          \/ /\ op[o].status = "executing" /\ op'[o].status = "execution_failed"
             /\ op'[o].doubt \/ res[o].code = 409

RecordStep ==
    /\ UNCHANGED <<res, inner, version, granted, effects, lost, drifts>>
    /\ \A o \in Op : RecordMove(o)
    /\ \A v \in Worker : Careful(v)

LEMMA RecordKeepsKnows ==
    ASSUME Inv, RecordStep, NEW v \in Worker, wk'[v] = wk[v]
    PROVE  Knows(v)'
<1> DEFINE o == Mine(v)
<1>1. CASE wk[v].pc = "idle"
  BY <1>1 DEF Inv, Knows, Committing, Owning, Reviving
<1>2. CASE wk[v].pc # "idle"
  <2>1. o \in Op /\ RecordMove(o) /\ Knows(v)
    BY <1>2 DEF Inv, Knows, RecordStep
  <2>2. Mine(v)' = o /\ wk'[v].pc # "idle"
    BY <1>2 DEF Mine
  <2>3. op[o].status \in Claimed => op'[o].status \in Claimed
    BY <2>1 DEF RecordMove, Claimed
  <2>4. op[o].status \in {"approved", "revoked"} \cup Claimed
        => op'[o].status \in {"approved", "revoked"} \cup Claimed
    BY <2>1 DEF RecordMove, Claimed
  <2>5. op[o].status = "revoked" => op'[o].status = "revoked"
    BY <2>1 DEF RecordMove
  <2>6. op[o].status = "executed" => op'[o].status = "executed"
    BY <2>1 DEF RecordMove
  <2>7. wk[v].pc = "claim" => op'[o].status \in {"approved", "revoked"}
    <3> SUFFICES ASSUME wk[v].pc = "claim"
                 PROVE  op'[o].status \in {"approved", "revoked"}
      OBVIOUS
    <3>1. op[o].status \in {"approved", "revoked"} /\ res[o].owner = v
      BY <2>1 DEF Knows, Owning
    <3>2. ASSUME NEW w \in Worker, wk[w].pc = "claim", Mine(w) = o
          PROVE  w = v
      BY <3>1, <3>2 DEF Inv, Knows, Owning
    <3> QED BY <2>1, <3>1, <3>2 DEF RecordMove
  <2>8. UNCHANGED <<res, inner, version, granted, lost>>
    BY DEF RecordStep
  <2>9. Committing(v) => Kind(o)' = Kind(o) /\ (Fresh(o)' <=> Fresh(o))
    <3>1. Committing(v) => op[o].status \in Claimed
      BY <2>1 DEF Knows, Committing
    <3>2. Committing(v) => op'[o].kind = op[o].kind /\ op'[o].plan = op[o].plan
      BY <2>1, <3>1 DEF RecordMove, Claimed
    <3> QED BY <2>2, <2>8, <3>2 DEF Kind, Fresh, Mine
  <2> QED BY <1>2, <2>1, <2>2, <2>3, <2>4, <2>5, <2>6, <2>7, <2>8, <2>9
          DEF Knows, Mine, Committing, Owning, Reviving
<1> QED BY <1>1, <1>2

LEMMA RecordKeepsSettled ==
    ASSUME Inv, TypeOK', RecordStep, NEW o \in Op
    PROVE  Settled(o)'
<1>1. /\ RecordMove(o) /\ Settled(o) /\ res' = res
      /\ \A w \in Worker : Careful(w) /\ Knows(w)
      /\ op[o] \in Record /\ op'[o] \in Record
  BY DEF RecordStep, Inv, TypeOK
<1>2. res[o].state = "none" => op'[o].status \notin Claimed
  <2>1. ASSUME NEW w \in Worker, wk[w].pc = "claim", Mine(w) = o
        PROVE  res[o].state # "none"
    BY <1>1, <2>1 DEF Knows, Owning
  <2> QED BY <1>1, <2>1 DEF Settled, RecordMove, Claimed
<1>3. op'[o].status \in {"none", "planned", "cancelled"} => res[o].state = "none"
  BY <1>1 DEF Settled, RecordMove
<1>4. res[o].code = 200 => op'[o].status = "executed"
  BY <1>1 DEF Settled, RecordMove
<1>5. res[o].state # "none" => Kind(o)' = Kind(o)
  BY <1>1 DEF Settled, RecordMove, Kind
<1>6. ASSUME res[o].code = 409, NEW w \in Worker
      PROVE  ~ MayWrite(w, o)'
  <2>1. ~ MayWrite(w, o) /\ res'[o].code = 409
    BY <1>1, <1>6 DEF Settled
  <2>2. Kind(o)' = Kind(o)
    BY <1>1, <1>5, <1>6 DEF Settled, NoReservation
  <2>3. CASE wk'[w] = wk[w]
    BY <2>1, <2>2, <2>3 DEF MayWrite, Mine
  <2>4. CASE ~ (wk'[w] = wk[w])
    BY <1>1, <2>1, <2>4 DEF Careful
  <2> QED BY <2>3, <2>4
<1>7. ASSUME NEW p \in Op, Holding(o), Holding(p), Kind(o)' = Kind(p)'
      PROVE  o = p
  <2>1. RecordMove(p) /\ Settled(p)
    BY DEF RecordStep, Inv
  <2>2. Kind(p)' = Kind(p)
    BY <1>7, <2>1 DEF Settled, RecordMove, Kind, Holding
  <2>3. Kind(o)' = Kind(o)
    BY <1>5, <1>7 DEF Holding
  <2> QED BY <1>1, <1>7, <2>2, <2>3 DEF Settled
<1> QED BY <1>1, <1>2, <1>3, <1>4, <1>6, <1>7 DEF Settled, Holding

LEMMA RecordKeepsTruth ==
    ASSUME Inv, RecordStep, NEW o \in Op
    PROVE  Truthful(o)'
<1>1. /\ RecordMove(o) /\ Truthful(o) /\ UNCHANGED <<res, inner, effects, lost>>
  BY DEF RecordStep, Inv
<1>2. Applied(o)' <=> Applied(o)
  BY <1>1 DEF Applied
<1>3. o \in inner => op'[o].status \in Claimed
  BY <1>1 DEF Truthful, RecordMove, Claimed
<1>4. op'[o].status = "executed" => o \in inner
  BY <1>1 DEF Truthful, RecordMove
<1>5. op'[o].status = "execution_failed" /\ ~ op'[o].doubt => res[o].code = 409
  BY <1>1 DEF Truthful, RecordMove
<1>6. op[o].status = "executed" => op'[o].status = "executed"
  BY <1>1 DEF RecordMove
<1> QED BY <1>1, <1>2, <1>3, <1>4, <1>5, <1>6 DEF Truthful, Holding

LEMMA RecordStepInv ==
    ASSUME Inv, TypeOK', RecordStep
    PROVE  Inv'
<1>1. VersionsBounded'
  BY DEF Inv, RecordStep, VersionsBounded
<1>2. \A v \in Worker : Knows(v)'
  BY RecordKeepsKnows DEF RecordStep, Careful
<1>4. OneCommits'
  BY LocksAreExclusive DEF Inv, RecordStep
<1>3. AppliedAsReviewed'
  <2> SUFFICES ASSUME NEW e \in effects
               PROVE  /\ e[2] = op'[e[1]].plan
                      /\ op'[e[1]].status \notin {"cancelled", "revoked"}
    BY DEF AppliedAsReviewed, RecordStep
  <2>1. e[1] \in Op
    BY DEF Inv, TypeOK
  <2>2. Truthful(e[1]) /\ RecordMove(e[1]) /\ e[2] = op[e[1]].plan
    BY <2>1 DEF Inv, RecordStep, AppliedAsReviewed
  <2>3. op[e[1]].status \in Claimed
    BY <2>1, <2>2 DEF Truthful, Applied
  <2> QED BY <2>2, <2>3 DEF RecordMove, Claimed
<1> QED BY <1>1, <1>2, <1>3, <1>4, RecordKeepsSettled, RecordKeepsTruth DEF Inv

-----------------------------------------------------------------------------
(* Steps that move reservations.                                           *)

(* What may happen to the reservation of an operation.                     *)
ReservationMove(o) ==
    \/ res'[o] = res[o]
    \/ /\ res[o].state = "none" /\ Holders(o) = {}
       /\ op[o].status \notin {"none", "planned", "cancelled"}
       /\ res'[o].state = "running" /\ res'[o].code = 0
       /\ \A p \in Op \ {o} : res'[p] = res[p]
    \/ /\ Holding(o) /\ res'[o].owner = res[o].owner
       /\ \/ /\ res'[o].state \in {res[o].state, "reconcile_required"}
             /\ res'[o].code = res[o].code
          \/ /\ res'[o].state = "completed" /\ res'[o].code = 200
             /\ op[o].status = "executed"
          \/ /\ res'[o].state = "completed" /\ res'[o].code = 409
             /\ o \in inner => o \in lost
             /\ \A v \in Worker : ~ MayWrite(v, o)'

ReservationStep ==
    /\ UNCHANGED <<op, inner, version, granted, effects, lost, drifts>>
    /\ \A o \in Op : ReservationMove(o)
    /\ \A v \in Worker : Careful(v)

LEMMA ReservationKeepsKnows ==
    ASSUME Inv, ReservationStep, NEW v \in Worker, wk'[v] = wk[v]
    PROVE  Knows(v)'
<1> DEFINE o == Mine(v)
<1>1. CASE wk[v].pc = "idle"
  BY <1>1 DEF Inv, Knows, Committing, Owning, Reviving
<1>2. CASE wk[v].pc # "idle"
  <2>1. o \in Op /\ ReservationMove(o) /\ Knows(v) /\ Settled(o)
    BY <1>2 DEF Inv, Knows, ReservationStep
  <2>2. Mine(v)' = o /\ wk'[v].pc # "idle"
    BY <1>2 DEF Mine
  <2>3. res[o].owner = v /\ res[o].state # "none" => res'[o].owner = v /\ res'[o].state # "none"
    BY <2>1 DEF ReservationMove, Holding
  <2>4. res[o].state \in {"reconcile_required", "completed"}
        => res'[o].state \in {"reconcile_required", "completed"}
    BY <2>1 DEF ReservationMove, Holding
  <2>5. res[o].state # "none" /\ res'[o].state = "running" => res[o].state = "running"
    BY <2>1 DEF ReservationMove, Holding
  <2>6. res[o].code = 409 => res'[o].code = 409
    BY <2>1 DEF ReservationMove, Holding, Settled, NoReservation
  <2>7. UNCHANGED <<op, inner, version, granted, lost>>
    BY DEF ReservationStep
  <2>8. wk[v].pc \in {"authorize", "replan", "apply", "commit", "settle"} => res[o].state # "none"
    BY <2>1 DEF Knows, Owning
  <2>9. Kind(o)' = Kind(o) /\ (Fresh(o)' <=> Fresh(o))
    BY <2>2, <2>7 DEF Kind, Fresh, Mine
  <2> QED BY <1>2, <2>1, <2>2, <2>3, <2>4, <2>5, <2>6, <2>7, <2>8, <2>9
          DEF Knows, Mine, Committing, Owning, Reviving
<1> QED BY <1>1, <1>2

LEMMA ReservationKeepsSettled ==
    ASSUME Inv, TypeOK', ReservationStep, NEW o \in Op
    PROVE  Settled(o)'
<1>1. /\ ReservationMove(o) /\ Settled(o) /\ op' = op
      /\ \A w \in Worker : Careful(w)
      /\ res[o] \in Reservation /\ res'[o] \in Reservation
  BY DEF ReservationStep, Inv, TypeOK
<1>2. res'[o].state = "none" => res'[o] = res[o]
  BY <1>1 DEF ReservationMove, Holding
<1>3. op[o].status \in {"none", "planned", "cancelled"} => res'[o].state = "none"
  BY <1>1 DEF Settled, ReservationMove, Holding
<1>4. /\ res'[o].state = "completed" <=> res'[o].code # 0
      /\ res'[o].code = 200 => op[o].status = "executed"
  BY <1>1 DEF Settled, ReservationMove, Holding
<1>5. ASSUME res'[o].code = 409, NEW w \in Worker
      PROVE  ~ MayWrite(w, o)'
  <2>1. CASE res[o].code = 409
    <3>1. ~ MayWrite(w, o)
      BY <1>1, <2>1 DEF Settled
    <3>2. CASE wk'[w] = wk[w]
      BY <1>1, <3>1, <3>2 DEF MayWrite, Mine, Kind
    <3>3. CASE ~ (wk'[w] = wk[w])
      BY <1>1, <1>5, <3>1, <3>3 DEF Careful
    <3> QED BY <3>2, <3>3
  <2>2. CASE res[o].code # 409
    BY <1>1, <1>5, <2>2 DEF ReservationMove
  <2> QED BY <2>1, <2>2
<1>6. ASSUME NEW p \in Op, Holding(o)', Holding(p)', Kind(o) = Kind(p)
      PROVE  o = p
  <2>1. ReservationMove(p)
    BY DEF ReservationStep
  <2>2. CASE Holding(o) /\ Holding(p)
    BY <1>1, <1>6, <2>2 DEF Settled
  <2>3. ASSUME ~ Holding(o), o # p
        PROVE  FALSE
    <3>1. Holders(o) = {} /\ res'[p] = res[p]
      BY <1>1, <1>6, <2>3 DEF ReservationMove, Holding
    <3> QED BY <1>6, <2>3, <3>1 DEF Holders, Holding
  <2>4. ASSUME ~ Holding(p), o # p
        PROVE  FALSE
    <3>1. Holders(p) = {} /\ res'[o] = res[o]
      BY <2>1, <1>6, <2>4 DEF ReservationMove, Holding
    <3> QED BY <1>6, <2>4, <3>1 DEF Holders, Holding
  <2> QED BY <2>2, <2>3, <2>4
<1>7. \A p \in Op : Kind(p)' = Kind(p)
  BY <1>1 DEF Kind
<1> QED BY <1>1, <1>2, <1>3, <1>4, <1>5, <1>6, <1>7 DEF Settled

LEMMA ReservationKeepsTruth ==
    ASSUME Inv, ReservationStep, NEW o \in Op
    PROVE  Truthful(o)'
<1>1. /\ ReservationMove(o) /\ Truthful(o) /\ Settled(o)
      /\ UNCHANGED <<op, inner, effects, lost>>
  BY DEF ReservationStep, Inv
<1>2. Applied(o)' <=> Applied(o)
  BY <1>1 DEF Applied
<1>3. res[o].code = 409 => res'[o].code = 409
  BY <1>1 DEF ReservationMove, Holding, Settled, NoReservation
<1>4. res'[o].code = 409 /\ o \in inner => o \in lost
  BY <1>1 DEF ReservationMove, Truthful
<1>5. o \in inner \ lost /\ op[o].status # "executed" /\ Holding(o) => Holding(o)'
  BY <1>1 DEF ReservationMove, Holding
<1> QED BY <1>1, <1>2, <1>3, <1>4, <1>5 DEF Truthful

LEMMA ReservationStepInv ==
    ASSUME Inv, TypeOK', ReservationStep
    PROVE  Inv'
<1>1. VersionsBounded' /\ AppliedAsReviewed'
  BY DEF Inv, ReservationStep, VersionsBounded, AppliedAsReviewed
<1>2. \A v \in Worker : Knows(v)'
  BY ReservationKeepsKnows DEF ReservationStep, Careful
<1>3. OneCommits'
  BY LocksAreExclusive DEF Inv, ReservationStep
<1> QED BY <1>1, <1>2, <1>3, ReservationKeepsSettled, ReservationKeepsTruth DEF Inv

-----------------------------------------------------------------------------
(* The write of an operation.                                              *)

(* The worker that writes for an operation, in its place and knowing what  *)
(* it needs afterwards.                                                    *)
WriteStep(w) ==
    LET o == Mine(w) IN
    /\ MayWrite(w, o) /\ o \notin inner /\ Fresh(o) /\ op[o].status \in Claimed
    /\ Kind(o) = "backup" => Committing(w)
    /\ Write(o)
    /\ UNCHANGED <<op, res, drifts>>
    /\ lost' \in {lost, lost \cup {o}}
    /\ \A v \in Worker \ {w} : /\ wk'[v] = wk[v]
                               /\ res[o].state = "running" => ~ MayWrite(v, o)
    /\ Knows(w)' /\ ~ Committing(w)'
    /\ \A p \in Op : MayWrite(w, p)' => MayWrite(w, p)

LEMMA WriteKeepsKnows ==
    ASSUME Inv, NEW w \in Worker, Mine(w) \in Op, WriteStep(w),
           NEW v \in Worker \ {w}
    PROVE  Knows(v)'
<1> DEFINE o == Mine(w)
           p == Mine(v)
<1>1. wk'[v] = wk[v] /\ Mine(v)' = p /\ Knows(v) /\ UNCHANGED <<op, res>>
  BY DEF WriteStep, Inv, Mine
<1>2. inner' = inner \cup {o} /\ lost \subseteq lost'
  BY DEF WriteStep, Write
<1>3. wk[v].pc \in {"authorize", "replan", "apply", "commit", "settle"}
      => (res[p].state = "running" /\ p \in inner' => p \in lost')
  <2>1. wk[v].pc \in {"authorize", "replan", "apply", "commit", "settle"} => MayWrite(v, p)
    BY DEF MayWrite
  <2>2. res[o].state = "running" => ~ MayWrite(v, o)
    BY DEF WriteStep
  <2> QED BY <1>1, <1>2, <2>1, <2>2 DEF Knows
<1>4. wk[v].pc \in {"replan", "apply", "commit", "recommit"} =>
         /\ wk[v].seen <= version'["authz"]
         /\ wk[v].seen = version'["authz"] => granted'
  <2>1. TypeOK /\ VersionsBounded /\ Write(o)
    BY DEF Inv, WriteStep
  <2>2. /\ version'[Kind(o)] = version[Kind(o)] + 1
        /\ \A k \in Things \ {Kind(o)} : version'[k] = version[k]
    BY <2>1, WriteType DEF WriteStep
  <2>3. Kind(o) # "authz" => granted' = granted
    BY <2>1 DEF Write
  <2>4. wk[v].seen \in Int /\ version["authz"] \in Int
    BY <2>1, WorkerFacts, VersionFacts DEF Things
  <2> QED BY <1>1, <2>2, <2>3, <2>4 DEF Knows, Things
<1>5. Committing(v)' =>
         Mine(v)' \notin inner' /\ Kind(Mine(v))' = "backup" /\ Fresh(Mine(v))'
  <2> SUFFICES ASSUME Committing(v)'
               PROVE  p \notin inner' /\ Kind(p)' = "backup" /\ Fresh(p)'
    BY <1>1 DEF Kind, Fresh, Mine
  <2>1. Committing(v) /\ p \notin inner /\ Kind(p) = "backup" /\ Fresh(p)
    BY <1>1 DEF Committing, Knows
  <2>2. Kind(o) # "backup"
    BY <2>1 DEF WriteStep, Inv, OneCommits
  <2>3. version'["backup"] = version["backup"]
    <3>1. /\ TypeOK /\ VersionsBounded /\ Write(o) /\ o \notin inner
          /\ "backup" \in Things
      BY DEF Inv, WriteStep, Things
    <3> QED BY <2>2, <3>1, WriteType
  <2> QED BY <1>1, <1>2, <2>1, <2>2, <2>3 DEF Kind, Fresh
<1>6. Committing(v)' <=> Committing(v)
  BY <1>1 DEF Committing
<1> QED BY <1>1, <1>2, <1>3, <1>4, <1>5, <1>6 DEF Knows, Mine, Owning, Reviving

LEMMA WriteStepInv ==
    ASSUME Inv, TypeOK', NEW w \in Worker, Mine(w) \in Op, WriteStep(w)
    PROVE  Inv'
<1> DEFINE o == Mine(w)
<1>1. /\ TypeOK /\ VersionsBounded /\ AppliedAsReviewed /\ Write(o)
      /\ UNCHANGED <<op, res, drifts>>
      /\ o \notin inner /\ MayWrite(w, o) /\ Fresh(o) /\ op[o].status \in Claimed
      /\ \A p \in Op : Settled(p) /\ Truthful(p)
  BY DEF Inv, WriteStep
<1>2. VersionsBounded'
  <2>1. /\ Cardinality(inner') = Cardinality(inner) + 1
        /\ version'[Kind(o)] = version[Kind(o)] + 1
        /\ \A k \in Things \ {Kind(o)} : version'[k] = version[k]
    BY <1>1, WriteType
  <2>2. \A k \in Things : version[k] \in Nat /\ version[k] <= drifts + Cardinality(inner)
    BY <1>1, VersionFacts DEF VersionsBounded
  <2> QED BY <1>1, <2>1, <2>2, VersionFacts DEF VersionsBounded
<1>3. \A v \in Worker : Knows(v)'
  BY WriteKeepsKnows DEF WriteStep
<1>4. ASSUME NEW p \in Op
      PROVE  Settled(p)'
  <2>1. ASSUME res[p].code = 409, NEW v \in Worker
        PROVE  ~ MayWrite(v, p)'
    <3>1. ~ MayWrite(v, p)
      BY <1>1, <2>1 DEF Settled
    <3>2. CASE v = w
      BY <3>1, <3>2 DEF WriteStep
    <3>3. CASE v # w
      <4>1. wk'[v] = wk[v]
        BY <3>3 DEF WriteStep
      <4> QED BY <1>1, <3>1, <4>1 DEF MayWrite, Mine, Kind
    <3> QED BY <3>2, <3>3
  <2>2. Settled(p)
    BY <1>1
  <2> QED BY <1>1, <2>1, <2>2 DEF Settled, Holding, Kind
<1>5. /\ inner' = inner \cup {o} /\ lost \subseteq lost' /\ lost' \subseteq lost \cup {o}
      /\ effects' = effects \cup {<<o, version[Kind(o)]>>}
  BY DEF WriteStep, Write
<1>6. Holding(o) /\ res[o].code # 409
  <2>1. res[o].code # 409
    BY <1>1 DEF Settled
  <2>2. op[o].status # "executed" /\ res[o].state # "none"
    BY <1>1 DEF Truthful, Settled
  <2>3. res[o].state # "completed"
    BY <1>1, <2>1, <2>2, OpFacts DEF Settled, Reservation
  <2> QED BY <1>1, <2>1, <2>2, <2>3, OpFacts DEF Reservation, Holding
<1>7. ASSUME NEW p \in Op
      PROVE  Truthful(p)'
  <2>1. Applied(p)' <=> p \in inner'
    <3>1. Applied(p)' <=> Applied(p) \/ p = o
      <4> DEFINE t == <<o, version[Kind(o)]>>
      <4>1. effects' = effects \cup {t} /\ t[1] = o
        BY <1>5
      <4> HIDE DEF t
      <4> QED BY <4>1, Zenon DEF Applied
    <3> QED BY <1>1, <1>5, <3>1 DEF Truthful
  <2>2. Holding(p)' <=> Holding(p)
    BY <1>1 DEF Holding
  <2>3. Truthful(p)
    BY <1>1
  <2> QED BY <1>1, <1>5, <1>6, <2>1, <2>2, <2>3 DEF Truthful, Claimed
<1>8. AppliedAsReviewed'
  <2>1. \A e \in effects : e[2] = op[e[1]].plan /\ op[e[1]].status \notin {"cancelled", "revoked"}
    BY <1>1 DEF AppliedAsReviewed
  <2>2. version[Kind(o)] = op[o].plan /\ op[o].status \notin {"cancelled", "revoked"}
    BY <1>1 DEF Fresh, Claimed
  <2> QED BY <1>1, <1>5, <2>1, <2>2 DEF AppliedAsReviewed
<1>9. OneCommits'
  BY DEF WriteStep, Inv, OneCommits, Committing
<1> QED BY <1>2, <1>3, <1>4, <1>7, <1>8, <1>9 DEF Inv

-----------------------------------------------------------------------------
(* Every action is one of these steps: the records.                        *)

LEMMA StatusStep ==
    ASSUME TypeOK, NEW o \in Op, NEW status, op' = [op EXCEPT ![o].status = status]
    PROVE  /\ op'[o].status = status /\ op'[o].kind = op[o].kind
           /\ op'[o].plan = op[o].plan /\ op'[o].doubt = op[o].doubt
           /\ \A p \in Op \ {o} : op'[p] = op[p]
BY OpFacts DEF TypeOK, Record

LEMMA FailedStep ==
    ASSUME TypeOK, NEW o \in Op, NEW doubt \in BOOLEAN, op' = Failed(o, doubt),
           doubt \/ res[o].code = 409
    PROVE  \A p \in Op : RecordMove(p)
<1>1. CASE op[o].status = "executing"
  <2>1. /\ op'[o].status = "execution_failed" /\ op'[o].kind = op[o].kind
        /\ op'[o].plan = op[o].plan /\ op'[o].doubt = doubt
        /\ \A p \in Op \ {o} : op'[p] = op[p]
    BY <1>1, OpFacts DEF TypeOK, Record, Failed
  <2> QED BY <1>1, <2>1 DEF RecordMove
<1>2. CASE op[o].status # "executing"
  BY <1>2 DEF Failed, RecordMove
<1> QED BY <1>1, <1>2

(* A step of one worker is careful when that worker is.                    *)
LEMMA OneMoves ==
    ASSUME NEW w \in Worker, \A v \in Worker \ {w} : wk'[v] = wk[v], Careful(w)
    PROVE  \A v \in Worker : Careful(v)
BY DEF Careful

LEMMA PeopleInv ==
    ASSUME Inv, TypeOK', NEW o \in Op, People(o)
    PROVE  Inv'
<1>1. TypeOK
  BY DEF Inv
<1>2. UNCHANGED <<res, inner, version, granted, effects, wk, lost, drifts>>
  BY DEF People, Plan, View, Approve, Cancel, Revoke
<1>3. \A p \in Op : RecordMove(p)
  <2>1. ASSUME NEW k \in Kinds, Plan(o, k)
        PROVE  \A p \in Op : RecordMove(p)
    BY <1>1, <2>1 DEF TypeOK, Plan, NoRecord, RecordMove
  <2>2. CASE View(o)
    <3>1. /\ op'[o].status = op[o].status /\ op'[o].kind = op[o].kind
          /\ op'[o].plan = op[o].plan /\ \A p \in Op \ {o} : op'[p] = op[p]
      BY <1>1, <2>2, OpFacts DEF View, TypeOK, Record
    <3> QED BY <2>2, <3>1 DEF View, RecordMove
  <2>3. CASE Approve(o) \/ Cancel(o) \/ Revoke(o)
    <3>1. \/ op[o].status = "planned" /\ op' = [op EXCEPT ![o].status = "approved"]
          \/ op[o].status = "planned" /\ op' = [op EXCEPT ![o].status = "cancelled"]
          \/ op[o].status = "approved" /\ op' = [op EXCEPT ![o].status = "revoked"]
      BY <2>3 DEF Approve, Cancel, Revoke
    <3> QED BY <1>1, <3>1, StatusStep DEF RecordMove
  <2> QED BY <2>1, <2>2, <2>3 DEF People
<1> QED BY <1>2, <1>3, RecordStepInv DEF RecordStep, Careful

LEMMA CrashInv ==
    ASSUME Inv, TypeOK', NEW w \in Worker, Crash(w)
    PROVE  Inv'
<1>1. TypeOK /\ Finish(w)
  BY DEF Inv, Crash
<1>2. \A v \in Worker : Careful(v)
  BY <1>1, FinishStep, OneMoves DEF Careful, Committing
<1> QED BY <1>2, RecordStepInv DEF RecordStep, RecordMove, Crash

LEMMA PickInv ==
    ASSUME Inv, TypeOK', NEW w \in Worker, NEW o \in Op,
           PickApproved(w, o) \/ PickExecuting(w, o)
    PROVE  Inv'
<1>1. /\ wk'[w].op = o /\ wk'[w].pc \in {"reserve", "prepare"}
      /\ wk'[w].pc = "reserve" => op[o].status = "approved"
      /\ wk'[w].pc = "prepare" => op[o].status = "executing"
      /\ \A v \in Worker \ {w} : wk'[v] = wk[v]
      /\ UNCHANGED <<op, res, inner, version, granted, effects, lost, drifts>>
  BY WorkerFacts DEF Inv, TypeOK, Job, PickApproved, PickExecuting
<1>2. Knows(w)'
  BY <1>1 DEF Knows, Committing, Owning, Reviving, Claimed, Mine
<1>3. \A p \in Op : ~ MayWrite(w, p)'
  BY <1>1 DEF MayWrite
<1>4. \A v \in Worker : Careful(v)
  BY <1>1, <1>2, <1>3, OneMoves DEF Careful, Committing
<1> QED BY <1>1, <1>4, RecordStepInv DEF RecordStep, RecordMove

LEMMA ClaimInv ==
    ASSUME Inv, TypeOK', NEW w \in Worker, Mine(w) \in Op, Claim(w)
    PROVE  Inv'
<1> DEFINE o == Mine(w)
<1>1. TypeOK /\ Knows(w) /\ Truthful(o) /\ wk[w].pc = "claim"
  BY DEF Inv, Claim
<1>2. op[o].status \in {"approved", "revoked"} /\ res[o].owner = w /\ res[o].state # "none"
  BY <1>1 DEF Knows, Owning
<1>3. UNCHANGED <<res, inner, version, granted, effects, lost, drifts>>
  BY DEF Claim
<1>4. \/ /\ op[o].status = "approved" /\ op'[o].status = "executing" /\ Goto(w, "authorize")
         /\ op'[o].kind = op[o].kind /\ op'[o].plan = op[o].plan
         /\ \A p \in Op \ {o} : op'[p] = op[p]
      \/ op[o].status = "revoked" /\ op' = op /\ Goto(w, "release")
  BY <1>1, <1>2, StatusStep DEF Claim
<1>5. wk'[w].pc \in {"authorize", "release"} /\ Mine(w)' = o
  BY <1>1, <1>4, GotoStep DEF Mine
<1>6. \A p \in Op : RecordMove(p)
  BY <1>1, <1>4, <1>5 DEF RecordMove
<1>7. o \notin inner
  BY <1>1, <1>2 DEF Truthful, Claimed
<1>8. Knows(w)'
  <2>1. CASE op[o].status = "approved"
    <3>1. wk'[w].pc = "authorize" /\ op'[o].status = "executing"
      BY <1>1, <1>4, <2>1, GotoStep
    <3> QED BY <1>2, <1>3, <1>5, <1>7, <3>1 DEF Knows, Committing, Owning, Reviving, Claimed, Mine
  <2>2. CASE op[o].status = "revoked"
    <3>1. wk'[w].pc = "release" /\ op'[o].status = "revoked"
      BY <1>1, <1>4, <2>2, GotoStep
    <3> QED BY <1>2, <1>3, <1>5, <3>1 DEF Knows, Committing, Owning, Reviving, Claimed, Mine
  <2> QED BY <1>2, <2>1, <2>2
<1>9. \A p \in Op : MayWrite(w, p)' => MayWrite(w, p)
  BY <1>1, <1>5 DEF MayWrite, Mine
<1>10. \A v \in Worker : Careful(v)
  BY <1>1, <1>4, <1>8, <1>9, GotoStep, OneMoves DEF Careful, Committing
<1> QED BY <1>3, <1>6, <1>10, RecordStepInv DEF RecordStep

(* An exception leads to where the worker settles or marks.                *)
LEMMA RaiseCareful ==
    ASSUME Inv, NEW w \in Worker, Mine(w) \in Op, Raise(w),
           wk[w].pc \in {"authorize", "replan", "apply", "commit", "record", "complete"},
           UNCHANGED <<inner, lost>>,
           op'[Mine(w)].status \in Claimed,
           res'[Mine(w)].owner = w, res'[Mine(w)].state # "none",
           res'[Mine(w)].state = "running" => res[Mine(w)].state = "running"
    PROVE  \A v \in Worker : Careful(v)
<1> DEFINE o == Mine(w)
<1>1. TypeOK /\ Knows(w)
  BY DEF Inv
<1>2. /\ wk'[w].pc = IF wk[w].done THEN "mark" ELSE "settle"
      /\ Mine(w)' = o
      /\ \A v \in Worker \ {w} : wk'[v] = wk[v]
  BY <1>1, RaiseStep DEF Mine
<1>3. wk'[w].pc = "settle" => (res'[o].state = "running" /\ o \in inner' => o \in lost')
  BY <1>1, <1>2 DEF Knows
<1>4. Knows(w)'
  BY <1>2, <1>3 DEF Knows, Committing, Owning, Reviving, Mine
<1>5. \A p \in Op : MayWrite(w, p)' => MayWrite(w, p)
  BY <1>2 DEF MayWrite, Mine
<1> QED BY <1>2, <1>4, <1>5, OneMoves DEF Careful, Committing

LEMMA AuthorizeInv ==
    ASSUME Inv, TypeOK', NEW w \in Worker, Mine(w) \in Op, Authorize(w) \/ Replan(w)
    PROVE  Inv'
<1> DEFINE o == Mine(w)
<1>1. TypeOK /\ Knows(w) /\ wk[w].pc \in {"authorize", "replan"}
  BY DEF Inv, Authorize, Replan
<1>2. /\ op[o].status \in Claimed /\ res[o].owner = w /\ res[o].state # "none"
      /\ res[o].state = "running" /\ o \in inner => o \in lost
  BY <1>1 DEF Knows, Owning
<1>3. UNCHANGED <<op, res, inner, version, granted, effects, lost, drifts>>
  BY DEF Authorize, Replan
<1>4. CASE Raise(w)
  <2>1. \A v \in Worker : Careful(v)
    BY <1>1, <1>2, <1>3, <1>4, RaiseCareful
  <2> QED BY <1>3, <2>1, RecordStepInv DEF RecordStep, RecordMove
<1>5. CASE ~ Raise(w)
  <2>1. /\ wk'[w].pc \in {"replan", "apply"} /\ Mine(w)' = o
        /\ wk'[w].seen <= version["authz"]
        /\ wk'[w].seen = version["authz"] => granted
        /\ \A v \in Worker \ {w} : wk'[v] = wk[v]
    <3>1. CASE Authorize(w)
      <4>1. granted /\ wk' = [wk EXCEPT ![w].pc = "replan", ![w].seen = version["authz"]]
        BY <1>5, <3>1 DEF Authorize
      <4>2. version["authz"] \in Int
        BY <1>1, VersionFacts DEF Things
      <4> QED BY <1>1, <4>1, <4>2, WorkerFacts DEF TypeOK, Job, Mine
    <3>2. CASE Replan(w)
      <4>1. Goto(w, "apply") /\ wk[w].pc = "replan"
        BY <1>5, <3>2 DEF Replan
      <4> QED BY <1>1, <4>1, GotoStep DEF Knows, Mine
    <3> QED BY <3>1, <3>2
  <2>2. Knows(w)'
    BY <1>2, <1>3, <2>1 DEF Knows, Committing, Owning, Reviving, Mine
  <2>3. \A p \in Op : MayWrite(w, p)' => MayWrite(w, p)
    BY <1>1, <2>1 DEF MayWrite, Mine
  <2>4. \A v \in Worker : Careful(v)
    BY <2>1, <2>2, <2>3, OneMoves DEF Careful, Committing
  <2> QED BY <1>3, <2>4, RecordStepInv DEF RecordStep, RecordMove
<1> QED BY <1>4, <1>5

LEMMA RecordExecutedInv ==
    ASSUME Inv, TypeOK', NEW w \in Worker, Mine(w) \in Op,
           ReadBackFails(w) \/ RecordExecuted(w)
    PROVE  Inv'
<1> DEFINE o == Mine(w)
<1>1. TypeOK /\ Knows(w) /\ wk[w].pc = "record"
  BY DEF Inv, ReadBackFails, RecordExecuted
<1>2. /\ op[o].status \in Claimed /\ res[o].owner = w /\ res[o].state # "none"
      /\ o \in inner /\ wk[w].done
  BY <1>1 DEF Knows, Owning
<1>3. UNCHANGED <<res, inner, version, granted, effects, lost, drifts>>
  BY DEF ReadBackFails, RecordExecuted
<1>4. \/ op' = op
      \/ op[o].status = "executing" /\ op' = [op EXCEPT ![o].status = "executed"]
  BY DEF ReadBackFails, RecordExecuted
<1>5. (\A p \in Op : RecordMove(p)) /\ op'[o].status \in Claimed
  BY <1>1, <1>2, <1>4, StatusStep DEF RecordMove, Claimed
<1>6. CASE Raise(w)
  <2>1. \A v \in Worker : Careful(v)
    BY <1>1, <1>2, <1>3, <1>5, <1>6, RaiseCareful
  <2> QED BY <1>3, <1>5, <2>1, RecordStepInv DEF RecordStep
<1>7. CASE ~ Raise(w)
  <2>1. /\ wk'[w].pc = IF op'[o].status = "executed" THEN "complete" ELSE "distrust"
        /\ Mine(w)' = o /\ wk'[w].done
        /\ \A v \in Worker \ {w} : wk'[v] = wk[v]
    BY <1>1, <1>2, <1>7, GotoStep DEF ReadBackFails, RecordExecuted, Mine
  <2>2. Knows(w)'
    BY <1>2, <1>3, <1>5, <2>1 DEF Knows, Committing, Owning, Reviving, Mine
  <2>3. \A p \in Op : MayWrite(w, p)' => MayWrite(w, p)
    BY <1>1, <2>1 DEF MayWrite, Mine
  <2>4. \A v \in Worker : Careful(v)
    BY <2>1, <2>2, <2>3, OneMoves DEF Careful, Committing
  <2> QED BY <1>3, <1>5, <2>4, RecordStepInv DEF RecordStep
<1> QED BY <1>6, <1>7

LEMMA FailInv ==
    ASSUME Inv, TypeOK', NEW w \in Worker, Mine(w) \in Op, Fail(w) \/ GiveUp(w)
    PROVE  Inv'
<1>1. TypeOK /\ Knows(w) /\ Finish(w)
  BY DEF Inv, Fail, GiveUp
<1>2. \A v \in Worker : Careful(v)
  BY <1>1, FinishStep, OneMoves DEF Careful, Committing
<1>3. \A p \in Op : RecordMove(p)
  <2>1. CASE Fail(w)
    <3>1. wk[w].doubt \/ res[Mine(w)].code = 409
      BY <1>1, <2>1 DEF Fail, Knows
    <3> QED BY <1>1, <2>1, <3>1, WorkerFacts, FailedStep DEF Fail
  <2>2. CASE GiveUp(w)
    BY <1>1, <2>2, FailedStep DEF GiveUp
  <2> QED BY <2>1, <2>2
<1> QED BY <1>2, <1>3, RecordStepInv DEF RecordStep, Fail, GiveUp

LEMMA ReauthorizeInv ==
    ASSUME Inv, TypeOK', NEW w \in Worker, Mine(w) \in Op, Reauthorize(w)
    PROVE  Inv'
<1> DEFINE o == Mine(w)
<1>1. TypeOK /\ Knows(w) /\ wk[w].pc = "reauthorize"
  BY DEF Inv, Reauthorize
<1>2. UNCHANGED <<op, res, inner, version, granted, effects, lost, drifts>>
  BY DEF Reauthorize
<1>3. /\ wk'[w].pc \in {"recover", "give_up"} /\ Mine(w)' = o
      /\ \A v \in Worker \ {w} : wk'[v] = wk[v]
  BY <1>1, GotoStep DEF Reauthorize, Mine
<1>4. op[o].status \in Claimed /\ res[o].state \in {"reconcile_required", "completed"}
  BY <1>1 DEF Knows, Reviving
<1>5. Knows(w)'
  BY <1>2, <1>3, <1>4 DEF Knows, Committing, Owning, Reviving, Mine
<1>6. \A p \in Op : MayWrite(w, p)' => MayWrite(w, p)
  BY <1>1, <1>2, <1>3 DEF MayWrite, Mine, Kind
<1>7. \A v \in Worker : Careful(v)
  BY <1>3, <1>5, <1>6, OneMoves DEF Careful, Committing
<1> QED BY <1>2, <1>7, RecordStepInv DEF RecordStep, RecordMove

LEMMA AdoptRecordInv ==
    ASSUME Inv, TypeOK', NEW w \in Worker, Mine(w) \in Op, AdoptRecord(w)
    PROVE  Inv'
<1> DEFINE o == Mine(w)
<1>1. TypeOK /\ Knows(w) /\ wk[w].pc = "adopt_record"
  BY DEF Inv, AdoptRecord
<1>2. /\ op[o].status \in Claimed /\ res[o].state \in {"reconcile_required", "completed"}
      /\ o \in inner
  BY <1>1 DEF Knows, Reviving
<1>3. UNCHANGED <<res, inner, version, granted, effects, lost, drifts>>
  BY DEF AdoptRecord
<1>4. \/ op' = op
      \/ op[o].status = "executing" /\ op' = [op EXCEPT ![o].status = "executed"]
  BY DEF AdoptRecord
<1>5. \A p \in Op : RecordMove(p)
  BY <1>1, <1>2, <1>4, StatusStep DEF RecordMove
<1>6. Careful(w) /\ \A v \in Worker \ {w} : wk'[v] = wk[v]
  <2>1. CASE Finish(w)
    BY <1>1, <2>1, FinishStep DEF Careful
  <2>2. CASE ~ Finish(w)
    <3>1. /\ op'[o].status = "executed" /\ wk'[w].pc = "adopt" /\ Mine(w)' = o
          /\ \A v \in Worker \ {w} : wk'[v] = wk[v]
      BY <1>1, <2>2, GotoStep DEF AdoptRecord, Mine
    <3>2. Knows(w)'
      BY <1>2, <1>3, <3>1 DEF Knows, Committing, Owning, Reviving, Claimed, Mine
    <3>3. \A p \in Op : ~ MayWrite(w, p)'
      BY <3>1 DEF MayWrite
    <3> QED BY <3>1, <3>2, <3>3 DEF Careful, Committing
  <2> QED BY <2>1, <2>2
<1> QED BY <1>3, <1>5, <1>6, OneMoves, RecordStepInv DEF RecordStep

-----------------------------------------------------------------------------
(* The reservations.                                                       *)

LEMMA ExpireStep ==
    ASSUME TypeOK, NEW o \in Op, res[o].state = "running"
    PROVE  /\ Expire(res[o]).state = "reconcile_required"
           /\ Expire(res[o]).owner = res[o].owner /\ Expire(res[o]).code = res[o].code
           /\ Holding(o)
BY OpFacts DEF Expire, Reservation, Holding

(* What a completion leaves: nothing new, a reservation to reconcile, or   *)
(* one that is completed.                                                  *)
LEMMA CompletedStep ==
    ASSUME TypeOK, NEW w \in Worker, Mine(w) \in Op, NEW code, NEW r, r = Completed(w, code)
    PROVE  LET s == res[Mine(w)] IN
           /\ r.owner = s.owner
           /\ \/ r = s
              \/ /\ s.state = "running" /\ s.owner = w
                 /\ \/ r.state = "reconcile_required" /\ r.code = s.code
                    \/ r.state = "completed" /\ r.code = code
<1> DEFINE s == res[Mine(w)]
<1>1. s \in Reservation
  BY OpFacts
<1>2. CASE s.state # "running" \/ s.owner # w
  BY <1>2 DEF Completed
<1>3. CASE s.state = "running" /\ s.owner = w /\ s.lease = "past"
  BY <1>3, ExpireStep DEF Completed
<1>4. CASE s.state = "running" /\ s.owner = w /\ s.lease # "past"
  <2>1. r = [s EXCEPT !.state = "completed", !.code = code]
    BY <1>4 DEF Completed
  <2> QED BY <1>1, <1>4, <2>1 DEF Reservation
<1> QED BY <1>2, <1>3, <1>4

LEMMA MarkedStep ==
    ASSUME TypeOK, NEW w \in Worker, Mine(w) \in Op
    PROVE  LET s == res[Mine(w)] IN
           \/ Marked(w) = s
           \/ /\ s.state = "running" /\ Marked(w).state = "reconcile_required"
              /\ Marked(w).owner = s.owner /\ Marked(w).code = s.code
BY ExpireStep DEF Marked

LEMMA ReserveInv ==
    ASSUME Inv, TypeOK', NEW w \in Worker, Mine(w) \in Op, Reserve(w)
    PROVE  Inv'
<1> DEFINE o == Mine(w)
<1>1. TypeOK /\ Knows(w) /\ wk[w].pc = "reserve" /\ Settled(o)
  BY DEF Inv, Reserve
<1>2. UNCHANGED <<op, inner, version, granted, effects, lost, drifts>>
  BY DEF Reserve
<1>3. op[o].status \in {"approved", "revoked"} \cup Claimed
  BY <1>1 DEF Knows
<1>4. CASE res[o].state = "none" /\ Holders(o) = {}
  <2>1. /\ res'[o].state = "running" /\ res'[o].owner = w /\ res'[o].code = 0
        /\ \A p \in Op \ {o} : res'[p] = res[p]
    BY <1>1, <1>4 DEF Reserve, TypeOK
  <2>2. /\ wk'[w].pc = "claim" /\ Mine(w)' = o
        /\ \A v \in Worker \ {w} : wk'[v] = wk[v]
    BY <1>1, <1>4, GotoStep DEF Reserve, Mine
  <2>3. op[o].status \in {"approved", "revoked"}
    BY <1>1, <1>3, <1>4 DEF Settled
  <2>4. Knows(w)'
    BY <1>2, <2>1, <2>2, <2>3 DEF Knows, Committing, Owning, Reviving, Mine
  <2>5. \A p \in Op : MayWrite(w, p)' => res'[p].code # 409
    BY <2>1, <2>2 DEF MayWrite, Mine
  <2>6. \A v \in Worker : Careful(v)
    BY <2>2, <2>4, <2>5, OneMoves DEF Careful, Committing
  <2>7. \A p \in Op : ReservationMove(p)
    BY <1>4, <2>1, <2>3 DEF ReservationMove
  <2> QED BY <1>2, <2>6, <2>7, ReservationStepInv DEF ReservationStep
<1>5. CASE ~ (res[o].state = "none" /\ Holders(o) = {})
  <2>1. \A p \in Op : res'[p] = res[p] \/ (Expired(p) /\ res'[p] = Expire(res[p]))
    BY <1>5 DEF Reserve
  <2>2. \A p \in Op : ReservationMove(p)
    BY <1>1, <2>1, ExpireStep DEF ReservationMove, Expired
  <2>3. \A v \in Worker : Careful(v)
    BY <1>1, <1>5, FinishStep, OneMoves DEF Careful, Committing, Reserve
  <2> QED BY <1>2, <2>2, <2>3, ReservationStepInv DEF ReservationStep
<1> QED BY <1>4, <1>5

LEMMA PrepareInv ==
    ASSUME Inv, TypeOK', NEW w \in Worker, Mine(w) \in Op, Prepare(w)
    PROVE  Inv'
<1> DEFINE o == Mine(w)
<1>1. TypeOK /\ Knows(w) /\ wk[w].pc = "prepare" /\ Settled(o)
  BY DEF Inv, Prepare
<1>2. UNCHANGED <<op, inner, version, granted, effects, lost, drifts>>
  BY DEF Prepare
<1>3. \/ res' = res
      \/ Expired(o) /\ res' = [res EXCEPT ![o] = Expire(res[o])]
  BY DEF Prepare
<1>4. \A p \in Op : ReservationMove(p)
  BY <1>1, <1>3, ExpireStep DEF ReservationMove, Expired, TypeOK
<1>5. Careful(w) /\ \A v \in Worker \ {w} : wk'[v] = wk[v]
  <2>1. CASE Finish(w)
    BY <1>1, <2>1, FinishStep DEF Careful
  <2>2. CASE ~ Finish(w)
    <3>1. /\ res'[o].state = "reconcile_required" /\ wk'[w].pc = "reauthorize" /\ Mine(w)' = o
          /\ \A v \in Worker \ {w} : wk'[v] = wk[v]
      BY <1>1, <2>2, GotoStep DEF Prepare, Mine
    <3>2. op[o].status \in Claimed
      BY <1>1 DEF Knows
    <3>3. Knows(w)'
      BY <1>2, <3>1, <3>2 DEF Knows, Committing, Owning, Reviving, Mine
    <3>4. res[o].state # "completed" /\ res'[o].code = res[o].code
      BY <1>1, <1>3, <3>1, ExpireStep DEF Expired, TypeOK
    <3>5. res'[o].code # 409
      BY <1>1, <3>4 DEF Settled
    <3>6. \A p \in Op : MayWrite(w, p)' => res'[p].code # 409
      BY <3>1, <3>5 DEF MayWrite, Mine
    <3> QED BY <3>1, <3>3, <3>6 DEF Careful, Committing
  <2> QED BY <2>1, <2>2
<1> QED BY <1>2, <1>4, <1>5, OneMoves, ReservationStepInv DEF ReservationStep

LEMMA AdoptInv ==
    ASSUME Inv, TypeOK', NEW w \in Worker, Mine(w) \in Op, Adopt(w)
    PROVE  Inv'
<1> DEFINE o == Mine(w)
<1>1. TypeOK /\ Knows(w) /\ wk[w].pc = "adopt" /\ Finish(w)
  BY DEF Inv, Adopt
<1>2. op[o].status = "executed"
  BY <1>1 DEF Knows
<1>3. \A p \in Op : ReservationMove(p)
  <2>1. CASE res' = res
    BY <2>1 DEF ReservationMove
  <2>2. CASE res' # res
    <3>1. /\ res[o].state = "reconcile_required"
          /\ res' = [res EXCEPT ![o].state = "completed", ![o].code = 200]
      BY <2>2 DEF Adopt
    <3>2. /\ res'[o].state = "completed" /\ res'[o].code = 200 /\ res'[o].owner = res[o].owner
          /\ \A p \in Op \ {o} : res'[p] = res[p]
      BY <1>1, <3>1, OpFacts DEF TypeOK, Reservation
    <3>3. ReservationMove(o)
      BY <1>2, <3>1, <3>2 DEF ReservationMove, Holding
    <3>4. \A p \in Op \ {o} : ReservationMove(p)
      BY <3>2 DEF ReservationMove
    <3> QED BY <3>3, <3>4
  <2> QED BY <2>1, <2>2
<1>4. \A v \in Worker : Careful(v)
  BY <1>1, FinishStep, OneMoves DEF Careful, Committing
<1> QED BY <1>3, <1>4, ReservationStepInv DEF ReservationStep, Adopt

LEMMA LeaseInv ==
    ASSUME Inv, TypeOK', NEW o \in Op, LeaseRunsOut(o)
    PROVE  Inv'
<1>1. TypeOK
  BY DEF Inv
<1>2. /\ res'[o].state = res[o].state /\ res'[o].owner = res[o].owner
      /\ res'[o].code = res[o].code /\ \A p \in Op \ {o} : res'[p] = res[p]
  BY <1>1, OpFacts DEF LeaseRunsOut, TypeOK, Reservation
<1>3. \A p \in Op : ReservationMove(p)
  BY <1>2 DEF LeaseRunsOut, ReservationMove, Holding
<1> QED BY <1>3, ReservationStepInv DEF ReservationStep, Careful, LeaseRunsOut

LEMMA ReleaseInv ==
    ASSUME Inv, TypeOK', NEW w \in Worker, NEW o \in Op, Mine(w) = o, Release(w)
    PROVE  Inv'
<1>1. TypeOK /\ Knows(w) /\ Truthful(o) /\ wk[w].pc = "release" /\ Finish(w)
  BY DEF Inv, Release
<1>2. o \notin inner
  BY <1>1 DEF Knows, Truthful, Claimed
<1>3. res'[o] = Completed(w, 409) /\ \A p \in Op \ {o} : res'[p] = res[p]
  BY <1>1 DEF Release, TypeOK
<1>4. op' = op /\ \A v \in Worker \ {w} : wk'[v] = wk[v] /\ Knows(v)
  BY <1>1, FinishStep DEF Release, Inv
<1>5. ASSUME res[o].state = "running", res[o].owner = w, NEW v \in Worker
      PROVE  ~ MayWrite(v, o)'
  <2>1. CASE v = w
    BY <1>1, <2>1, FinishStep
  <2>2. CASE v # w
    <3>1. ~ MayWrite(v, o) /\ wk'[v] = wk[v]
      BY <1>1, <1>4, <1>5, <2>2, OwnerWrites
    <3> QED BY <1>4, <3>1 DEF MayWrite, Mine, Kind
  <2> QED BY <2>1, <2>2
<1>6. \A p \in Op : ReservationMove(p)
  BY <1>1, <1>2, <1>3, <1>5, CompletedStep DEF ReservationMove, Holding
<1>7. \A v \in Worker : Careful(v)
  BY <1>1, FinishStep, OneMoves DEF Careful, Committing
<1> QED BY <1>6, <1>7, ReservationStepInv DEF ReservationStep, Release

LEMMA CompleteExecutedInv ==
    ASSUME Inv, TypeOK', NEW w \in Worker, Mine(w) \in Op, CompleteExecuted(w)
    PROVE  Inv'
<1> DEFINE o == Mine(w)
<1>1. TypeOK /\ Knows(w) /\ wk[w].pc = "complete"
  BY DEF Inv, CompleteExecuted
<1>2. /\ op[o].status = "executed" /\ wk[w].done /\ o \in inner
      /\ res[o].owner = w /\ res[o].state # "none"
  BY <1>1 DEF Knows, Owning
<1>3. UNCHANGED <<op, inner, version, granted, effects, lost, drifts>>
  BY DEF CompleteExecuted
<1>4. res'[o] = Completed(w, 200) /\ \A p \in Op \ {o} : res'[p] = res[p]
  BY <1>1 DEF CompleteExecuted, TypeOK
<1>5. /\ res'[o].owner = w /\ res'[o].state # "none"
      /\ res'[o].state = "running" => res[o].state = "running"
  BY <1>1, <1>2, <1>4, CompletedStep
<1>6. \A p \in Op : ReservationMove(p)
  BY <1>1, <1>2, <1>4, CompletedStep DEF ReservationMove, Holding
<1>7. \A v \in Worker : Careful(v)
  <2>1. CASE Raise(w)
    BY <1>1, <1>2, <1>3, <1>5, <2>1, RaiseCareful DEF Claimed
  <2>2. CASE Finish(w)
    BY <1>1, <2>2, FinishStep, OneMoves DEF Careful, Committing
  <2>3. CASE Goto(w, "distrust")
    <3>1. /\ wk'[w].pc = "distrust" /\ Mine(w)' = o
          /\ \A v \in Worker \ {w} : wk'[v] = wk[v]
      BY <1>1, <2>3, GotoStep DEF Mine
    <3>2. Knows(w)'
      BY <1>2, <1>3, <1>5, <3>1 DEF Knows, Committing, Owning, Reviving, Claimed, Mine
    <3>3. \A p \in Op : ~ MayWrite(w, p)'
      BY <3>1 DEF MayWrite
    <3> QED BY <3>1, <3>2, <3>3, OneMoves DEF Careful, Committing
  <2> QED BY <2>1, <2>2, <2>3 DEF CompleteExecuted
<1> QED BY <1>3, <1>6, <1>7, ReservationStepInv DEF ReservationStep

LEMMA MarkInv ==
    ASSUME Inv, TypeOK', NEW w \in Worker, Mine(w) \in Op, Mark(w) \/ Distrust(w)
    PROVE  Inv'
<1> DEFINE o == Mine(w)
<1>1. TypeOK /\ Knows(w) /\ wk[w].pc \in {"mark", "distrust"}
  BY DEF Inv, Mark, Distrust
<1>2. op[o].status \in Claimed /\ res[o].owner = w /\ res[o].state # "none"
  BY <1>1 DEF Knows, Owning
<1>3. UNCHANGED <<op, inner, version, granted, effects, lost, drifts>>
  BY DEF Mark, Distrust
<1>4. res'[o] = Marked(w) /\ \A p \in Op \ {o} : res'[p] = res[p]
  BY <1>1 DEF Mark, Distrust, TypeOK
<1>5. \A p \in Op : ReservationMove(p)
  BY <1>1, <1>4, MarkedStep DEF ReservationMove, Holding
<1>6. Careful(w) /\ \A v \in Worker \ {w} : wk'[v] = wk[v]
  <2>1. CASE Distrust(w)
    BY <1>1, <2>1, FinishStep DEF Careful, Distrust
  <2>2. CASE Mark(w)
    <3>1. /\ wk'[w].pc = "fail" /\ Mine(w)' = o /\ wk'[w].doubt = TRUE
          /\ \A v \in Worker \ {w} : wk'[v] = wk[v]
      BY <1>1, <2>2, WorkerFacts DEF Mark, TypeOK, Job, Mine
    <3>2. res'[o].owner = w /\ res'[o].state # "none"
      BY <1>1, <1>2, <1>4, MarkedStep
    <3>3. Knows(w)'
      BY <1>2, <1>3, <3>1, <3>2 DEF Knows, Committing, Owning, Reviving, Mine
    <3>4. \A p \in Op : ~ MayWrite(w, p)'
      BY <3>1 DEF MayWrite
    <3> QED BY <3>1, <3>3, <3>4 DEF Careful, Committing
  <2> QED BY <2>1, <2>2
<1> QED BY <1>3, <1>5, <1>6, OneMoves, ReservationStepInv DEF ReservationStep

LEMMA SettleInv ==
    ASSUME Inv, TypeOK', NEW w \in Worker, NEW o \in Op, Mine(w) = o, Settle(w)
    PROVE  Inv'
<1> DEFINE r == res'[o]
           late == r.code # 409
           label == IF r.code = 409 THEN "fail" ELSE "mark"
           c == Completed(w, 409)
<1>1. TypeOK /\ Knows(w) /\ wk[w].pc = "settle" /\ Truthful(o)
  BY DEF Inv, Settle
<1>2. /\ op[o].status \in Claimed /\ res[o].owner = w /\ res[o].state # "none"
      /\ res[o].state = "running" /\ o \in inner => o \in lost
  BY <1>1 DEF Knows, Owning
<1>3. UNCHANGED <<op, inner, version, granted, effects, lost, drifts>>
  BY DEF Settle
<1>4. \A p \in Op \ {o} : res'[p] = res[p]
  BY <1>1 DEF Settle, TypeOK
<1>5. \/ r = c
      \/ /\ Holding(o) /\ Kind(o) = "import" /\ o \notin inner
         /\ r.state = "completed" /\ r.code = 409 /\ r.owner = w
  <2>1. CASE res' = [res EXCEPT ![o] = c]
    BY <1>1, <2>1 DEF TypeOK
  <2>2. CASE res' # [res EXCEPT ![o] = c]
    <3>1. /\ Kind(o) = "import" /\ o \notin inner /\ Holding(o)
          /\ res' = [res EXCEPT ![o] = [c EXCEPT !.state = "completed", !.code = 409]]
      BY <2>2 DEF Settle, Holding
    <3>2. c \in Reservation /\ c.owner = w
      BY <1>1, <1>2, CompletedType, CompletedStep
    <3> HIDE DEF c
    <3>3. r = [c EXCEPT !.state = "completed", !.code = 409]
      BY <1>1, <3>1 DEF TypeOK
    <3>4. r.state = "completed" /\ r.code = 409 /\ r.owner = w
      BY <3>2, <3>3 DEF Reservation
    <3> QED BY <3>1, <3>4
  <2> QED BY <2>1, <2>2
<1>6. /\ wk'[w].pc \in {"fail", "mark"} /\ Mine(w)' = o
      /\ wk'[w].pc = "fail" => r.code = 409
      /\ \A v \in Worker \ {w} : wk'[v] = wk[v] /\ Knows(v)
  <2>1. ASSUME NEW l, NEW d, wk' = [wk EXCEPT ![w].pc = l, ![w].doubt = d]
        PROVE  /\ wk'[w].pc = l /\ Mine(w)' = o
               /\ \A v \in Worker \ {w} : wk'[v] = wk[v]
    BY <1>1, <2>1, WorkerFacts DEF TypeOK, Job, Mine
  <2>2. CASE wk' = [wk EXCEPT ![w].pc = label, ![w].doubt = late]
    <3>1. label \in {"fail", "mark"} /\ (label = "fail" => r.code = 409)
      OBVIOUS
    <3>2. /\ wk'[w].pc = label /\ Mine(w)' = o
          /\ \A v \in Worker \ {w} : wk'[v] = wk[v]
      <4> HIDE DEF label, late
      <4> QED BY <2>1, <2>2, Zenon
    <3> QED BY <3>1, <3>2 DEF Inv
  <2>3. CASE r.code = 409 /\ wk' = [wk EXCEPT ![w].pc = "fail", ![w].doubt = FALSE]
    <3>1. /\ wk'[w].pc = "fail" /\ Mine(w)' = o
          /\ \A v \in Worker \ {w} : wk'[v] = wk[v]
      BY <1>1, <2>3, WorkerFacts DEF TypeOK, Job, Mine
    <3> QED BY <2>3, <3>1 DEF Inv
  <2>4. \/ wk' = [wk EXCEPT ![w].pc = IF res'[Mine(w)].code = 409 THEN "fail" ELSE "mark",
                            ![w].doubt = res'[Mine(w)].code # 409]
        \/ /\ res' = [res EXCEPT ![Mine(w)] = [c EXCEPT !.state = "completed", !.code = 409]]
           /\ wk' = [wk EXCEPT ![w].pc = "fail", ![w].doubt = FALSE]
    BY DEF Settle
  <2>5. res' = [res EXCEPT ![Mine(w)] = [c EXCEPT !.state = "completed", !.code = 409]]
        => r.code = 409
    <3>1. c \in Reservation
      BY <1>1, CompletedType
    <3> HIDE DEF c
    <3> QED BY <1>1, <3>1 DEF TypeOK, Reservation
  <2> QED BY <2>2, <2>3, <2>4, <2>5
<1> HIDE DEF late, label
<1>7. r.owner = w /\ r.state # "none"
  BY <1>1, <1>2, <1>5, CompletedStep
<1>8. ASSUME (res[o].state = "running" /\ res[o].owner = w) \/ Kind(o) = "import", NEW v \in Worker
      PROVE  ~ MayWrite(v, o)'
  <2>1. CASE v = w
    BY <1>6, <2>1 DEF MayWrite
  <2>2. CASE v # w
    <3>1. ~ MayWrite(v, o) /\ wk'[v] = wk[v]
      BY <1>1, <1>2, <1>6, <1>8, <2>2, OwnerWrites
    <3> QED BY <1>3, <3>1 DEF MayWrite, Mine, Kind
  <2> QED BY <2>1, <2>2
<1>9. \A p \in Op : ReservationMove(p)
  <2>1. ReservationMove(o)
    <3>1. CASE r = c
      BY <1>1, <1>2, <1>8, <3>1, CompletedStep DEF ReservationMove, Holding
    <3>2. CASE r # c
      BY <1>2, <1>5, <1>8, <3>2 DEF ReservationMove
    <3> QED BY <3>1, <3>2
  <2> QED BY <1>4, <2>1 DEF ReservationMove
<1>10. Knows(w)'
  BY <1>2, <1>3, <1>6, <1>7 DEF Knows, Committing, Owning, Reviving, Mine
<1>11. \A v \in Worker : Careful(v)
  <2>1. \A p \in Op : ~ MayWrite(w, p)'
    BY <1>6 DEF MayWrite
  <2> QED BY <1>6, <1>10, <2>1, OneMoves DEF Careful, Committing
<1> QED BY <1>3, <1>9, <1>11, ReservationStepInv DEF ReservationStep

-----------------------------------------------------------------------------
(* The writes.                                                             *)

(* A worker that writes while the reservation is running is its owner, and *)
(* nobody else may write.                                                  *)
LEMMA OneWriter ==
    ASSUME Inv, NEW w \in Worker, Mine(w) \in Op, MayWrite(w, Mine(w)),
           NEW v \in Worker \ {w}, res[Mine(w)].state = "running"
    PROVE  ~ MayWrite(v, Mine(w))
<1>1. TypeOK /\ Knows(w) /\ Knows(v)
  BY DEF Inv
<1>2. res[Mine(w)].owner = w
  BY <1>1 DEF Knows, MayWrite, Committing, Owning, Reviving
<1> QED BY <1>1, <1>2, OwnerWrites

(* The guard takes the locks of backup policies and remembers the policy   *)
(* in which it found the right.                                            *)
LEMMA GuardInv ==
    ASSUME Inv, TypeOK', NEW w \in Worker, Mine(w) \in Op, Guard(w)
    PROVE  Inv'
<1> DEFINE o == Mine(w)
<1>1. /\ TypeOK /\ Knows(w) /\ ~ BackupsLocked
      /\ granted /\ Fresh(o) /\ o \notin inner /\ Kind(o) = "backup"
      /\ UNCHANGED <<op, res, inner, version, granted, effects, lost, drifts>>
  BY DEF Inv, Guard
<1>2. \/ wk[w].pc = "apply" /\ wk'[w].pc = "commit"
      \/ wk[w].pc = "recover" /\ wk'[w].pc = "recommit"
  BY <1>1, WorkerFacts DEF Guard, TypeOK, Job
<1>3. /\ wk'[w].seen = version["authz"] /\ Mine(w)' = o
      /\ \A v \in Worker \ {w} : wk'[v] = wk[v]
  BY <1>1, WorkerFacts DEF Guard, TypeOK, Job, Mine
<1>4. Fresh(o)' /\ Kind(o)' = "backup"
  BY <1>1, <1>3 DEF Fresh, Kind, Mine
<1>5. version["authz"] \in Int
  BY <1>1, VersionFacts DEF Things
<1>6. Knows(w)'
  BY <1>1, <1>2, <1>3, <1>4, <1>5 DEF Knows, Committing, Owning, Reviving, Mine
<1>7. \A p \in Op : MayWrite(w, p)' => MayWrite(w, p)
  BY <1>1, <1>2, <1>3 DEF MayWrite, Mine, Kind
<1>8. \A v \in Worker : Careful(v)
  BY <1>1, <1>3, <1>6, <1>7 DEF Careful
<1> QED BY <1>1, <1>8, RecordStepInv DEF RecordStep, RecordMove

(* The write of an executor, answered or not.                              *)
LEMMA WroteInv ==
    ASSUME Inv, TypeOK', NEW w \in Worker, Mine(w) \in Op, wk[w].pc \in {"apply", "commit"},
           Mine(w) \notin inner, Fresh(Mine(w)), Kind(Mine(w)) = "backup" => Committing(w),
           UNCHANGED <<op, res, drifts>>, Wrote(w)
    PROVE  Inv'
<1> DEFINE o == Mine(w)
<1>1. TypeOK /\ Knows(w) /\ Write(o) /\ o \in inner'
  BY DEF Inv, Wrote, Write
<1>2. op[o].status \in Claimed /\ res[o].owner = w /\ res[o].state # "none"
  BY <1>1 DEF Knows, Owning
<1>3. MayWrite(w, o)
  BY DEF MayWrite
<1>4. CASE Done(w) /\ lost' = lost
  <2>1. /\ wk'[w].pc = "record" /\ wk'[w].done = TRUE /\ Mine(w)' = o
        /\ \A v \in Worker \ {w} : wk'[v] = wk[v]
    BY <1>1, <1>4, WorkerFacts DEF Done, TypeOK, Job, Mine
  <2>2. Knows(w)' /\ ~ Committing(w)'
    BY <1>1, <1>2, <2>1 DEF Knows, Committing, Owning, Reviving, Mine
  <2>3. \A p \in Op : MayWrite(w, p)' => MayWrite(w, p)
    BY <2>1 DEF MayWrite, Mine
  <2>4. WriteStep(w)
    BY <1>1, <1>2, <1>3, <1>4, <2>1, <2>2, <2>3, OneWriter DEF WriteStep
  <2> QED BY <2>4, WriteStepInv
<1>5. CASE Raise(w) /\ lost' = lost \cup {o}
  <2>1. /\ wk'[w].pc \in {"mark", "settle"} /\ Mine(w)' = o
        /\ \A v \in Worker \ {w} : wk'[v] = wk[v]
    BY <1>1, <1>5, RaiseStep DEF Mine
  <2>2. Knows(w)' /\ ~ Committing(w)'
    BY <1>2, <1>5, <2>1 DEF Knows, Committing, Owning, Reviving, Mine
  <2>3. \A p \in Op : MayWrite(w, p)' => MayWrite(w, p)
    BY <2>1 DEF MayWrite, Mine
  <2>4. WriteStep(w)
    BY <1>1, <1>2, <1>3, <1>5, <2>1, <2>2, <2>3, OneWriter DEF WriteStep
  <2> QED BY <2>4, WriteStepInv
<1> QED BY <1>4, <1>5 DEF Wrote

LEMMA ApplyInv ==
    ASSUME Inv, TypeOK', NEW w \in Worker, Mine(w) \in Op, Apply(w)
    PROVE  Inv'
<1> DEFINE o == Mine(w)
<1>1. TypeOK /\ Knows(w) /\ wk[w].pc = "apply"
  BY DEF Inv, Apply
<1>2. /\ op[o].status \in Claimed /\ res[o].owner = w /\ res[o].state # "none"
      /\ res[o].state = "running" /\ o \in inner => o \in lost
  BY <1>1 DEF Knows, Owning
<1>3. UNCHANGED <<op, res, drifts>>
  BY DEF Apply
<1>4. CASE Kind(o) # "backup" /\ o \notin inner /\ Writable(o, w) /\ Wrote(w)
  BY <1>1, <1>3, <1>4, WroteInv DEF Writable
<1>5. CASE o \in inner /\ Done(w) /\ UNCHANGED <<inner, version, granted, effects, lost>>
  <2>1. /\ wk'[w].pc = "record" /\ wk'[w].done = TRUE /\ Mine(w)' = o
        /\ \A v \in Worker \ {w} : wk'[v] = wk[v]
    BY <1>1, <1>5, WorkerFacts DEF Done, TypeOK, Job, Mine
  <2>2. Knows(w)'
    BY <1>2, <1>3, <1>5, <2>1 DEF Knows, Committing, Owning, Reviving, Mine
  <2>3. \A p \in Op : MayWrite(w, p)' => MayWrite(w, p)
    BY <1>1, <2>1 DEF MayWrite, Mine
  <2>4. \A v \in Worker : Careful(v)
    BY <2>1, <2>2, <2>3, OneMoves DEF Careful, Committing
  <2> QED BY <1>3, <1>5, <2>4, RecordStepInv DEF RecordStep, RecordMove
<1>6. CASE Raise(w) /\ UNCHANGED <<inner, version, granted, effects, lost>>
  <2>1. \A v \in Worker : Careful(v)
    BY <1>1, <1>2, <1>3, <1>6, RaiseCareful
  <2> QED BY <1>3, <1>6, <2>1, RecordStepInv DEF RecordStep, RecordMove
<1> QED BY <1>4, <1>5, <1>6 DEF Apply

LEMMA CommitInv ==
    ASSUME Inv, TypeOK', NEW w \in Worker, Mine(w) \in Op, Commit(w)
    PROVE  Inv'
<1> DEFINE o == Mine(w)
<1>1. TypeOK /\ Knows(w) /\ wk[w].pc = "commit" /\ Committing(w)
  BY DEF Inv, Commit, Committing
<1>2. /\ op[o].status \in Claimed /\ res[o].owner = w /\ res[o].state # "none"
      /\ res[o].state = "running" /\ o \in inner => o \in lost
      /\ o \notin inner /\ Fresh(o)
  BY <1>1 DEF Knows, Owning
<1>3. UNCHANGED <<op, res, drifts>>
  BY DEF Commit
<1>4. CASE Wrote(w)
  BY <1>1, <1>2, <1>3, <1>4, WroteInv
<1>5. CASE Raise(w) /\ UNCHANGED <<inner, version, granted, effects, lost>>
  <2>1. \A v \in Worker : Careful(v)
    BY <1>1, <1>2, <1>3, <1>5, RaiseCareful
  <2> QED BY <1>3, <1>5, <2>1, RecordStepInv DEF RecordStep, RecordMove
<1> QED BY <1>4, <1>5 DEF Commit

LEMMA RecoverInv ==
    ASSUME Inv, TypeOK', NEW w \in Worker, Mine(w) \in Op, Recover(w) \/ Recommit(w)
    PROVE  Inv'
<1> DEFINE o == Mine(w)
<1>1. TypeOK /\ Knows(w) /\ wk[w].pc \in {"recover", "recommit"}
  BY DEF Inv, Recover, Recommit
<1>2. op[o].status \in Claimed /\ res[o].state \in {"reconcile_required", "completed"}
  BY <1>1 DEF Knows, Reviving
<1>3. UNCHANGED <<op, res, lost, drifts>>
  BY DEF Recover, Recommit
<1>4. /\ wk'[w].pc \in {"adopt_record", "give_up"} /\ Mine(w)' = o
      /\ \A v \in Worker \ {w} : wk'[v] = wk[v]
  BY <1>1, GotoStep DEF Recover, Recommit, Mine
<1>5. ~ Committing(w)' /\ \A p \in Op : ~ MayWrite(w, p)'
  BY <1>4 DEF MayWrite, Committing
<1>6. CASE /\ \/ wk[w].pc = "recommit"
              \/ Kind(o) = "secrets" /\ o \notin inner /\ Fresh(o)
           /\ Write(o)
  <2>1. o \in inner'
    BY <1>6 DEF Write
  <2>2. Knows(w)'
    BY <1>2, <1>3, <1>4, <2>1 DEF Knows, Committing, Owning, Reviving, Mine
  <2>3. /\ o \notin inner /\ Fresh(o) /\ Kind(o) # "import"
        /\ Kind(o) = "backup" => Committing(w)
    BY <1>1, <1>6 DEF Knows, Committing
  <2>4. MayWrite(w, o)
    BY <1>1, <2>3 DEF MayWrite
  <2>5. WriteStep(w)
    BY <1>2, <1>3, <1>4, <1>5, <1>6, <2>2, <2>3, <2>4 DEF WriteStep
  <2> QED BY <2>5, WriteStepInv
<1>7. CASE /\ UNCHANGED <<inner, version, granted, effects>>
           /\ wk'[w].pc = "adopt_record" => o \in inner
  <2>1. Knows(w)'
    BY <1>2, <1>3, <1>4, <1>7 DEF Knows, Committing, Owning, Reviving, Mine
  <2>2. \A v \in Worker : Careful(v)
    BY <1>4, <1>5, <2>1, OneMoves DEF Careful
  <2> QED BY <1>3, <1>7, <2>2, RecordStepInv DEF RecordStep, RecordMove
<1>8. Goto(w, "give_up") => wk'[w].pc = "give_up"
  BY <1>1, GotoStep
<1>9. CASE Recover(w)
  BY <1>6, <1>7, <1>8, <1>9 DEF Recover, Recovered, Writable
<1>10. CASE Recommit(w)
  BY <1>6, <1>7, <1>8, <1>10 DEF Recommit
<1> QED BY <1>9, <1>10

LEMMA DriftInv ==
    ASSUME Inv, TypeOK', NEW k \in Things, Drift(k)
    PROVE  Inv'
<1>1. /\ TypeOK /\ VersionsBounded /\ UNCHANGED <<op, res, inner, effects, wk, lost>>
      /\ version' = [version EXCEPT ![k] = @ + 1]
      /\ k # "authz" => granted' = granted
      /\ k = "backup" => ~ BackupsLocked
  BY DEF Inv, Drift
<1>2. VersionsBounded' /\ AppliedAsReviewed'
  BY <1>1, DriftType DEF Inv, AppliedAsReviewed
<1>3. ASSUME NEW v \in Worker
      PROVE  Knows(v)'
  <2>1. wk[v].pc \in {"replan", "apply", "commit", "recommit"} =>
           /\ wk[v].seen <= version'["authz"]
           /\ wk[v].seen = version'["authz"] => granted'
    <3>1. wk[v].seen \in Int /\ version["authz"] \in Int
      BY <1>1, WorkerFacts, VersionFacts DEF Things
    <3>2. version'["authz"] = IF k = "authz" THEN version["authz"] + 1 ELSE version["authz"]
      BY <1>1 DEF TypeOK, Things
    <3>3. Knows(v)
      BY DEF Inv
    <3> QED BY <1>1, <3>1, <3>2, <3>3 DEF Knows
  <2>2. Knows(v)
    BY DEF Inv
  <2>3. Committing(v) => (Kind(Mine(v)) = "backup" /\ Fresh(Mine(v)))'
    <3>1. Committing(v) => k # "backup"
      BY <1>1 DEF BackupsLocked
    <3> QED BY <1>1, <2>2, <3>1 DEF Knows, Kind, Fresh, Mine, TypeOK, Things
  <2> QED BY <1>1, <2>1, <2>2, <2>3 DEF Knows, Committing, Mine
<1>4. ASSUME NEW o \in Op
      PROVE  Settled(o)' /\ Truthful(o)'
  <2>1. Settled(o) /\ Truthful(o)
    BY DEF Inv
  <2> QED BY <1>1, <2>1 DEF Settled, Truthful, Applied, Holding, MayWrite, Mine, Kind
<1>5. OneCommits'
  BY <1>1 DEF Inv, OneCommits, Committing
<1> QED BY <1>2, <1>3, <1>4, <1>5 DEF Inv

-----------------------------------------------------------------------------
(* The invariant.                                                          *)

(* A step of a worker is a step of one that is at some operation.          *)
LEMMA WorkerHasOp ==
    ASSUME Inv, NEW w \in Worker, Execute(w) \/ Reconcile(w)
    PROVE  Mine(w) \in Op
<1>1. wk[w].pc # "idle"
  BY DEF Execute, Reserve, Claim, Release, Authorize, Replan, Guard, Apply, Commit, ReadBackFails,
         RecordExecuted, CompleteExecuted, Settle, Mark, Distrust, Fail,
         Reconcile, Prepare, Reauthorize, Recover, Recommit, AdoptRecord, Adopt, GiveUp
<1> QED BY <1>1 DEF Inv, Knows

LEMMA InitInv ==
    ASSUME Init
    PROVE  Inv
<1>1. 0 \in Versions /\ Cardinality(Op) \in Nat
  BY PrivilegedAssumption, FS_CardinalityType DEF Versions
<1>2. NoRecord \in Record /\ NoReservation \in Reservation /\ Idle \in Job
  BY <1>1 DEF NoRecord, Record, Things, NoReservation, Reservation, Idle, Job
<1>3. TypeOK
  BY <1>1, <1>2, PrivilegedAssumption DEF Init, TypeOK
<1>4. VersionsBounded
  BY FS_EmptySet DEF Init, VersionsBounded
<1>5. \A w \in Worker : Knows(w)
  BY DEF Init, Knows, Committing, Idle, Owning, Reviving
<1>6. \A o \in Op : Settled(o) /\ Truthful(o)
  BY DEF Init, Settled, Truthful, Applied, Holding, MayWrite, Mine, Kind, NoRecord,
         NoReservation, Idle, Claimed
<1>7. AppliedAsReviewed /\ OneCommits
  BY DEF Init, AppliedAsReviewed, OneCommits, Committing, Idle
<1> QED BY <1>3, <1>4, <1>5, <1>6, <1>7 DEF Inv

LEMMA NextInv ==
    ASSUME Inv, [Next]_vars
    PROVE  Inv'
<1>1. TypeOK'
  BY NextType DEF Inv
<1>2. CASE \E o \in Op : People(o) \/ LeaseRunsOut(o)
  BY <1>1, <1>2, PeopleInv, LeaseInv
<1>3. CASE \E k \in Kinds \cup {"authz"} : Drift(k)
  BY <1>1, <1>3, DriftInv, PrivilegedAssumption DEF Things
<1>4. ASSUME NEW w \in Worker, Execute(w)
      PROVE  Inv'
  <2>1. Mine(w) \in Op
    BY <1>4, WorkerHasOp
  <2> QED BY <1>1, <1>4, <2>1, ReserveInv, ClaimInv, ReleaseInv, AuthorizeInv, GuardInv,
             ApplyInv, CommitInv,
             RecordExecutedInv, CompleteExecutedInv, SettleInv, MarkInv, FailInv DEF Execute
<1>5. ASSUME NEW w \in Worker, Reconcile(w)
      PROVE  Inv'
  <2>1. Mine(w) \in Op
    BY <1>5, WorkerHasOp
  <2> QED BY <1>1, <1>5, <2>1, PrepareInv, ReauthorizeInv, RecoverInv, AdoptRecordInv,
             AdoptInv, FailInv DEF Reconcile
<1>6. CASE \E w \in Worker : Crash(w)
  BY <1>1, <1>6, CrashInv
<1>7. CASE \E w \in Worker, o \in Op : PickApproved(w, o) \/ PickExecuting(w, o)
  BY <1>1, <1>7, PickInv
<1>8. CASE UNCHANGED vars
  <2>1. RecordStep
    BY <1>8 DEF vars, RecordStep, RecordMove, Careful
  <2> QED BY <1>1, <2>1, RecordStepInv
<1> QED BY <1>2, <1>3, <1>4, <1>5, <1>6, <1>7, <1>8 DEF Next

-----------------------------------------------------------------------------
(* The theorems.                                                           *)

(* The inductive invariant: what every worker may rely on between its      *)
(* steps, whose a reservation is, and what the records say of the writes   *)
(* hold in every reachable state.                                          *)
THEOREM InvHolds == Spec => []Inv
<1>1. Init => Inv
  BY InitInv
<1>2. Inv /\ [Next]_vars => Inv'
  BY NextInv
<1> QED BY <1>1, <1>2, PTL DEF Spec

(* Every variable keeps its shape, versions stay within their bound.       *)
THEOREM TypesHold == Spec => []TypeOK
<1>1. Inv => TypeOK
  BY DEF Inv
<1> QED BY <1>1, InvHolds, PTL

(* Every write is over exactly the version that was reviewed, and a        *)
(* withdrawn operation never wrote (the compare-and-swap of approval and   *)
(* execution).                                                             *)
THEOREM WritesAreReviewed == Spec => []AppliedAsReviewed
<1>1. Inv => AppliedAsReviewed
  BY DEF Inv
<1> QED BY <1>1, InvHolds, PTL

(* An operation is on record as executed only if it wrote, and as failed   *)
(* for good only if it did not and cannot any more, but for a lost answer  *)
(* (the terminal transitions and the completion of the reservation).       *)
THEOREM RecordsAreTrue == Spec => []RecordIsTrue
<1>1. Inv => RecordIsTrue
  <2> SUFFICES ASSUME Inv, NEW o \in Op
               PROVE  /\ op[o].status = "executed" => Applied(o)
                      /\ \/ op[o].status = "execution_failed" /\ ~ op[o].doubt
                         \/ res[o].code = 409
                         => o \in lost \/ ~ Applied(o)
    BY DEF RecordIsTrue
  <2> QED BY DEF Inv, Truthful
<1> QED BY <1>1, InvHolds, PTL

(* A write that is not on record as executed holds its target, whatever    *)
(* became of its worker (reserve_mutation and the reconciliation state).   *)
THEOREM DoubtHolds == Spec => []DoubtHoldsTarget
<1>1. Inv => DoubtHoldsTarget
  <2> SUFFICES ASSUME Inv, NEW o \in Op \ lost, NEW p \in Op, Applied(o),
                      op[o].status # "executed", p # o, Kind(p) = Kind(o),
                      res[p].state = "running"
               PROVE  FALSE
    BY DEF DoubtHoldsTarget
  <2>1. Truthful(o) /\ Settled(o)
    BY DEF Inv
  <2>2. Holding(o) /\ Holding(p)
    BY <2>1 DEF Truthful, Holding
  <2> QED BY <2>1, <2>2 DEF Settled
<1> QED BY <1>1, InvHolds, PTL

(* The authorization policy is written only while its approver has the     *)
(* right, although the right was checked several steps before and may have *)
(* been taken since (the version the authorization was read from is        *)
(* compared again); a backup policy is written without the right only by a *)
(* transaction whose guard found it in a policy that was replaced since    *)
(* (revision_guard reads in a session of its own).                         *)
THEOREM WritesAreAuthorized == Spec => AuthorizedAtEffect
<1> DEFINE Authorized == \A o \in Op :
              Applied(o)' /\ ~ Applied(o) /\ ~ granted
              => /\ Kind(o) # "authz"
                 /\ Kind(o) = "backup" =>
                      \E w \in Worker : /\ Mine(w) = o /\ Committing(w)
                                         /\ wk[w].seen < version["authz"]
<1>1. ASSUME Inv, [Next]_vars
      PROVE  Authorized
  <2> SUFFICES ASSUME NEW o \in Op, Applied(o)', ~ Applied(o), ~ granted
               PROVE  /\ Kind(o) # "authz"
                      /\ Kind(o) = "backup" =>
                           \E w \in Worker : /\ Mine(w) = o /\ Committing(w)
                                              /\ wk[w].seen < version["authz"]
    OBVIOUS
  <2>1. effects' # effects
    BY DEF Applied
  <2>2. PICK w \in Worker :
          /\ Write(Mine(w))
          /\ \/ Committing(w)
             \/ Kind(Mine(w)) # "backup" /\ wk[w].pc = "apply" /\ Writable(Mine(w), w)
             \/ Kind(Mine(w)) = "secrets"
    <3>1. PICK w \in Worker : Execute(w) \/ Reconcile(w)
      BY <2>1, <1>1 DEF Next, vars, People, Plan, View, Approve, Cancel, Revoke, LeaseRunsOut,
         Drift, Crash, PickApproved, PickExecuting
    <3>2. Apply(w) \/ Commit(w) \/ Recover(w) \/ Recommit(w)
      <4>1. CASE Execute(w)
        BY <2>1, <4>1 DEF Execute, Reserve, Claim, Release, Authorize, Replan, Guard,
           ReadBackFails, RecordExecuted, CompleteExecuted, Settle, Mark, Distrust, Fail
      <4>2. CASE Reconcile(w)
        BY <2>1, <4>2 DEF Reconcile, Prepare, Reauthorize, AdoptRecord, Adopt, GiveUp
      <4> QED BY <3>1, <4>1, <4>2
    <3> QED BY <2>1, <3>2 DEF Apply, Commit, Recover, Recommit, Wrote, Committing
  <2>3. o = Mine(w) /\ Knows(w) /\ TypeOK
    <3>1. effects' = effects \cup {<<Mine(w), version[Kind(Mine(w))]>>}
      BY <2>2 DEF Write
    <3> QED BY <1>1, <3>1 DEF Applied, Inv
  <2>4. CASE Committing(w)
    <3>1. Kind(o) = "backup" /\ wk[w].seen <= version["authz"] /\ wk[w].seen # version["authz"]
      BY <2>3, <2>4 DEF Knows, Committing
    <3>2. wk[w].seen \in Int /\ version["authz"] \in Int
      BY <2>3, WorkerFacts, VersionFacts DEF Things
    <3> QED BY <2>3, <2>4, <3>1, <3>2
  <2>5. CASE Kind(o) # "backup" /\ wk[w].pc = "apply" /\ Writable(o, w)
    <3>1. Kind(o) = "authz" => version["authz"] = wk[w].seen
      BY <2>5 DEF Writable
    <3> QED BY <2>3, <2>5, <3>1 DEF Knows
  <2>6. CASE Kind(o) = "secrets"
    BY <2>6
  <2> QED BY <2>2, <2>3, <2>4, <2>5, <2>6
<1>2. Spec => [][Authorized]_vars
  BY <1>1, InvHolds, PTL DEF Spec
<1> QED BY <1>2 DEF AuthorizedAtEffect

=============================================================================

----------------------- MODULE MergeTrainLandingProof -----------------------
(***************************************************************************)
(* Proofs about MergeTrainLanding for every batch, every set of passes and *)
(* every number of faults and outside events.                              *)
(*                                                                         *)
(* The argument: the base branch only grows, so an entry that was in place *)
(* stays in place, and every pass, with or without the lease, has seen all *)
(* entries behind it in place (Sound).  Only the owner of the lease can    *)
(* add an admission, and from its own reconciliation on the latest         *)
(* admission of the entry it is at is resolved (Quiet).                    *)
(***************************************************************************)
EXTENDS MergeTrainLanding, SequenceTheorems, TLAPS

-----------------------------------------------------------------------------
(* The base branch and the admissions.                                     *)

(* A commit on top leaves every entry in place that was in place.          *)
LEMMA PlacedStays ==
    ASSUME base \in Seq(Commit), NEW c \in Commit,
           base' = base \/ base' = Append(base, c),
           NEW i \in Nat \ {0}, Placed(i)
    PROVE  Placed(i)'
<1>1. CASE base' = base
  BY <1>1 DEF Placed
<1>2. CASE base' = Append(base, c)
  <2>1. /\ Len(base) \in Nat
        /\ Len(base') = Len(base) + 1
        /\ \A k \in 1..Len(base) : base'[k] = base[k]
    BY <1>2, AppendProperties, LenProperties
  <2> QED BY <2>1 DEF Placed
<1> QED BY <1>1, <1>2

(* The sequences of admissions are sequences.                              *)
LEMMA AttemptFacts ==
    ASSUME att \in [Entry -> Seq(Attempt)], NEW i \in Entry
    PROVE  /\ att[i] \in Seq(Attempt)
           /\ Len(att[i]) \in Nat
           /\ DOMAIN att[i] = 1..Len(att[i])
           /\ \A k \in 1..Len(att[i]) : att[i][k] \in Attempt
           /\ att[i] # <<>> => Len(att[i]) \in 1..Len(att[i])
           /\ Len(att[i]) # 0 => att[i] # <<>>
<1>1. att[i] \in Seq(Attempt)
  OBVIOUS
<1>2. Len(att[i]) \in Nat /\ DOMAIN att[i] = 1..Len(att[i]) /\ att[i] \in [1..Len(att[i]) -> Attempt]
  BY <1>1, LenProperties
<1>3. att[i] # <<>> => Len(att[i]) # 0
  BY <1>1, EmptySeq
<1>4. Len(att[i]) # 0 => att[i] # <<>>
  BY <1>1, EmptySeq
<1> QED BY <1>1, <1>2, <1>3, <1>4

(* One admission is replaced.                                              *)
LEMMA Replaced ==
    ASSUME att \in [Entry -> Seq(Attempt)], NEW i \in Entry,
           NEW k \in 1..Len(att[i]), NEW e \in Attempt,
           att' = [att EXCEPT ![i] = [att[i] EXCEPT ![k] = e]]
    PROVE  /\ att' \in [Entry -> Seq(Attempt)]
           /\ \A j \in Entry : Len(att'[j]) = Len(att[j]) /\ DOMAIN att'[j] = DOMAIN att[j]
           /\ \A j \in Entry : \A n \in DOMAIN att[j] :
                  att'[j][n] = IF j = i /\ n = k THEN e ELSE att[j][n]
<1>1. /\ [att[i] EXCEPT ![k] = e] \in Seq(Attempt)
      /\ Len([att[i] EXCEPT ![k] = e]) = Len(att[i])
      /\ \A n \in 1..Len(att[i]) : [att[i] EXCEPT ![k] = e][n] = IF n = k THEN e ELSE att[i][n]
  BY ExceptSeq, AttemptFacts
<1>2. att' \in [Entry -> Seq(Attempt)]
  BY <1>1
<1>3. att'[i] = [att[i] EXCEPT ![k] = e] /\ \A j \in Entry \ {i} : att'[j] = att[j]
  OBVIOUS
<1>4. \A j \in Entry : Len(att'[j]) = Len(att[j])
  BY <1>1, <1>3
<1>5. \A j \in Entry : DOMAIN att'[j] = DOMAIN att[j]
  BY <1>3
<1>6. DOMAIN att[i] = 1..Len(att[i])
  BY AttemptFacts
<1>7. \A j \in Entry : \A n \in DOMAIN att[j] :
          att'[j][n] = IF j = i /\ n = k THEN e ELSE att[j][n]
  BY <1>1, <1>3, <1>6
<1> QED BY <1>2, <1>4, <1>5, <1>7

(* What may happen to admissions that exist: an unresolved one gets its    *)
(* outcome, "landed" only for an entry in place, and a request is sent     *)
(* only behind entries in place.                                           *)
Advances ==
    /\ \A i \in Entry : Len(att'[i]) = Len(att[i]) /\ DOMAIN att'[i] = DOMAIN att[i]
    /\ \A i \in Entry : \A k \in DOMAIN att[i] :
         /\ \/ att'[i][k].outcome = att[i][k].outcome
            \/ /\ att[i][k].outcome \in {"none", "reconcile_required"}
               /\ att'[i][k].outcome = "landed" => Placed(i)
         /\ \/ att'[i][k].call = att[i][k].call
            \/ \A j \in 1..(i - 1) : Placed(j)

(* A resolved admission stays resolved.                                    *)
LEMMA ResolvedStays ==
    ASSUME TypeOK, TypeOK', Advances, NEW i \in Entry, Resolved(i)
    PROVE  Resolved(i)'
<1>1. att \in [Entry -> Seq(Attempt)] /\ att' \in [Entry -> Seq(Attempt)]
  BY DEF TypeOK
<1>2. Len(att[i]) \in Nat /\ DOMAIN att[i] = 1..Len(att[i]) /\ Len(att'[i]) = Len(att[i])
  BY <1>1, AttemptFacts DEF Advances
<1>3. CASE att[i] = <<>>
  <2>1. Len(att'[i]) = 0
    BY <1>2, <1>3
  <2>2. att'[i] = <<>>
    BY <1>1, <2>1, EmptySeq
  <2> QED BY <2>2 DEF Resolved, Latest
<1>4. CASE att[i] # <<>>
  <2>1. Len(att[i]) \in DOMAIN att[i]
    BY <1>1, <1>2, <1>4, AttemptFacts
  <2>2. att[i][Len(att[i])].outcome = "rejected"
    <3>1. att[i][Len(att[i])] \in Attempt
      BY <1>1, <1>2, <2>1, AttemptFacts
    <3>2. att[i][Len(att[i])].outcome # "no_admission"
      BY <3>1 DEF Attempt
    <3> QED BY <1>4, <3>2 DEF Resolved, Latest
  <2>3. att'[i][Len(att'[i])].outcome = "rejected"
    BY <1>2, <2>1, <2>2 DEF Advances
  <2> QED BY <2>3 DEF Resolved, Latest
<1> QED BY <1>3, <1>4

(* Every step but the creation of an admission: the base grows, outcomes   *)
(* advance, a record is backed by the base, and a pass that moves knows    *)
(* what it has to know.                                                    *)
LEMMA StepInv ==
    ASSUME Inv, TypeOK', NEW c \in Commit,
           base' = base \/ base' = Append(base, c),
           Advances,
           rec' = rec \/ \A i \in 1..rec'.landed : Placed(i),
           \A q \in Pass : \/ job'[q] = job[q] /\ (row'.owner = q => row.owner = q)
                           \/ Sound(job[q])' /\ Quiet(q)'
    PROVE  Inv'
<1>1. \A i \in Nat \ {0} : Placed(i) => Placed(i)'
  BY PlacedStays DEF Inv, TypeOK
<1>2. Entry \subseteq Nat \ {0} /\ rec'.landed \in 0..N /\ N \in Nat
  BY LandingAssumption DEF Entry, TypeOK, Record
<1>3. LandedIsTested'
  <2>1. \A i \in 1..rec'.landed : Placed(i)
    BY DEF Inv, LandedIsTested
  <2> QED BY <1>1, <1>2, <2>1 DEF LandedIsTested
<1>4. LandedOutcomeIsReal'
  <2> SUFFICES ASSUME NEW i \in Entry, NEW k \in DOMAIN att'[i], att'[i][k].outcome = "landed"
               PROVE  Placed(i)'
    BY DEF LandedOutcomeIsReal
  <2>1. k \in DOMAIN att[i] /\ Placed(i)
    BY DEF Advances, Inv, LandedOutcomeIsReal
  <2> QED BY <1>1, <1>2, <2>1
<1>5. OneOpenAttempt'
  <2> SUFFICES ASSUME NEW i \in Entry, NEW k \in DOMAIN att'[i], k < Len(att'[i])
               PROVE  att'[i][k].outcome = "rejected"
    BY DEF OneOpenAttempt
  <2>1. k \in DOMAIN att[i] /\ k < Len(att[i])
    BY DEF Advances
  <2>2. att[i][k].outcome = "rejected"
    BY <2>1 DEF Inv, OneOpenAttempt
  <2> QED BY <2>1, <2>2 DEF Advances
<1>6. MergedInOrder'
  <2> SUFFICES ASSUME NEW i \in Entry, NEW k \in DOMAIN att'[i], att'[i][k].call # "none",
                      NEW j \in 1..(i - 1)
               PROVE  Placed(j)'
    BY DEF MergedInOrder
  <2>1. k \in DOMAIN att[i]
    BY DEF Advances
  <2>2. Placed(j)
    BY <2>1 DEF Advances, Inv, MergedInOrder
  <2> QED BY <1>1, <1>2, <2>2
<1>7. ASSUME NEW q \in Pass PROVE Sound(job[q])' /\ Quiet(q)'
  <2>1. CASE Sound(job[q])' /\ Quiet(q)'
    BY <2>1
  <2>2. CASE job'[q] = job[q] /\ (row'.owner = q => row.owner = q)
    <3>1. Sound(job[q]) /\ Quiet(q) /\ job[q] \in Job
      BY DEF Inv, TypeOK
    <3>2. job[q].entry \in Entry /\ job[q].plan \in 0..N
      BY <3>1 DEF Job
    <3>3. Sound(job[q])'
      <4>1. \A i \in 1..(job[q].entry - 1) : Placed(i)'
        BY <1>1, <1>2, <3>1, <3>2 DEF Sound
      <4>2. \A i \in 1..job[q].plan : Placed(i)'
        BY <1>1, <1>2, <3>1, <3>2 DEF Sound
      <4>3. job[q].pc \in {"progress", "write"} => Placed(job[q].entry)'
        BY <1>1, <1>2, <2>2, <3>1, <3>2 DEF Sound
      <4>4. Len(att'[job[q].entry]) = Len(att[job[q].entry])
        BY <3>2 DEF Advances
      <4> QED BY <2>2, <3>1, <4>1, <4>2, <4>3, <4>4 DEF Sound
    <3>4. Quiet(q)'
      BY <2>2, <3>1, <3>2, ResolvedStays DEF Quiet, Inv
    <3> QED BY <3>3, <3>4
  <2> QED BY <2>1, <2>2
<1> QED BY <1>3, <1>4, <1>5, <1>6, <1>7 DEF Inv

(* A step that leaves the admissions alone advances them.                  *)
LEMMA Idling ==
    ASSUME att' = att
    PROVE  Advances
BY DEF Advances

(* A step of one pass.                                                     *)
LEMMA PassInv ==
    ASSUME Inv, NEW p \in Pass, NEW j \in Job,
           UNCHANGED <<base, pr>>,
           att' \in [Entry -> Seq(Attempt)], Advances,
           rec' \in Record, rec' = rec \/ \A i \in 1..rec'.landed : Placed(i),
           row' \in Row, row'.owner \in {row.owner, NoPass, p},
           faults' \in 0..MaxFaults, outside' \in 0..MaxOutside,
           job' = [job EXCEPT ![p] = j],
           Sound(j),
           row'.owner = p /\ j.pc \in {"admit", "evaluate", "persist"} => Resolved(j.entry)'
    PROVE  Inv'
<1>1. TypeOK'
  BY DEF Inv, TypeOK
<1>2. job'[p] = j /\ \A q \in Pass \ {p} : job'[q] = job[q]
  BY DEF Inv, TypeOK
<1>3. j.entry \in Entry
  BY DEF Job
<1>4. Sound(job[p])'
  <2>1. \A i \in 1..(j.entry - 1) : Placed(i)'
    BY DEF Sound, Placed
  <2>2. \A i \in 1..j.plan : Placed(i)'
    BY DEF Sound, Placed
  <2>3. j.pc \in {"progress", "write"} => Placed(j.entry)'
    BY DEF Sound, Placed
  <2>4. Len(att'[j.entry]) = Len(att[j.entry])
    BY <1>3 DEF Advances
  <2> QED BY <1>2, <2>1, <2>2, <2>3, <2>4 DEF Sound
<1>5. Quiet(p)'
  BY <1>2 DEF Quiet
<1>6. \A q \in Pass : \/ job'[q] = job[q] /\ (row'.owner = q => row.owner = q)
                      \/ Sound(job[q])' /\ Quiet(q)'
  <2> SUFFICES ASSUME NEW q \in Pass, q # p
               PROVE  job'[q] = job[q] /\ (row'.owner = q => row.owner = q)
    BY <1>4, <1>5
  <2> QED BY <1>2, LandingAssumption
<1>7. [pr |-> 0, tested |-> FALSE] \in Commit
  BY LandingAssumption DEF Commit
<1> QED BY <1>1, <1>6, <1>7, StepInv

(* The step needs no knowledge that the pass does not have already.        *)
Follows(p, step) ==
    /\ step \notin {"progress", "provider", "wait"}
    /\ step = "write" => job[p].pc = "progress"
    /\ step = "put" => job[p].pc = "provider"
    /\ step = "commit" => job[p].pc = "wait"
    /\ step \in {"admit", "evaluate", "persist"} => job[p].pc \in {"admit", "evaluate"}

(* The lease stays where it is or comes to a pass that starts.             *)
Keeps(p, step) ==
    /\ row'.owner \in {row.owner, NoPass, p}
    /\ step \in {"admit", "evaluate", "persist"} => row'.owner = row.owner

(* A pass moves on to such a step.                                         *)
LEMMA GotoInv ==
    ASSUME Inv, NEW p \in Pass, NEW step \in Steps,
           UNCHANGED <<base, pr, att, rec>>,
           row' \in Row, Keeps(p, step),
           faults' \in 0..MaxFaults, outside' \in 0..MaxOutside,
           Goto(p, step),
           Follows(p, step)
    PROVE  Inv'
<1>1. job[p] \in Job /\ Sound(job[p]) /\ Quiet(p)
  BY DEF Inv, TypeOK
<1>0. PICK j \in Job : j = [job[p] EXCEPT !.pc = step]
  BY <1>1 DEF Job
<1>2. j.pc = step /\ j.entry = job[p].entry /\ j.plan = job[p].plan /\ j.turn = job[p].turn
  BY <1>0, <1>1 DEF Job
<1>3. job' = [job EXCEPT ![p] = j]
  BY <1>0 DEF Goto
<1>4. Sound(j)
  BY <1>1, <1>2 DEF Sound, Follows
<1>5. row'.owner = p /\ j.pc \in {"admit", "evaluate", "persist"} => Resolved(j.entry)'
  <2> SUFFICES ASSUME row'.owner = p, step \in {"admit", "evaluate", "persist"}
               PROVE  Resolved(j.entry)'
    BY <1>2
  <2>1. row.owner = p /\ job[p].pc \in {"admit", "evaluate"}
    BY DEF Keeps, Follows
  <2>2. Resolved(j.entry)
    BY <1>1, <1>2, <2>1 DEF Quiet
  <2> QED BY <2>2 DEF Resolved, Latest
<1>6. att' \in [Entry -> Seq(Attempt)] /\ rec' \in Record
  BY DEF Inv, TypeOK
<1>7. row'.owner \in {row.owner, NoPass, p}
  BY DEF Keeps
<1>8. Advances
  BY Idling
<1> QED BY <1>2, <1>3, <1>4, <1>5, <1>6, <1>7, <1>8, PassInv

(* A pass ends.                                                            *)
LEMMA QuitInv ==
    ASSUME Inv, NEW p \in Pass,
           UNCHANGED <<base, pr, att, rec>>,
           row' \in Row, row'.owner \in {row.owner, NoPass},
           faults' \in 0..MaxFaults, outside' \in 0..MaxOutside,
           Quit(p)
    PROVE  Inv'
<1>1. Idle \in Job /\ Idle.pc = "idle" /\ Idle.entry = 1 /\ Idle.plan = 0
  BY LandingAssumption DEF Idle, Job, Entry, Steps
<1>2. Sound(Idle)
  BY <1>1 DEF Sound
<1>3. att' \in [Entry -> Seq(Attempt)] /\ rec' \in Record
  BY DEF Inv, TypeOK
<1>4. job' = [job EXCEPT ![p] = Idle]
  BY DEF Quit
<1> QED BY <1>1, <1>2, <1>3, <1>4, Idling, PassInv

-----------------------------------------------------------------------------
(* The lease.                                                              *)

LEMMA AcquireInv ==
    ASSUME Inv, NEW p \in Pass, Acquire(p)
    PROVE  Inv'
<1> DEFINE step == ResumeAt(row.phase)
<1>1. step \in {"resume", "resume_retire", "finish", "select"}
  BY DEF ResumeAt
<1>2. row' \in Row /\ row'.owner = p
  BY DEF Acquire, Inv, TypeOK, Row, Phases
<1>3. faults' \in 0..MaxFaults /\ outside' \in 0..MaxOutside
  BY DEF Acquire, Inv, TypeOK
<1>4. Goto(p, step) /\ UNCHANGED <<base, pr, att, rec>>
  BY DEF Acquire
<1> HIDE DEF step
<1>5. step \in Steps /\ Follows(p, step) /\ Keeps(p, step)
  BY <1>1, <1>2 DEF Steps, Follows, Keeps
<1> QED BY <1>2, <1>3, <1>4, <1>5, GotoInv

(* A checkpoint keeps the owner or ends the pass.                          *)
LEMMA CheckpointInv ==
    ASSUME Inv, NEW p \in Pass, NEW at \in Steps, NEW phase \in Phases, NEW next \in Steps,
           Checkpoint(p, at, phase, next),
           Follows(p, next)
    PROVE  Inv'
<1>0. UNCHANGED <<base, pr, att, rec>> /\ faults' \in 0..MaxFaults
      /\ outside' \in 0..MaxOutside /\ row \in Row
  BY DEF Checkpoint, Inv, TypeOK
<1>1. CASE row' = [row EXCEPT !.phase = phase] /\ Goto(p, next)
  <2>1. row' \in Row /\ Keeps(p, next)
    BY <1>0, <1>1 DEF Row, Keeps
  <2> QED BY <1>0, <1>1, <2>1, GotoInv
<1>2. CASE row' = row /\ Quit(p)
  BY <1>0, <1>2, QuitInv
<1> QED BY <1>1, <1>2 DEF Checkpoint

(* The checkpoints of the landing and of the retirement.                   *)
LEMMA CheckpointsInv ==
    ASSUME Inv, NEW p \in Pass,
           \/ Begin(p) \/ Admit(p) \/ ProviderCheckpoint(p) \/ Progress(p)
           \/ Hold(p) \/ Retire(p) \/ FinishRetired(p) \/ Finish(p)
    PROVE  Inv'
<1>0. /\ row.phase \in Phases
      /\ {"merge_batch_entries", "admit_pull_request", "merge_pull_request",
          "landing_entry_merged", "cleanup_candidate_ref"} \subseteq Phases
      /\ {"begin", "base", "admit", "evaluate", "provider", "put", "progress", "write",
          "hold", "renounce", "finish", "cleanup"} \subseteq Steps
  BY DEF Inv, TypeOK, Row, Phases, Steps
<1>1. CASE Begin(p)
  <2>1. Follows(p, "base")
    BY DEF Follows
  <2> QED BY <1>0, <1>1, <2>1, CheckpointInv DEF Begin
<1>2. CASE Admit(p)
  <2>1. Follows(p, "evaluate")
    BY <1>2 DEF Admit, Checkpoint, Follows
  <2> QED BY <1>0, <1>2, <2>1, CheckpointInv DEF Admit
<1>3. CASE ProviderCheckpoint(p)
  <2>1. Follows(p, "put")
    BY <1>3 DEF ProviderCheckpoint, Checkpoint, Follows
  <2> QED BY <1>0, <1>3, <2>1, CheckpointInv DEF ProviderCheckpoint
<1>4. CASE Progress(p)
  <2>1. Follows(p, "write")
    BY <1>4 DEF Progress, Checkpoint, Follows
  <2> QED BY <1>0, <1>4, <2>1, CheckpointInv DEF Progress
<1>5. CASE Hold(p)
  <2>1. Follows(p, "renounce")
    BY DEF Follows
  <2> QED BY <1>0, <1>5, <2>1, CheckpointInv DEF Hold
<1>6. CASE Retire(p)
  <2>1. /\ Follows(p, "write_retired")
        /\ {"retire", "write_retired"} \subseteq Steps
        /\ "retire_stale_policy_landing" \in Phases
    BY DEF Follows, Steps, Phases
  <2> QED BY <1>6, <2>1, CheckpointInv DEF Retire
<1>7. CASE FinishRetired(p)
  <2>1. Follows(p, "cleanup") /\ {"finish_retired", "cleanup"} \subseteq Steps
    BY DEF Follows, Steps
  <2> QED BY <1>0, <1>7, <2>1, CheckpointInv DEF FinishRetired
<1>8. CASE Finish(p)
  <2>1. Follows(p, "cleanup")
    BY DEF Follows
  <2> QED BY <1>0, <1>8, <2>1, CheckpointInv DEF Finish
<1> QED BY <1>1, <1>2, <1>3, <1>4, <1>5, <1>6, <1>7, <1>8

LEMMA EndInv ==
    ASSUME Inv, NEW p \in Pass, Release(p) \/ Fail(p)
    PROVE  Inv'
<1>1. row \in Row
  BY DEF Inv, TypeOK
<1>2. row' \in Row /\ row'.owner \in {row.owner, NoPass}
  <2>1. CASE Release(p)
    <3> DEFINE r == [status |-> "idle", owner |-> NoPass, live |-> FALSE, phase |-> "none"]
    <3>1. r \in Row /\ r.owner = NoPass
      BY DEF Row, Phases
    <3>2. row' = row \/ row' = r
      BY <2>1 DEF Release
    <3> HIDE DEF r
    <3> QED BY <1>1, <3>1, <3>2
  <2>2. CASE Fail(p)
    <3> DEFINE r == [row EXCEPT !.status = "reconcile_required", !.owner = NoPass,
                                !.live = FALSE]
    <3>1. r \in Row /\ r.owner = NoPass
      BY <1>1 DEF Row
    <3>2. row' = row \/ row' = r
      BY <2>2 DEF Fail
    <3> QED BY <1>1, <3>1, <3>2
  <2> QED BY <2>1, <2>2
<1>3. UNCHANGED <<base, pr, att, rec>> /\ faults' \in 0..MaxFaults
      /\ outside' \in 0..MaxOutside /\ Quit(p)
  BY DEF Release, Fail, Inv, TypeOK
<1> QED BY <1>2, <1>3, QuitInv

LEMMA CrashInv ==
    ASSUME Inv, NEW p \in Pass, Crash(p)
    PROVE  Inv'
<1>1. UNCHANGED <<base, pr, att, rec>> /\ row' \in Row /\ row'.owner \in {row.owner, NoPass}
      /\ outside' \in 0..MaxOutside /\ Quit(p)
  BY DEF Crash, Inv, TypeOK
<1>2. faults' \in 0..MaxFaults
  BY LandingAssumption DEF Crash, Inv, TypeOK
<1> QED BY <1>1, <1>2, QuitInv

-----------------------------------------------------------------------------
(* The steps of a pass that only read.                                     *)

(* Where the reading steps lead.                                           *)
LEMMA ReadInv ==
    ASSUME Inv, NEW p \in Pass,
           \/ Resume(p) \/ ReadBase(p) \/ CheckOpen(p) \/ Evaluate(p) \/ Answered(p)
           \/ Verify(p) \/ Cleanup(p)
    PROVE  Inv'
<1>1. PICK step \in Steps : Goto(p, step) /\ Follows(p, step)
  <2>1. CASE Resume(p)
    BY <2>1 DEF Resume, Steps, Follows
  <2>2. CASE ReadBase(p)
    BY <2>2 DEF ReadBase, Steps, Follows
  <2>3. CASE CheckOpen(p)
    BY <2>3 DEF CheckOpen, Steps, Follows
  <2>4. CASE Evaluate(p)
    <3> DEFINE step == CASE Unresolved(Mine(p)) -> "fail"
                 [] ~ LineageHolds(Mine(p)) -> IF Mine(p) = 1 /\ job[p].plan = 0 THEN "verify"
                                                                          ELSE "release"
                 [] ~ Holds(p) -> "release"
                 [] OTHER -> "persist"
    <3>1. step \in {"fail", "verify", "release", "persist"}
      OBVIOUS
    <3>2. Goto(p, step) /\ job[p].pc = "evaluate"
      BY <2>4 DEF Evaluate
    <3> HIDE DEF step
    <3> QED BY <3>1, <3>2 DEF Steps, Follows
  <2>5. CASE Answered(p)
    BY <2>5 DEF Answered, Steps, Follows
  <2>6. CASE Verify(p)
    BY <2>6 DEF Verify, Steps, Follows
  <2>7. CASE Cleanup(p)
    BY <2>7 DEF Cleanup, Steps, Follows
  <2> QED BY <2>1, <2>2, <2>3, <2>4, <2>5, <2>6, <2>7
<1>2. UNCHANGED <<base, pr, att, rec, row, faults, outside>>
  BY DEF Resume, ReadBase, CheckOpen, Evaluate, Answered, Verify, Cleanup
<1>3. row' \in Row /\ Keeps(p, step) /\ faults' \in 0..MaxFaults
      /\ outside' \in 0..MaxOutside
  BY <1>2 DEF Inv, TypeOK, Keeps
<1> QED BY <1>1, <1>2, <1>3, GotoInv

LEMMA NotReadyInv ==
    ASSUME Inv, NEW p \in Pass, NotReady(p) \/ CleanupFails(p)
    PROVE  Inv'
<1>1. PICK step \in Steps : Goto(p, step) /\ Follows(p, step)
  BY DEF NotReady, CleanupFails, Steps, Follows
<1>2. UNCHANGED <<base, pr, att, rec, row>>
  BY DEF NotReady, CleanupFails
<1>3. row' \in Row /\ Keeps(p, step)
  BY <1>2 DEF Inv, TypeOK, Keeps
<1>4. faults' \in 0..MaxFaults /\ outside' \in 0..MaxOutside
  BY LandingAssumption DEF NotReady, CleanupFails, Inv, TypeOK
<1> QED BY <1>1, <1>2, <1>3, <1>4, GotoInv

(* The steps that read the landing record; the plan they take is in place. *)
LEMMA SelectInv ==
    ASSUME Inv, NEW p \in Pass, Select(p) \/ ResumeRetire(p)
    PROVE  Inv'
<1>1. job[p] \in Job /\ Sound(job[p]) /\ rec \in Record
  BY DEF Inv, TypeOK
<1>2. UNCHANGED <<base, pr, att, rec, row, faults, outside>>
  BY DEF Select, ResumeRetire
<1>3. /\ att' \in [Entry -> Seq(Attempt)] /\ rec' \in Record /\ row' \in Row
      /\ faults' \in 0..MaxFaults /\ outside' \in 0..MaxOutside
  BY <1>2 DEF Inv, TypeOK
<1>4. row'.owner \in {row.owner, NoPass, p} /\ Advances
  BY <1>2, Idling
<1>5. PICK j \in Job : /\ job' = [job EXCEPT ![p] = j]
                       /\ j.pc \in {"release", "begin", "verify", "finish_retired", "fail"}
                       /\ j.entry = job[p].entry
                       /\ j.plan \in {job[p].plan, rec.landed}
  <2>1. CASE Select(p)
    <3> DEFINE step == IF Completed THEN "release" ELSE "begin"
               v == [job[p] EXCEPT !.pc = step, !.plan = rec.landed]
    <3>1. step \in {"release", "begin"}
      OBVIOUS
    <3>2. job' = [job EXCEPT ![p] = v]
      BY <2>1 DEF Select
    <3> HIDE DEF step
    <3>3. v \in Job /\ v.pc = step /\ v.entry = job[p].entry /\ v.plan = rec.landed
      BY <1>1, <3>1 DEF Job, Record, Steps
    <3> QED BY <3>1, <3>2, <3>3
  <2>2. CASE ResumeRetire(p)
    <3> DEFINE step == CASE ~ Completed -> "verify"
                         [] rec.over = "retired" -> "finish_retired"
                         [] OTHER -> "fail"
               v == [job[p] EXCEPT !.pc = step, !.again = TRUE]
    <3>1. step \in {"verify", "finish_retired", "fail"}
      OBVIOUS
    <3>0. job' = [job EXCEPT ![p].pc = step, ![p].again = TRUE]
      BY <2>2 DEF ResumeRetire
    <3> HIDE DEF step
    <3>2. job' = [job EXCEPT ![p] = v]
      BY <3>0
    <3>3. v \in Job /\ v.pc = step /\ v.entry = job[p].entry /\ v.plan = job[p].plan
      BY <1>1, <3>1 DEF Job, Steps
    <3> QED BY <3>1, <3>2, <3>3
  <2> QED BY <2>1, <2>2
<1>6. Sound(j)
  BY <1>1, <1>5 DEF Sound, Inv, LandedIsTested
<1>7. j.pc \notin {"admit", "evaluate", "persist"}
  BY <1>5
<1> QED BY <1>2, <1>3, <1>4, <1>5, <1>6, <1>7, PassInv

-----------------------------------------------------------------------------
(* Outcomes.                                                               *)

(* An outcome is written once, and "landed" only for an entry in place.    *)
LEMMA OutcomeAdvances ==
    ASSUME Inv, NEW i \in Entry, NEW k \in 1..Len(att[i]),
           NEW status \in {"reconcile_required", "rejected", "landed"},
           status = "landed" => Placed(i),
           att' = Outcome(i, k, status)
    PROVE  att' \in [Entry -> Seq(Attempt)] /\ Advances
<1>1. att \in [Entry -> Seq(Attempt)]
  BY DEF Inv, TypeOK
<1>2. att[i][k] \in Attempt
  BY <1>1, AttemptFacts
<1> DEFINE out == IF att[i][k].outcome \in {"rejected", "landed"} THEN att[i][k].outcome
                                                               ELSE status
           e == [att[i][k] EXCEPT !.outcome = out]
<1>3. att' = [att EXCEPT ![i] = [att[i] EXCEPT ![k] = e]]
  BY DEF Outcome
<1>4. /\ out \in {"none", "reconcile_required", "rejected", "landed"}
      /\ \/ out = att[i][k].outcome
         \/ /\ att[i][k].outcome \in {"none", "reconcile_required"}
            /\ out = "landed" => Placed(i)
  BY <1>2 DEF Attempt
<1> HIDE DEF out
<1>5. e \in Attempt /\ e.outcome = out /\ e.call = att[i][k].call
  BY <1>2, <1>4 DEF Attempt
<1> HIDE DEF e
<1>6. /\ att' \in [Entry -> Seq(Attempt)]
      /\ \A j \in Entry : Len(att'[j]) = Len(att[j]) /\ DOMAIN att'[j] = DOMAIN att[j]
      /\ \A j \in Entry : \A n \in DOMAIN att[j] :
             att'[j][n] = IF j = i /\ n = k THEN e ELSE att[j][n]
  BY <1>1, <1>3, <1>5, Replaced
<1>7. \A j \in Entry : \A n \in DOMAIN att[j] :
         /\ \/ att'[j][n].outcome = att[j][n].outcome
            \/ /\ att[j][n].outcome \in {"none", "reconcile_required"}
               /\ att'[j][n].outcome = "landed" => Placed(j)
         /\ att'[j][n].call = att[j][n].call
  BY <1>4, <1>5, <1>6
<1> QED BY <1>6, <1>7 DEF Advances

(* The step of a pass that writes an outcome or sends the request.         *)
LEMMA OutcomeInv ==
    ASSUME Inv, NEW p \in Pass, NEW step \in Steps,
           UNCHANGED <<base, pr, rec, row, outside>>, faults' \in 0..MaxFaults,
           att' \in [Entry -> Seq(Attempt)], Advances,
           Goto(p, step),
           step \notin {"provider", "put", "commit", "write", "evaluate", "persist"},
           step = "progress" => Placed(job[p].entry),
           step = "wait" => job[p].pc = "put",
           step = "admit" => Latest(job[p].entry)' \in {"no_admission", "rejected"}
    PROVE  Inv'
<1>1. job[p] \in Job /\ Sound(job[p])
  BY DEF Inv, TypeOK
<1>2. PICK j \in Job : j = [job[p] EXCEPT !.pc = step]
  BY <1>1 DEF Job
<1>3. j.pc = step /\ j.entry = job[p].entry /\ j.plan = job[p].plan /\ j.turn = job[p].turn
  BY <1>1, <1>2 DEF Job
<1>4. job' = [job EXCEPT ![p] = j]
  BY <1>2 DEF Goto
<1>5. Sound(j)
  BY <1>1, <1>3 DEF Sound
<1>6. /\ rec' \in Record /\ row' \in Row /\ outside' \in 0..MaxOutside
      /\ row'.owner \in {row.owner, NoPass, p}
  BY DEF Inv, TypeOK
<1>7. j.pc \in {"admit", "evaluate", "persist"} => Resolved(j.entry)'
  <2>1. job'[p].entry = j.entry
    BY <1>4 DEF Inv, TypeOK
  <2> QED BY <1>3, <2>1 DEF Resolved
<1> QED BY <1>3, <1>4, <1>5, <1>6, <1>7, PassInv

(* An entry found merged, and the answers to the request.                  *)
LEMMA AnswerInv ==
    ASSUME Inv, NEW p \in Pass, FindMerged(p) \/ Refused(p) \/ TimesOut(p) \/ CheckCommit(p)
    PROVE  Inv'
<1> DEFINE i == job[p].entry
           k == job[p].turn
<1>1. job[p] \in Job /\ Sound(job[p]) /\ i \in Entry /\ att \in [Entry -> Seq(Attempt)]
  BY DEF Inv, TypeOK, Job
<1>2. UNCHANGED <<base, pr, rec, row, outside>>
  BY DEF FindMerged, Refused, TimesOut, CheckCommit
<1>3. faults' \in 0..MaxFaults
  BY LandingAssumption DEF FindMerged, Refused, TimesOut, CheckCommit, Inv, TypeOK
<1>4. job[p].pc \in {"wait", "commit"} => k \in 1..Len(att[i])
  BY <1>1 DEF Sound
<1>5. CASE FindMerged(p)
  <2>1. CASE att' = att /\ (Goto(p, "stale") \/ Goto(p, "fail"))
    <3>1. Advances
      BY <2>1, Idling
    <3> QED BY <1>1, <1>2, <1>3, <2>1, <3>1, OutcomeInv DEF Steps
  <2>2. CASE /\ AlreadyMerged(i) /\ Latest(i) # "no_admission"
             /\ att' = Outcome(i, Len(att[i]), "landed") /\ Goto(p, "progress")
    <3>1. Placed(i) /\ att[i] # <<>>
      BY <2>2 DEF AlreadyMerged, Latest
    <3>2. Len(att[i]) \in 1..Len(att[i])
      BY <1>1, <3>1, AttemptFacts
    <3>3. att' \in [Entry -> Seq(Attempt)] /\ Advances
      BY <1>1, <2>2, <3>1, <3>2, OutcomeAdvances
    <3> QED BY <1>2, <1>3, <2>2, <3>1, <3>3, OutcomeInv DEF Steps
  <2> QED BY <1>5, <2>1, <2>2 DEF FindMerged, Mine
<1>6. CASE Refused(p)
  <2>1. att' = Outcome(i, k, "rejected") /\ Goto(p, "fail") /\ k \in 1..Len(att[i])
    BY <1>4, <1>6 DEF Refused, Mine
  <2>2. att' \in [Entry -> Seq(Attempt)] /\ Advances
    BY <1>1, <2>1, OutcomeAdvances
  <2> QED BY <1>2, <1>3, <2>1, <2>2, OutcomeInv DEF Steps
<1>7. CASE TimesOut(p)
  <2>1. att' = Outcome(i, k, "reconcile_required") /\ Goto(p, "fail") /\ k \in 1..Len(att[i])
    BY <1>4, <1>7 DEF TimesOut, Mine
  <2>2. att' \in [Entry -> Seq(Attempt)] /\ Advances
    BY <1>1, <2>1, OutcomeAdvances
  <2> QED BY <1>2, <1>3, <2>1, <2>2, OutcomeInv DEF Steps
<1>8. CASE CheckCommit(p)
  <2> DEFINE status == IF Placed(i) THEN "landed" ELSE "reconcile_required"
             step == CASE att[i][k].outcome \in {"rejected", "landed"} -> "fail"
                       [] Placed(i) -> "progress"
                       [] OTHER -> "stale"
  <2>1. att' = Outcome(i, k, status) /\ Goto(p, step) /\ k \in 1..Len(att[i])
    BY <1>4, <1>8 DEF CheckCommit, Mine
  <2>2. /\ status \in {"landed", "reconcile_required"} /\ (status = "landed" => Placed(i))
        /\ step \in {"fail", "progress", "stale"} /\ (step = "progress" => Placed(i))
    OBVIOUS
  <2> HIDE DEF status, step
  <2>3. att' \in [Entry -> Seq(Attempt)] /\ Advances
    BY <1>1, <2>1, <2>2, OutcomeAdvances
  <2>4. /\ step \in Steps
        /\ step \notin {"provider", "put", "commit", "write", "evaluate", "persist"}
        /\ step # "wait" /\ step # "admit"
    BY <2>2 DEF Steps
  <2> QED BY <1>2, <1>3, <2>1, <2>2, <2>3, <2>4, OutcomeInv
<1> QED BY <1>5, <1>6, <1>7, <1>8

(* The request leaves behind entries that are in place.                    *)
LEMMA PutInv ==
    ASSUME Inv, NEW p \in Pass, Put(p)
    PROVE  Inv'
<1> DEFINE i == job[p].entry
           k == job[p].turn
           e == [att[i][k] EXCEPT !.call = "sent"]
<1>1. job[p] \in Job /\ Sound(job[p]) /\ i \in Entry /\ att \in [Entry -> Seq(Attempt)]
      /\ job[p].pc = "put"
  BY DEF Inv, TypeOK, Job, Put
<1>2. k \in 1..Len(att[i]) /\ \A j \in 1..(i - 1) : Placed(j)
  BY <1>1 DEF Sound
<1>3. att[i][k] \in Attempt
  BY <1>1, <1>2, AttemptFacts
<1>4. e \in Attempt /\ e.outcome = att[i][k].outcome
  BY <1>3 DEF Attempt
<1>5. att' = [att EXCEPT ![i] = [att[i] EXCEPT ![k] = e]]
  BY DEF Put, Mine
<1> HIDE DEF e
<1>6. /\ att' \in [Entry -> Seq(Attempt)]
      /\ \A j \in Entry : Len(att'[j]) = Len(att[j]) /\ DOMAIN att'[j] = DOMAIN att[j]
      /\ \A j \in Entry : \A n \in DOMAIN att[j] :
             att'[j][n] = IF j = i /\ n = k THEN e ELSE att[j][n]
  BY <1>1, <1>2, <1>4, <1>5, Replaced
<1>7. Advances
  <2>1. \A j \in Entry : \A n \in DOMAIN att[j] :
            att'[j][n].outcome = att[j][n].outcome /\ (att'[j][n].call = att[j][n].call \/ j = i)
    BY <1>4, <1>6
  <2> QED BY <1>2, <1>6, <2>1 DEF Advances
<1>8. UNCHANGED <<base, pr, rec, row, outside>> /\ faults' \in 0..MaxFaults /\ Goto(p, "wait")
  BY DEF Put, Inv, TypeOK
<1> QED BY <1>1, <1>6, <1>7, <1>8, OutcomeInv DEF Steps

(* The reconciliation of what had no effect rejects what is unresolved.    *)
LEMMA NoEffectAdvances ==
    ASSUME Inv, NEW S \in SUBSET Entry, att' = NoEffect(S)
    PROVE  /\ att' \in [Entry -> Seq(Attempt)]
           /\ Advances
           /\ \A i \in S : Latest(i) # "landed" => Latest(i)' \in {"no_admission", "rejected"}
<1>1. att \in [Entry -> Seq(Attempt)]
  BY DEF Inv, TypeOK
<1>2. ASSUME NEW i \in Entry
      PROVE  /\ att'[i] \in Seq(Attempt)
             /\ Len(att'[i]) = Len(att[i]) /\ DOMAIN att'[i] = DOMAIN att[i]
             /\ \A k \in DOMAIN att[i] :
                  /\ \/ att'[i][k].outcome = att[i][k].outcome
                     \/ /\ att[i][k].outcome \in {"none", "reconcile_required"}
                        /\ att'[i][k].outcome = "rejected"
                  /\ att'[i][k].call = att[i][k].call
             /\ i \in S /\ Latest(i) # "landed" => Latest(i)' \in {"no_admission", "rejected"}
  <2>1. CASE i \in S /\ Unresolved(i)
    <3> DEFINE n == Len(att[i])
               e == [att[i][n] EXCEPT !.outcome = "rejected"]
    <3>1. att[i] # <<>> /\ att[i][n].outcome \in {"none", "reconcile_required"}
      BY <2>1 DEF Unresolved, Latest
    <3>2. n \in 1..Len(att[i]) /\ DOMAIN att[i] = 1..Len(att[i]) /\ att[i] \in Seq(Attempt)
          /\ att[i][n] \in Attempt
      BY <1>1, <3>1, AttemptFacts
    <3>3. att'[i] = Outcome(i, n, "rejected")[i]
      BY <2>1 DEF NoEffect
    <3>4. Outcome(i, n, "rejected")[i] = [att[i] EXCEPT ![n] = e]
      BY <1>1, <3>1 DEF Outcome
    <3>5. e \in Attempt /\ e.outcome = "rejected" /\ e.call = att[i][n].call
      BY <3>2 DEF Attempt
    <3> HIDE DEF e
    <3>6. /\ att'[i] \in Seq(Attempt) /\ Len(att'[i]) = n
          /\ \A k \in 1..n : att'[i][k] = IF k = n THEN e ELSE att[i][k]
      BY <3>2, <3>3, <3>4, <3>5, ExceptSeq
    <3>7. DOMAIN att'[i] = DOMAIN att[i]
      BY <3>3, <3>4
    <3>8. Latest(i)' = "rejected"
      <4>1. att'[i][Len(att'[i])].outcome = "rejected"
        BY <3>2, <3>5, <3>6
      <4>2. att'[i] # <<>>
        BY <3>2, <3>6
      <4> QED BY <4>1, <4>2 DEF Latest
    <3> QED BY <3>1, <3>2, <3>5, <3>6, <3>7, <3>8
  <2>2. CASE ~ (i \in S /\ Unresolved(i))
    <3>1. att'[i] = att[i]
      BY <2>2 DEF NoEffect
    <3>2. Latest(i)' = Latest(i)
      BY <3>1 DEF Latest
    <3>3. Latest(i) \in {"no_admission", "none", "reconcile_required", "rejected", "landed"}
      <4>1. CASE att[i] = <<>>
        BY <4>1 DEF Latest
      <4>2. CASE att[i] # <<>>
        <5>1. att[i][Len(att[i])] \in Attempt
          BY <1>1, <4>2, AttemptFacts
        <5> QED BY <4>2, <5>1 DEF Latest, Attempt
      <4> QED BY <4>1, <4>2
    <3> QED BY <1>1, <2>2, <3>1, <3>2, <3>3 DEF Unresolved
  <2> QED BY <2>1, <2>2
<1>3. att' \in [Entry -> Seq(Attempt)]
  <2>1. DOMAIN att' = Entry /\ att' = [i \in Entry |-> att'[i]]
    BY DEF NoEffect
  <2> QED BY <1>2, <2>1
<1>4. Advances
  BY <1>2 DEF Advances
<1> QED BY <1>2, <1>3, <1>4

LEMMA NoEffectInv ==
    ASSUME Inv, NEW p \in Pass, ReconcileNoEffect(p) \/ Renounce(p)
    PROVE  Inv'
<1>1. job[p] \in Job /\ job[p].entry \in Entry
  BY DEF Inv, TypeOK, Job
<1>2. UNCHANGED <<base, pr, rec, row, outside>> /\ faults' \in 0..MaxFaults
  BY DEF ReconcileNoEffect, Renounce, Inv, TypeOK
<1>3. CASE ReconcileNoEffect(p)
  <2>1. att' = NoEffect({job[p].entry}) /\ {job[p].entry} \in SUBSET Entry
    BY <1>1, <1>3 DEF ReconcileNoEffect, Mine
  <2>2. att' \in [Entry -> Seq(Attempt)] /\ Advances
    BY <2>1, NoEffectAdvances
  <2>3. CASE Latest(job[p].entry) = "landed"
    <3>1. Goto(p, "fail")
      BY <1>3, <2>3 DEF ReconcileNoEffect, Mine
    <3> QED BY <1>2, <2>2, <3>1, OutcomeInv DEF Steps
  <2>4. CASE Latest(job[p].entry) # "landed"
    <3>1. Goto(p, "admit")
      BY <1>3, <2>4 DEF ReconcileNoEffect, Mine
    <3>2. PICK i \in Entry : i = job[p].entry
      BY <1>1
    <3>3. Latest(i)' \in {"no_admission", "rejected"}
      BY <2>1, <2>4, <3>2, NoEffectAdvances
    <3>4. job'[p].entry = i
      BY <1>1, <3>1, <3>2 DEF Goto, Inv, TypeOK
    <3>5. Latest(job[p].entry)' \in {"no_admission", "rejected"}
      BY <3>3, <3>4
    <3> QED BY <1>2, <2>2, <3>1, <3>5, OutcomeInv DEF Steps
  <2> QED BY <2>3, <2>4
<1>4. CASE Renounce(p)
  <2>1. att' \in [Entry -> Seq(Attempt)] /\ Advances
    BY <1>4, NoEffectAdvances DEF Renounce
  <2>2. Goto(p, "fail") \/ Goto(p, "retire")
    BY <1>4 DEF Renounce
  <2> QED BY <1>2, <2>1, <2>2, OutcomeInv DEF Steps
<1> QED BY <1>3, <1>4

(* Only the owner of the lease adds an admission, after it has resolved    *)
(* the one before.                                                         *)
LEMMA PersistInv ==
    ASSUME Inv, NEW p \in Pass, Persist(p)
    PROVE  Inv'
<1>0. job[p] \in Job /\ Sound(job[p]) /\ att \in [Entry -> Seq(Attempt)] /\ job[p].pc = "persist"
      /\ job \in [Pass -> Job]
  BY DEF Inv, TypeOK, Persist
<1>1. CASE ~ Fenced(p)
  <2>1. Goto(p, "release") /\ UNCHANGED <<base, pr, att, rec, row, faults, outside>>
    BY <1>1 DEF Persist
  <2>2. /\ row' \in Row /\ Keeps(p, "release") /\ Follows(p, "release")
        /\ faults' \in 0..MaxFaults /\ outside' \in 0..MaxOutside /\ "release" \in Steps
    BY <2>1 DEF Inv, TypeOK, Keeps, Follows, Steps
  <2> QED BY <2>1, <2>2, GotoInv
<1>2. CASE Fenced(p)
  <2>1. PICK i \in Entry : i = job[p].entry
    BY <1>0 DEF Job
  <2> DEFINE e == [outcome |-> "none", call |-> "none"]
  <2>2. /\ att' = [att EXCEPT ![i] = Append(att[i], e)]
        /\ job' = [job EXCEPT ![p].pc = "provider", ![p].turn = Len(att[i]) + 1]
        /\ UNCHANGED <<base, pr, rec, row, faults, outside>>
    BY <1>2, <2>1 DEF Persist, Mine
  <2>3. /\ att[i] \in Seq(Attempt) /\ Len(att[i]) \in Nat /\ DOMAIN att[i] = 1..Len(att[i])
        /\ \A k \in 1..Len(att[i]) : att[i][k] \in Attempt
        /\ att[i] # <<>> => Len(att[i]) \in 1..Len(att[i])
        /\ Len(att[i]) # 0 => att[i] # <<>>
    BY <1>0, AttemptFacts
  <2>4. e \in Attempt /\ e.outcome = "none" /\ e.call = "none"
    BY DEF Attempt
  <2> HIDE DEF e
  <2>5. /\ Append(att[i], e) \in Seq(Attempt) /\ Len(Append(att[i], e)) = Len(att[i]) + 1
        /\ \A k \in 1..Len(att[i]) : Append(att[i], e)[k] = att[i][k]
        /\ Append(att[i], e)[Len(att[i]) + 1] = e
        /\ DOMAIN Append(att[i], e) = 1..(Len(att[i]) + 1)
    BY <2>3, <2>4, AppendProperties, LenProperties
  <2>6. /\ att' \in [Entry -> Seq(Attempt)]
        /\ \A j \in Entry \ {i} : att'[j] = att[j]
        /\ Len(att'[i]) = Len(att[i]) + 1 /\ DOMAIN att'[i] = 1..(Len(att[i]) + 1)
        /\ \A k \in 1..Len(att[i]) : att'[i][k] = att[i][k]
        /\ att'[i][Len(att[i]) + 1] = e
    BY <1>0, <2>2, <2>5
  <2>7. /\ job'[p] \in Job /\ job'[p].pc = "provider" /\ job'[p].entry = i
        /\ job'[p].plan = job[p].plan /\ job'[p].turn = Len(att[i]) + 1
        /\ \A q \in Pass \ {p} : job'[q] = job[q]
        /\ job' \in [Pass -> Job]
    <3>0. PICK n \in Nat : n = Len(att[i]) + 1
      BY <2>3
    <3> DEFINE v == [job[p] EXCEPT !.pc = "provider", !.turn = n]
    <3>1. v \in Job /\ v.pc = "provider" /\ v.entry = i /\ v.plan = job[p].plan /\ v.turn = n
      BY <1>0, <2>1 DEF Job, Steps
    <3>2. job' = [job EXCEPT ![p] = v]
      BY <2>2, <3>0
    <3> HIDE DEF v
    <3> QED BY <1>0, <3>0, <3>1, <3>2
  <2>8. TypeOK'
    BY <2>2, <2>6, <2>7 DEF Inv, TypeOK
  <2>9. \A j \in Nat : Placed(j)' <=> Placed(j)
    BY <2>2 DEF Placed
  <2>10. Entry \subseteq Nat /\ N \in Nat
    BY LandingAssumption DEF Entry
  <2>11. LandedIsTested'
    BY <2>2 DEF Inv, LandedIsTested, Placed
  <2>12. LandedOutcomeIsReal'
    <3> SUFFICES ASSUME NEW j \in Entry, NEW k \in DOMAIN att'[j], att'[j][k].outcome = "landed"
                 PROVE  Placed(j)
      BY <2>9, <2>10 DEF LandedOutcomeIsReal
    <3>1. k \in DOMAIN att[j] /\ att[j][k].outcome = "landed"
      <4>1. CASE j # i
        BY <2>6, <4>1
      <4>2. CASE j = i
        <5>1. k \in 1..(Len(att[i]) + 1)
          BY <2>6, <4>2
        <5>2. k # Len(att[i]) + 1
          BY <2>4, <2>6, <4>2
        <5>3. k \in 1..Len(att[i])
          BY <2>3, <5>1, <5>2
        <5> QED BY <2>3, <2>6, <4>2, <5>3
      <4> QED BY <4>1, <4>2
    <3> QED BY <3>1 DEF Inv, LandedOutcomeIsReal
  <2>13. OneOpenAttempt'
    <3> SUFFICES ASSUME NEW j \in Entry, NEW k \in DOMAIN att'[j], k < Len(att'[j])
                 PROVE  att'[j][k].outcome = "rejected"
      BY DEF OneOpenAttempt
    <3>1. CASE j # i
      BY <2>6, <3>1 DEF Inv, OneOpenAttempt
    <3>2. CASE j = i /\ k < Len(att[i])
      BY <2>3, <2>6, <3>2 DEF Inv, OneOpenAttempt
    <3>3. CASE j = i /\ k = Len(att[i])
      <4>1. k \in 1..Len(att[i]) /\ att[i] # <<>> /\ att[i][k] \in Attempt
        BY <2>3, <2>6, <3>3
      <4>2. Quiet(p) /\ row.owner = p
        BY <1>2 DEF Inv, Fenced
      <4>3. Latest(i) \in {"no_admission", "rejected"}
        BY <1>0, <2>1, <4>2 DEF Quiet, Resolved
      <4>4. att[i][k].outcome = "rejected"
        BY <3>3, <4>1, <4>3 DEF Latest, Attempt
      <4> QED BY <2>6, <3>3, <4>1, <4>4
    <3>4. j = i => k <= Len(att[i])
      BY <2>3, <2>6
    <3>5. j = i => k \in Nat
      BY <2>3, <2>6
    <3> QED BY <2>3, <3>1, <3>2, <3>3, <3>4, <3>5
  <2>14. MergedInOrder'
    <3> SUFFICES ASSUME NEW j \in Entry, NEW k \in DOMAIN att'[j], att'[j][k].call # "none",
                        NEW n \in 1..(j - 1)
                 PROVE  Placed(n)
      BY <2>9, <2>10 DEF MergedInOrder
    <3>1. k \in DOMAIN att[j] /\ att[j][k].call # "none"
      <4>1. CASE j # i
        BY <2>6, <4>1
      <4>2. CASE j = i
        <5>1. k \in 1..(Len(att[i]) + 1) /\ k # Len(att[i]) + 1
          BY <2>4, <2>6, <4>2
        <5>2. k \in 1..Len(att[i])
          BY <2>3, <5>1
        <5> QED BY <2>3, <2>6, <4>2, <5>2
      <4> QED BY <4>1, <4>2
    <3> QED BY <3>1 DEF Inv, MergedInOrder
  <2>15. ASSUME NEW q \in Pass PROVE Sound(job[q])' /\ Quiet(q)'
    <3>1. CASE q = p
      <4>1. (\A j \in 1..(i - 1) : Placed(j)') /\ (\A j \in 1..job[p].plan : Placed(j)')
        BY <1>0, <2>1, <2>2 DEF Sound, Placed
      <4>2. job'[p].turn \in 1..Len(att'[i])
        BY <2>3, <2>6, <2>7
      <4> QED BY <2>7, <3>1, <4>1, <4>2 DEF Sound, Quiet
    <3>2. CASE q # p
      <4>1. job'[q] = job[q] /\ Sound(job[q]) /\ job[q] \in Job /\ job[q].entry \in Entry
        BY <1>0, <2>7, <3>2 DEF Inv, Job
      <4>2. row'.owner = p
        BY <1>2, <2>2 DEF Fenced
      <4>3. Quiet(q)'
        BY <3>2, <4>2 DEF Quiet
      <4>4. PICK m \in Entry : m = job[q].entry
        BY <4>1
      <4>5. \A k \in 1..Len(att[m]) : k \in 1..Len(att'[m])
        <5>1. CASE m = i
          BY <2>3, <2>6, <5>1
        <5>2. CASE m # i
          BY <2>6, <5>2
        <5> QED BY <5>1, <5>2
      <4>6. \A j \in 1..(m - 1) : Placed(j)'
        BY <2>2, <4>1, <4>4 DEF Sound, Placed
      <4>7. \A j \in 1..job[q].plan : Placed(j)'
        BY <2>2, <4>1 DEF Sound, Placed
      <4>8. job[q].pc \in {"progress", "write"} => Placed(m)'
        BY <2>2, <4>1, <4>4 DEF Sound, Placed
      <4>9. job[q].pc \in {"provider", "put", "wait", "commit"} => job[q].turn \in 1..Len(att'[m])
        BY <4>1, <4>4, <4>5 DEF Sound
      <4> QED BY <4>1, <4>3, <4>4, <4>6, <4>7, <4>8, <4>9 DEF Sound
    <3> QED BY <3>1, <3>2
  <2> QED BY <2>8, <2>11, <2>12, <2>13, <2>14, <2>15 DEF Inv
<1> QED BY <1>1, <1>2

-----------------------------------------------------------------------------
(* The landing record.                                                     *)

(* A record that is backed by the base is written or the old one stays.    *)
LEMMA PreferredFacts ==
    ASSUME NEW r \in Record, rec \in Record
    PROVE  Preferred(r) \in {r, rec} /\ Preferred(r) \in Record
BY DEF Preferred

LEMMA WriteInv ==
    ASSUME Inv, NEW p \in Pass, WriteProgress(p) \/ WriteStale(p) \/ WriteRetired(p)
    PROVE  Inv'
<1>1. job[p] \in Job /\ Sound(job[p]) /\ rec \in Record /\ N \in Nat \ {0}
  BY LandingAssumption DEF Inv, TypeOK
<1>2. job[p].entry \in 1..N /\ job[p].plan \in 0..N
  BY <1>1 DEF Job, Entry
<1>3. UNCHANGED <<base, pr, att, row, faults, outside>>
  BY DEF WriteProgress, WriteStale, WriteRetired
<1>4. /\ att' \in [Entry -> Seq(Attempt)] /\ row' \in Row
      /\ faults' \in 0..MaxFaults /\ outside' \in 0..MaxOutside
  BY <1>3 DEF Inv, TypeOK
<1>5. row'.owner \in {row.owner, NoPass, p} /\ Advances
  BY <1>3, Idling
<1>6. CASE WriteProgress(p)
  <2>0. job[p].pc = "write"
    BY <1>6 DEF WriteProgress
  <2>1. PICK k \in 0..N : k = Farther(job[p].entry, job[p].plan) /\ \A i \in 1..k : Placed(i)
    <3>1. \A i \in 1..job[p].entry : Placed(i)
      BY <1>1, <1>2, <2>0 DEF Sound
    <3>2. \A i \in 1..job[p].plan : Placed(i)
      BY <1>1 DEF Sound
    <3> QED BY <1>1, <1>2, <3>1, <3>2 DEF Farther
  <2>2. rec' \in Record /\ (rec' = rec \/ \A i \in 1..rec'.landed : Placed(i))
    <3> DEFINE r == [landed |-> k, over |-> "no"]
    <3>1. r \in Record /\ r.landed = k
      BY DEF Record
    <3>2. rec' = Preferred(r)
      BY <1>6, <2>1 DEF WriteProgress, Mine
    <3> HIDE DEF r
    <3> QED BY <1>1, <2>1, <3>1, <3>2, PreferredFacts
  <2>3. CASE job[p].entry = N
    <3>1. PICK j \in Job : j = [job[p] EXCEPT !.pc = "finish"]
      BY <1>1 DEF Job, Steps
    <3>2. job' = [job EXCEPT ![p] = j]
      BY <1>6, <2>3, <3>1 DEF WriteProgress, Mine
    <3>3. j.pc = "finish" /\ j.entry = job[p].entry /\ j.plan = job[p].plan
      BY <1>1, <3>1 DEF Job
    <3>4. Sound(j)
      BY <1>1, <3>3 DEF Sound
    <3>5. j.pc \notin {"admit", "evaluate", "persist"}
      BY <3>3
    <3> QED BY <1>3, <1>4, <1>5, <2>2, <3>2, <3>4, <3>5, PassInv
  <2>4. CASE job[p].entry # N
    <3>0. PICK n \in Entry : n = job[p].entry + 1
      BY <1>1, <1>2, <2>4 DEF Entry
    <3>1. PICK j \in Job : j = [job[p] EXCEPT !.pc = "base", !.entry = n]
      BY <1>1 DEF Job, Steps
    <3>2. job' = [job EXCEPT ![p] = j]
      BY <1>6, <2>4, <3>0, <3>1 DEF WriteProgress, Mine
    <3>3. j.pc = "base" /\ j.entry = n /\ j.plan = job[p].plan
      BY <1>1, <3>1 DEF Job
    <3>4. Sound(j)
      <4>1. Placed(job[p].entry)
        BY <1>1, <2>0 DEF Sound
      <4>2. \A i \in 1..(n - 1) : Placed(i)
        BY <1>1, <1>2, <3>0, <4>1 DEF Sound
      <4> QED BY <1>1, <3>3, <4>2 DEF Sound
    <3>5. j.pc \notin {"admit", "evaluate", "persist"}
      BY <3>3
    <3> QED BY <1>3, <1>4, <1>5, <2>2, <3>2, <3>4, <3>5, PassInv
  <2> QED BY <2>3, <2>4
<1>7. CASE WriteStale(p) \/ WriteRetired(p)
  <2>1. PICK r \in Record : rec' = Preferred(r) /\ \A i \in 1..r.landed : Placed(i)
    <3>1. CASE WriteStale(p)
      <4> DEFINE r == [landed |-> Farther(job[p].entry - 1, job[p].plan), over |-> "stale"]
      <4>1. r \in Record /\ \A i \in 1..r.landed : Placed(i)
        BY <1>1, <1>2 DEF Record, Farther, Sound
      <4> QED BY <3>1, <4>1 DEF WriteStale, Mine
    <3>2. CASE WriteRetired(p)
      <4>1. [landed |-> 0, over |-> "retired"] \in Record
        BY <1>1 DEF Record
      <4> QED BY <3>2, <4>1 DEF WriteRetired
    <3> QED BY <1>7, <3>1, <3>2
  <2>2. rec' \in Record /\ (rec' = rec \/ \A i \in 1..rec'.landed : Placed(i))
    BY <1>1, <2>1, PreferredFacts
  <2>3. PICK step \in {"release", "finish_retired"} : Goto(p, step)
    BY <1>7 DEF WriteStale, WriteRetired
  <2>4. PICK j \in Job : j = [job[p] EXCEPT !.pc = step]
    BY <1>1, <2>3 DEF Job, Steps
  <2>5. job' = [job EXCEPT ![p] = j]
    BY <2>3, <2>4 DEF Goto
  <2>6. j.pc = step /\ j.entry = job[p].entry /\ j.plan = job[p].plan
    BY <1>1, <2>4 DEF Job
  <2>7. Sound(j) /\ j.pc \notin {"admit", "evaluate", "persist"}
    BY <1>1, <2>3, <2>6 DEF Sound
  <2> QED BY <1>3, <1>4, <1>5, <2>2, <2>5, <2>7, PassInv
<1> QED BY <1>6, <1>7

-----------------------------------------------------------------------------
(* GitHub, people and time.                                                *)

(* A step around the passes: the base grows, requests are taken up, the    *)
(* lease may run out.                                                      *)
LEMMA AroundInv ==
    ASSUME Inv, NEW c \in Commit, base' = base \/ base' = Append(base, c),
           pr' \in [Entry -> PullRequest],
           att' \in [Entry -> Seq(Attempt)], Advances,
           UNCHANGED <<rec, job>>, row' \in Row, row'.owner = row.owner,
           faults' \in 0..MaxFaults, outside' \in 0..MaxOutside
    PROVE  Inv'
<1>1. base' \in Seq(Commit)
  <2>1. base \in Seq(Commit)
    BY DEF Inv, TypeOK
  <2>2. Append(base, c) \in Seq(Commit)
    BY <2>1, AppendProperties
  <2> QED BY <2>1, <2>2
<1>2. TypeOK'
  BY <1>1 DEF Inv, TypeOK
<1>3. \A q \in Pass : job'[q] = job[q] /\ (row'.owner = q => row.owner = q)
  OBVIOUS
<1> QED BY <1>2, <1>3, StepInv

(* A request is taken up or refused.                                       *)
LEMMA CallAdvances ==
    ASSUME Inv, NEW i \in Entry, NEW k \in DOMAIN att[i], att[i][k].call = "sent",
           NEW e \in Attempt, e.outcome = att[i][k].outcome,
           att' = [att EXCEPT ![i] = [att[i] EXCEPT ![k] = e]]
    PROVE  att' \in [Entry -> Seq(Attempt)] /\ Advances
<1>1. att \in [Entry -> Seq(Attempt)]
  BY DEF Inv, TypeOK
<1>2. k \in 1..Len(att[i]) /\ att[i][k] \in Attempt
  BY <1>1, AttemptFacts
<1>3. \A j \in 1..(i - 1) : Placed(j)
  BY DEF Inv, MergedInOrder
<1>6. /\ att' \in [Entry -> Seq(Attempt)]
      /\ \A j \in Entry : Len(att'[j]) = Len(att[j]) /\ DOMAIN att'[j] = DOMAIN att[j]
      /\ \A j \in Entry : \A n \in DOMAIN att[j] :
             att'[j][n] = IF j = i /\ n = k THEN e ELSE att[j][n]
  BY <1>1, <1>2, Replaced
<1>7. \A j \in Entry : \A n \in DOMAIN att[j] :
          att'[j][n].outcome = att[j][n].outcome /\ (att'[j][n].call = att[j][n].call \/ j = i)
  BY <1>6
<1> QED BY <1>3, <1>6, <1>7 DEF Advances

LEMMA GitHubInv ==
    ASSUME Inv, NEW i \in Entry, NEW k \in DOMAIN att[i], Handle(i, k) \/ Refuse(i, k)
    PROVE  Inv'
<1>1. /\ UNCHANGED <<rec, row, job, faults>> /\ row' \in Row /\ row'.owner = row.owner
      /\ faults' \in 0..MaxFaults /\ pr \in [Entry -> PullRequest] /\ att[i][k].call = "sent"
  BY DEF Handle, Refuse, Inv, TypeOK
<1>2. outside' \in 0..MaxOutside
  BY LandingAssumption DEF Handle, Refuse, Inv, TypeOK
<1>3. [pr |-> i, tested |-> pr[i].tested] \in Commit
  BY <1>1, LandingAssumption DEF Commit, PullRequest, Entry
<1>4. PICK call \in {"merged", "refused"} : att' = [att EXCEPT ![i][k].call = call]
  BY DEF Handle, Refuse
<1>5. att' \in [Entry -> Seq(Attempt)] /\ Advances
  <2>1. att[i][k] \in Attempt
    BY AttemptFacts DEF Inv, TypeOK
  <2>2. PICK e \in Attempt : e = [att[i][k] EXCEPT !.call = call]
    BY <2>1 DEF Attempt
  <2>3. e.outcome = att[i][k].outcome
    BY <2>1, <2>2 DEF Attempt
  <2>4. att' = [att EXCEPT ![i] = [att[i] EXCEPT ![k] = e]]
    BY <1>4, <2>2
  <2> QED BY <1>1, <2>3, <2>4, CallAdvances
<1>6. base' = base \/ base' = Append(base, [pr |-> i, tested |-> pr[i].tested])
  BY DEF Handle, Refuse, MergeAt
<1>7. pr' \in [Entry -> PullRequest]
  <2>1. [pr[i] EXCEPT !.state = "merged"] \in PullRequest
    BY <1>1 DEF PullRequest
  <2>2. pr' = pr \/ pr' = [pr EXCEPT ![i] = [pr[i] EXCEPT !.state = "merged"]]
    BY DEF Handle, Refuse, MergeAt
  <2> QED BY <1>1, <2>1, <2>2
<1> QED BY <1>1, <1>2, <1>3, <1>5, <1>6, <1>7, AroundInv

LEMMA OutsideInv ==
    ASSUME Inv, NEW i \in Entry,
           PushHead(i) \/ ClosePullRequest(i) \/ OutsideMerge(i) \/ OutsideCommit
    PROVE  Inv'
<1>1. /\ UNCHANGED <<att, rec, row, job, faults>> /\ row' \in Row /\ row'.owner = row.owner
      /\ faults' \in 0..MaxFaults /\ pr \in [Entry -> PullRequest]
      /\ att' \in [Entry -> Seq(Attempt)]
  BY DEF PushHead, ClosePullRequest, OutsideMerge, OutsideCommit, Inv, TypeOK
<1>2. outside' \in 0..MaxOutside
  BY LandingAssumption DEF PushHead, ClosePullRequest, OutsideMerge, OutsideCommit, Inv, TypeOK
<1>3. PICK c \in Commit : base' = base \/ base' = Append(base, c)
  <2>1. [pr |-> i, tested |-> pr[i].tested] \in Commit /\ [pr |-> 0, tested |-> FALSE] \in Commit
    BY <1>1, LandingAssumption DEF Commit, PullRequest, Entry
  <2> QED BY <2>1 DEF PushHead, ClosePullRequest, OutsideMerge, OutsideCommit, MergeAt
<1>4. pr' \in [Entry -> PullRequest]
  <2>1. PICK q \in PullRequest : pr' = pr \/ pr' = [pr EXCEPT ![i] = q]
    <3>1. /\ [pr[i] EXCEPT !.state = "merged"] \in PullRequest
          /\ [pr[i] EXCEPT !.state = "closed"] \in PullRequest
          /\ [pr[i] EXCEPT !.tested = FALSE] \in PullRequest
      BY <1>1 DEF PullRequest
    <3> QED BY <3>1 DEF PushHead, ClosePullRequest, OutsideMerge, OutsideCommit, MergeAt
  <2> QED BY <1>1, <2>1
<1> QED BY <1>1, <1>2, <1>3, <1>4, Idling, AroundInv

LEMMA TimeInv ==
    ASSUME Inv, Stall \/ Expire
    PROVE  Inv'
<1>1. UNCHANGED <<base, pr, att, rec, job, outside>> /\ row' = [row EXCEPT !.live = FALSE]
  BY DEF Stall, Expire
<1>2. row' \in Row /\ row'.owner = row.owner
  BY <1>1 DEF Inv, TypeOK, Row
<1>3. faults' \in 0..MaxFaults
  BY LandingAssumption DEF Stall, Expire, Inv, TypeOK
<1>4. pr' \in [Entry -> PullRequest] /\ att' \in [Entry -> Seq(Attempt)]
      /\ outside' \in 0..MaxOutside
  BY <1>1 DEF Inv, TypeOK
<1>5. [pr |-> 0, tested |-> FALSE] \in Commit
  BY LandingAssumption DEF Commit
<1> QED BY <1>1, <1>2, <1>3, <1>4, <1>5, Idling, AroundInv

-----------------------------------------------------------------------------
(* The theorems.                                                           *)

LEMMA InitInv ==
    ASSUME Init
    PROVE  Inv
<1>1. TypeOK
  BY LandingAssumption
     DEF Init, TypeOK, Entry, PullRequest, Attempt, Record, Row, Phases, Idle, Job, Steps
<1>2. \A i \in Entry : att[i] = <<>> /\ DOMAIN att[i] = {}
  BY DEF Init
<1>3. \A p \in Pass : job[p].pc = "idle" /\ job[p].entry = 1 /\ job[p].plan = 0
  BY DEF Init, Idle
<1>4. LandedIsTested
  BY DEF Init, LandedIsTested
<1>5. \A p \in Pass : Sound(job[p]) /\ Quiet(p)
  BY <1>3 DEF Sound, Quiet
<1> QED BY <1>1, <1>2, <1>4, <1>5 DEF Inv, LandedOutcomeIsReal, OneOpenAttempt, MergedInOrder

(* Every step of every pass, of GitHub and of the people around it keeps   *)
(* the invariant.                                                          *)
LEMMA NextInv ==
    ASSUME Inv, [Next]_vars
    PROVE  Inv'
<1>1. ASSUME NEW p \in Pass, PassStep(p) PROVE Inv'
  BY <1>1, EndInv, SelectInv, ReadInv, CheckpointsInv, AnswerInv, NoEffectInv, PersistInv,
     PutInv, WriteInv DEF PassStep
<1>2. ASSUME NEW p \in Pass,
             Acquire(p) \/ NotReady(p) \/ TimesOut(p) \/ CleanupFails(p) \/ Crash(p)
      PROVE  Inv'
  BY <1>2, AcquireInv, NotReadyInv, AnswerInv, CrashInv
<1>3. CASE GitHub \/ \E i \in Entry : \E k \in DOMAIN att[i] : Refuse(i, k)
  BY <1>3, GitHubInv DEF GitHub
<1>4. CASE OutsideCommit \/ \E i \in Entry : PushHead(i) \/ ClosePullRequest(i) \/ OutsideMerge(i)
  <2>1. 1 \in Entry
    BY LandingAssumption DEF Entry
  <2> QED BY <1>4, <2>1, OutsideInv
<1>5. CASE Stall \/ Expire
  BY <1>5, TimeInv
<1>6. CASE UNCHANGED vars
  BY <1>6 DEF vars, Inv, TypeOK, LandedIsTested, LandedOutcomeIsReal, OneOpenAttempt,
              MergedInOrder, Sound, Quiet, Resolved, Latest, Placed
<1> QED BY <1>1, <1>2, <1>3, <1>4, <1>5, <1>6 DEF Next

(* The invariant holds for every batch size, any number of passes under    *)
(* way together, of faults and of outside events.                          *)
THEOREM InvHolds == Spec => []Inv
<1>1. Init => Inv
  BY InitInv
<1>2. Inv /\ [Next]_vars => Inv'
  BY NextInv
<1> QED BY <1>1, <1>2, PTL DEF Spec

(* Every variable keeps its type (the records of the controller and of the *)
(* provider's answers).                                                    *)
THEOREM TypesHold == Spec => []TypeOK
<1>1. Inv => TypeOK
  BY DEF Inv
<1> QED BY <1>1, InvHolds, PTL

(* What a landing record calls merged is on the base branch as it was      *)
(* tested (land_batch_candidate).                                          *)
THEOREM RecordsAreTrue == Spec => []LandedIsTested
<1>1. Inv => LandedIsTested
  BY DEF Inv
<1> QED BY <1>1, InvHolds, PTL

(* An outcome "landed" was confirmed by Git, whoever wrote it              *)
(* (record_landed, reconcile_existing_landed).                             *)
THEOREM OutcomesAreTrue == Spec => []LandedOutcomeIsReal
<1>1. Inv => LandedOutcomeIsReal
  BY DEF Inv
<1> QED BY <1>1, InvHolds, PTL

(* An admission never has an unresolved one before it (build_proposal,     *)
(* create_guarded_merge_admission_record_if_absent).                       *)
THEOREM AttemptsAreExclusive == Spec => []OneOpenAttempt
<1>1. Inv => OneOpenAttempt
  BY DEF Inv
<1> QED BY <1>1, InvHolds, PTL

(* GitHub is asked to merge an entry only behind entries that are in place *)
(* (land_batch_candidate).                                                 *)
THEOREM RequestsAreOrdered == Spec => []MergedInOrder
<1>1. Inv => MergedInOrder
  BY DEF Inv
<1> QED BY <1>1, InvHolds, PTL
=============================================================================

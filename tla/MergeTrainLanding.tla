------------------------- MODULE MergeTrainLanding -------------------------
(***************************************************************************)
(* Landing of a tested merge-train batch: controller passes that hold a    *)
(* lease one after another, the admissions and outcomes they record, and   *)
(* GitHub, which answers late, early or not at all                         *)
(* (control_plane/merge_train_controller_run_once.py,                      *)
(* control_plane/merge_train_github.py, control_plane/merge_admission.py   *)
(* and the store methods they call).                                       *)
(*                                                                         *)
(* The batch is the pull requests 1..N in landing order.  The base branch  *)
(* is the sequence of commits made since the batch was tested, so commit i *)
(* has commit i - 1 as its first parent and the tested base is commit 0.   *)
(* The batch landed as it was tested when commit i merges pull request i   *)
(* at its tested head.                                                     *)
(***************************************************************************)
EXTENDS Naturals, Sequences

CONSTANTS
    N,             \* pull requests of the batch
    Pass,          \* controller passes that can be under way together
    MaxFaults,     \* bound on crashes, stalls, lost answers, failed cleanups
    MaxOutside,    \* bound on what people do to the repository
    NoPass         \* no lease owner

ASSUME LandingAssumption ==
    /\ N \in Nat \ {0}
    /\ MaxFaults \in Nat
    /\ MaxOutside \in Nat
    /\ NoPass \notin Pass

VARIABLES
    base,       \* commits on the base branch since the batch was tested
    pr,         \* the pull requests at GitHub
    att,        \* the merge admissions of each pull request, in sequence
    rec,        \* the landing record that the selection prefers
    row,        \* the controller state record
    job,        \* what each pass is doing
    faults,     \* faults so far
    outside     \* outside events so far

vars == <<base, pr, att, rec, row, job, faults, outside>>

Entry == 1..N

Commit == [pr : 0..N, tested : BOOLEAN]          \* pr = 0: not of the batch

PullRequest == [state : {"open", "closed", "merged"}, tested : BOOLEAN]

(* call is what became of the request at GitHub; the controller learns it  *)
(* only from an answer.                                                    *)
Attempt == [outcome : {"none", "reconcile_required", "rejected", "landed"},
            call    : {"none", "sent", "merged", "refused"}]

Record == [landed : 0..N, over : {"no", "stale", "retired"}]

Phases == {"none", "select_next_action", "merge_batch_entries", "admit_pull_request",
           "merge_pull_request", "landing_entry_merged", "retire_stale_policy_landing",
           "cleanup_candidate_ref"}

Row == [status : {"idle", "running", "reconcile_required"},
        owner  : Pass \cup {NoPass},
        live   : BOOLEAN,                        \* the lease has not expired
        phase  : Phases]

Steps == {"idle", "select", "resume", "resume_retire", "begin", "base", "merged", "open",
          "reconcile", "admit", "evaluate", "persist", "provider", "put", "wait", "commit",
          "progress", "write", "stale", "verify", "hold", "renounce", "retire",
          "write_retired", "finish_retired", "finish", "cleanup", "release", "fail"}

(* entry is the entry the pass is at, turn its admission there, plan the   *)
(* landed entries of the record it started from, again whether it          *)
(* continues a retirement.                                                 *)
Job == [pc : Steps, entry : Entry, turn : Nat, plan : 0..N, again : BOOLEAN]

Idle == [pc |-> "idle", entry |-> 1, turn |-> 0, plan |-> 0, again |-> FALSE]

Init ==
    /\ base = <<>>
    /\ pr = [i \in Entry |-> [state |-> "open", tested |-> TRUE]]
    /\ att = [i \in Entry |-> <<>>]
    /\ rec = [landed |-> 0, over |-> "no"]
    /\ row = [status |-> "idle", owner |-> NoPass, live |-> FALSE, phase |-> "none"]
    /\ job = [p \in Pass |-> Idle]
    /\ faults = 0
    /\ outside = 0

Mine(p) == job[p].entry

Goto(p, step) == job' = [job EXCEPT ![p].pc = step]

Quit(p) == job' = [job EXCEPT ![p] = Idle]

Open(i) == pr[i].state = "open" /\ pr[i].tested

(* The merge commit of i has the tested head and the recorded parent.      *)
Placed(i) == Len(base) >= i /\ base[i] = [pr |-> i, tested |-> TRUE]

-----------------------------------------------------------------------------
(* The records.                                                            *)

(* latest_merge_train_batch_landing_progress_record: entry rank, number of *)
(* merged entries, time.                                                   *)
Rank(r) == IF r.over # "no" THEN 3 ELSE IF r.landed > 0 THEN 2 ELSE 0

Preferred(r) ==
    IF \/ Rank(r) > Rank(rec)
       \/ Rank(r) = Rank(rec) /\ r.landed >= rec.landed
    THEN r ELSE rec

Completed == rec.over # "no" \/ rec.landed = N

(* The status of the latest outcome of the latest admission.               *)
Latest(i) == IF att[i] = <<>> THEN "no_admission" ELSE att[i][Len(att[i])].outcome

(* Mutant: an admission without an outcome is not looked at.               *)
UnresolvedWithOutcome(i) == Latest(i) = "reconcile_required"

Unresolved(i) == Latest(i) \in {"none", "reconcile_required"}

(* create_merge_landing_outcome_record_if_absent: a terminal outcome has   *)
(* no successor (the caller gets an error).                                *)
Outcome(i, k, status) ==
    [att EXCEPT ![i][k].outcome = IF @ \in {"rejected", "landed"} THEN @ ELSE status]

(* reconcile_existing_no_effect, for a pull request seen open.             *)
NoEffect(S) ==
    [i \in Entry |-> IF i \in S /\ Unresolved(i) THEN Outcome(i, Len(att[i]), "rejected")[i]
                                                 ELSE att[i]]

-----------------------------------------------------------------------------
(* The lease.                                                              *)

Holds(p) == row.status = "running" /\ row.owner = p /\ row.live

(* Where a pass continues an unfinished one.                               *)
ResumeAt(phase) ==
    CASE phase \in {"merge_batch_entries", "merge_pull_request", "landing_entry_merged"} -> "resume"
      [] phase = "retire_stale_policy_landing" -> "resume_retire"
      [] phase = "cleanup_candidate_ref" -> "finish"
      [] OTHER -> "select"

(* acquire_merge_train_controller_state_record.  Without a batch to land   *)
(* and without an unfinished phase the pass would begin another batch.     *)
Acquire(p) ==
    /\ job[p].pc = "idle"
    /\ ~ (row.status = "running" /\ row.live)
    /\ ~ Completed \/ row.phase # "none"
    /\ row' = [status |-> "running", owner |-> p, live |-> TRUE,
               phase |-> IF row.phase = "none" THEN "select_next_action" ELSE row.phase]
    /\ Goto(p, ResumeAt(row.phase))
    /\ UNCHANGED <<base, pr, att, rec, faults, outside>>

(* lease.checkpoint: a compare-and-set that also renews; whoever lost the  *)
(* lease stops without writing anything more.                              *)
Checkpoint(p, at, phase, next) ==
    /\ job[p].pc = at
    /\ \/ /\ Holds(p)
          /\ row' = [row EXCEPT !.phase = phase]
          /\ Goto(p, next)
       \/ /\ ~ Holds(p)
          /\ UNCHANGED row
          /\ Quit(p)
    /\ UNCHANGED <<base, pr, att, rec, faults, outside>>

(* release_merge_train_controller_lease after a result ...                 *)
Release(p) ==
    /\ job[p].pc = "release"
    /\ row' = IF Holds(p) THEN [status |-> "idle", owner |-> NoPass, live |-> FALSE,
                                phase |-> "none"]
                          ELSE row
    /\ Quit(p)
    /\ UNCHANGED <<base, pr, att, rec, faults, outside>>

(* Mutant: the reconciliation status written as the status of the row.     *)
FailOtherVocabulary(p) ==
    /\ job[p].pc = "fail"
    /\ row' = IF Holds(p) THEN [row EXCEPT !.status = "required", !.owner = NoPass,
                                           !.live = FALSE]
                          ELSE row
    /\ Quit(p)
    /\ UNCHANGED <<base, pr, att, rec, faults, outside>>

(* ... and after an exception, keeping the active phase.                   *)
Fail(p) ==
    /\ job[p].pc = "fail"
    /\ row' = IF Holds(p) THEN [row EXCEPT !.status = "reconcile_required",
                                           !.owner = NoPass, !.live = FALSE]
                          ELSE row
    /\ Quit(p)
    /\ UNCHANGED <<base, pr, att, rec, faults, outside>>

-----------------------------------------------------------------------------
(* The start of a pass.                                                    *)

Select(p) ==
    /\ job[p].pc = "select"
    /\ job' = [job EXCEPT ![p].pc = IF Completed THEN "release" ELSE "begin",
                          ![p].plan = rec.landed]
    /\ UNCHANGED <<base, pr, att, rec, row, faults, outside>>

(* _resume_merge_train_controller_state in a phase of the landing; the     *)
(* clean-up refuses a record that is not landed in full.                   *)
Resume(p) ==
    /\ job[p].pc = "resume"
    /\ Goto(p, CASE ~ Completed -> "select"
                 [] rec.over = "no" -> "finish"
                 [] OTHER -> "fail")
    /\ UNCHANGED <<base, pr, att, rec, row, faults, outside>>

ResumeRetire(p) ==
    /\ job[p].pc = "resume_retire"
    /\ job' = [job EXCEPT ![p].pc = CASE ~ Completed -> "verify"
                                      [] rec.over = "retired" -> "finish_retired"
                                      [] OTHER -> "fail",
                          ![p].again = TRUE]
    /\ UNCHANGED <<base, pr, att, rec, row, faults, outside>>

-----------------------------------------------------------------------------
(* land_batch_candidate, entry by entry.                                   *)

Begin(p) == Checkpoint(p, "begin", "merge_batch_entries", "base")

ReadBase(p) ==
    /\ job[p].pc = "base"
    /\ Goto(p, IF Mine(p) <= job[p].plan \/ Len(base) # Mine(p) - 1 THEN "merged" ELSE "open")
    /\ UNCHANGED <<base, pr, att, rec, row, faults, outside>>

(* Mutant: the parent of the merge commit is not compared.                 *)
AlreadyMergedAtHead(i) == pr[i].state = "merged" /\ pr[i].tested

(* Mutant: a base that moved is taken for the merge of the entry.          *)
AlreadyMergedByBase(i) == Len(base) >= i

(* _already_merged_landing_entry.                                          *)
AlreadyMerged(i) == pr[i].state = "merged" /\ Placed(i)

(* Mutant: only an attempt with an outcome is adopted.                     *)
FindMergedWithOutcome(p) ==
    LET i == Mine(p) IN
    /\ job[p].pc = "merged"
    /\ att' = IF AlreadyMerged(i) /\ Latest(i) = "reconcile_required"
              THEN Outcome(i, Len(att[i]), "landed") ELSE att
    /\ Goto(p, CASE ~ AlreadyMerged(i) -> "stale"
                 [] Latest(i) \in {"no_admission", "none", "rejected"} -> "fail"
                 [] OTHER -> "progress")
    /\ UNCHANGED <<base, pr, rec, row, faults, outside>>

(* An entry that is already merged, and reconcile_existing_landed.         *)
FindMerged(p) ==
    LET i == Mine(p) IN
    /\ job[p].pc = "merged"
    /\ \/ /\ ~ AlreadyMerged(i)
          /\ Goto(p, "stale")
          /\ UNCHANGED att
       \/ /\ AlreadyMerged(i)
          /\ Latest(i) \in {"no_admission", "rejected"}
          /\ Goto(p, "fail")
          /\ UNCHANGED att
       \/ /\ AlreadyMerged(i)
          /\ Latest(i) \notin {"no_admission", "rejected"}
          /\ att' = Outcome(i, Len(att[i]), "landed")
          /\ Goto(p, "progress")
    /\ UNCHANGED <<base, pr, rec, row, faults, outside>>

(* _validate_open_landing_pull_request.  A base that moved since it was    *)
(* read shows only if GitHub has refreshed the pull request.               *)
CheckOpen(p) ==
    LET i == Mine(p) IN
    /\ job[p].pc = "open"
    /\ \/ Open(i) /\ Goto(p, "reconcile")
       \/ ~ Open(i) /\ Goto(p, "stale")
       \/ Len(base) # i - 1 /\ Goto(p, "stale")
    /\ UNCHANGED <<base, pr, att, rec, row, faults, outside>>

(* No lease is checked here.                                               *)
ReconcileNoEffect(p) ==
    LET i == Mine(p) IN
    /\ job[p].pc = "reconcile"
    /\ att' = NoEffect({i})
    /\ Goto(p, IF Latest(i) = "landed" THEN "fail" ELSE "admit")
    /\ UNCHANGED <<base, pr, rec, row, faults, outside>>

Admit(p) == Checkpoint(p, "admit", "admit_pull_request", "evaluate")

(* The live queue still has the base and the heads of the rest of the plan.*)
LineageHolds(i) == Len(base) = i - 1 /\ \A j \in i..N : Open(j)

(* build_proposal.                                                         *)
Evaluate(p) ==
    LET i == Mine(p) IN
    /\ job[p].pc = "evaluate"
    /\ Goto(p, CASE Unresolved(i) -> "fail"
                 [] ~ LineageHolds(i) -> IF i = 1 /\ job[p].plan = 0 THEN "verify" ELSE "release"
                 [] ~ Holds(p) -> "release"
                 [] OTHER -> "persist")
    /\ UNCHANGED <<base, pr, att, rec, row, faults, outside>>

(* Checks, reviews or branch state are not ready: a block, not an error.   *)
NotReady(p) ==
    /\ job[p].pc \in {"open", "evaluate"}
    /\ outside < MaxOutside
    /\ outside' = outside + 1
    /\ Goto(p, "release")
    /\ UNCHANGED <<base, pr, att, rec, row, faults>>

(* Mutant: an admission is stored whoever holds the lease.                 *)
FencedNever(p) == TRUE

(* validate_merge_admission_controller_fence; the expiry is compared with  *)
(* the time of the evaluation.                                             *)
Fenced(p) == row.status = "running" /\ row.owner = p

Persist(p) ==
    LET i == Mine(p) IN
    /\ job[p].pc = "persist"
    /\ \/ /\ Fenced(p)
          /\ att' = [att EXCEPT ![i] = Append(@, [outcome |-> "none", call |-> "none"])]
          /\ job' = [job EXCEPT ![p].pc = "provider", ![p].turn = Len(att[i]) + 1]
       \/ /\ ~ Fenced(p)
          /\ Goto(p, "release")
          /\ UNCHANGED att
    /\ UNCHANGED <<base, pr, rec, row, faults, outside>>

ProviderCheckpoint(p) == Checkpoint(p, "provider", "merge_pull_request", "put")

(* The request leaves.                                                     *)
Put(p) ==
    /\ job[p].pc = "put"
    /\ att' = [att EXCEPT ![Mine(p)][job[p].turn].call = "sent"]
    /\ Goto(p, "wait")
    /\ UNCHANGED <<base, pr, rec, row, faults, outside>>

Call(p) == att[Mine(p)][job[p].turn].call

(* A refusal is conclusive.                                                *)
Refused(p) ==
    /\ job[p].pc = "wait"
    /\ Call(p) = "refused"
    /\ att' = Outcome(Mine(p), job[p].turn, "rejected")
    /\ Goto(p, "fail")
    /\ UNCHANGED <<base, pr, rec, row, faults, outside>>

(* No answer in time, or a 5xx, whatever became of the request.            *)
TimesOut(p) ==
    /\ job[p].pc = "wait"
    /\ faults < MaxFaults
    /\ faults' = faults + 1
    /\ att' = Outcome(Mine(p), job[p].turn, "reconcile_required")
    /\ Goto(p, "fail")
    /\ UNCHANGED <<base, pr, rec, row, outside>>

Answered(p) ==
    /\ job[p].pc = "wait"
    /\ Call(p) = "merged"
    /\ Goto(p, "commit")
    /\ UNCHANGED <<base, pr, att, rec, row, faults, outside>>

(* Mutant: the answer of the provider is believed.                         *)
CheckCommitTrusting(p) ==
    LET i == Mine(p)  k == job[p].turn IN
    /\ job[p].pc = "commit"
    /\ att' = Outcome(i, k, "landed")
    /\ Goto(p, IF att[i][k].outcome \in {"rejected", "landed"} THEN "fail" ELSE "progress")
    /\ UNCHANGED <<base, pr, rec, row, faults, outside>>

(* _validated_landing_commit_identity, then record_landed.                 *)
CheckCommit(p) ==
    LET i == Mine(p)  k == job[p].turn IN
    /\ job[p].pc = "commit"
    /\ att' = Outcome(i, k, IF Placed(i) THEN "landed" ELSE "reconcile_required")
    /\ Goto(p, CASE att[i][k].outcome \in {"rejected", "landed"} -> "fail"
                 [] Placed(i) -> "progress"
                 [] OTHER -> "stale")
    /\ UNCHANGED <<base, pr, rec, row, faults, outside>>

(* The entries a record calls merged: those behind the pass and those of   *)
(* the record it started from.                                             *)
Farther(i, j) == IF i > j THEN i ELSE j

Progress(p) == Checkpoint(p, "progress", "landing_entry_merged", "write")

(* The progress record, and after the last entry the landed record.        *)
WriteProgress(p) ==
    LET i == Mine(p) IN
    /\ job[p].pc = "write"
    /\ rec' = Preferred([landed |-> Farther(i, job[p].plan), over |-> "no"])
    /\ job' = [job EXCEPT ![p] = IF i = N THEN [@ EXCEPT !.pc = "finish"]
                                 ELSE [@ EXCEPT !.pc = "base", !.entry = i + 1]]
    /\ UNCHANGED <<base, pr, att, row, faults, outside>>

(* _retire_rejected_batch_landing.  No lease is checked here.              *)
WriteStale(p) ==
    /\ job[p].pc = "stale"
    /\ rec' = Preferred([landed |-> Farther(Mine(p) - 1, job[p].plan),
                         over |-> "stale"])
    /\ Goto(p, "release")
    /\ UNCHANGED <<base, pr, att, row, faults, outside>>

-----------------------------------------------------------------------------
(* _retire_changed_policy_landing after a lineage denial.                  *)

(* _verify_retirement_has_no_effect: every pull request open at its tested *)
(* head; an admission that is not rejected also wants the base unmoved.    *)
Unlanded ==
    /\ \A i \in Entry : Open(i)
    /\ base = <<>> \/ \A i \in Entry : Latest(i) \in {"no_admission", "rejected"}

Verify(p) ==
    /\ job[p].pc = "verify"
    /\ Goto(p, CASE ~ Unlanded -> "fail"
                 [] job[p].again -> "write_retired"
                 [] OTHER -> "hold")
    /\ UNCHANGED <<base, pr, att, rec, row, faults, outside>>

Hold(p) == Checkpoint(p, "hold", row.phase, "renounce")

Renounce(p) ==
    /\ job[p].pc = "renounce"
    /\ att' = NoEffect(Entry)
    /\ Goto(p, IF \E i \in Entry : Latest(i) = "landed" THEN "fail" ELSE "retire")
    /\ UNCHANGED <<base, pr, rec, row, faults, outside>>

Retire(p) == Checkpoint(p, "retire", "retire_stale_policy_landing", "write_retired")

WriteRetired(p) ==
    /\ job[p].pc = "write_retired"
    /\ rec' = Preferred([landed |-> 0, over |-> "retired"])
    /\ Goto(p, "finish_retired")
    /\ UNCHANGED <<base, pr, att, row, faults, outside>>

FinishRetired(p) == Checkpoint(p, "finish_retired", row.phase, "cleanup")

(* _finish_landed_merge_train_batch.                                       *)
Finish(p) == Checkpoint(p, "finish", "cleanup_candidate_ref", "cleanup")

Cleanup(p) ==
    /\ job[p].pc = "cleanup"
    /\ Goto(p, "release")
    /\ UNCHANGED <<base, pr, att, rec, row, faults, outside>>

CleanupFails(p) ==
    /\ job[p].pc = "cleanup"
    /\ faults < MaxFaults
    /\ faults' = faults + 1
    /\ Goto(p, "fail")
    /\ UNCHANGED <<base, pr, att, rec, row, outside>>

-----------------------------------------------------------------------------
(* GitHub, people and time.                                                *)

MergeAt(i) ==
    /\ pr' = [pr EXCEPT ![i].state = "merged"]
    /\ base' = Append(base, [pr |-> i, tested |-> pr[i].tested])

(* GitHub takes up a request, perhaps long after nobody waits for it.  It  *)
(* compares the head with the request and knows nothing of the base.       *)
Handle(i, k) ==
    /\ att[i][k].call = "sent"
    /\ \/ /\ Open(i)
          /\ MergeAt(i)
          /\ att' = [att EXCEPT ![i][k].call = "merged"]
       \/ /\ ~ Open(i)
          /\ att' = [att EXCEPT ![i][k].call = "refused"]
          /\ UNCHANGED <<base, pr>>
    /\ UNCHANGED <<rec, row, job, faults, outside>>

(* A branch rule refuses a pull request that is still as it was tested.    *)
Refuse(i, k) ==
    /\ att[i][k].call = "sent"
    /\ outside < MaxOutside
    /\ outside' = outside + 1
    /\ att' = [att EXCEPT ![i][k].call = "refused"]
    /\ UNCHANGED <<base, pr, rec, row, job, faults>>

PushHead(i) ==
    /\ outside < MaxOutside
    /\ Open(i)
    /\ outside' = outside + 1
    /\ pr' = [pr EXCEPT ![i].tested = FALSE]
    /\ UNCHANGED <<base, att, rec, row, job, faults>>

ClosePullRequest(i) ==
    /\ outside < MaxOutside
    /\ pr[i].state = "open"
    /\ outside' = outside + 1
    /\ pr' = [pr EXCEPT ![i].state = "closed"]
    /\ UNCHANGED <<base, att, rec, row, job, faults>>

OutsideMerge(i) ==
    /\ outside < MaxOutside
    /\ pr[i].state = "open"
    /\ outside' = outside + 1
    /\ MergeAt(i)
    /\ UNCHANGED <<att, rec, row, job, faults>>

OutsideCommit ==
    /\ outside < MaxOutside
    /\ outside' = outside + 1
    /\ base' = Append(base, [pr |-> 0, tested |-> FALSE])
    /\ UNCHANGED <<pr, att, rec, row, job, faults>>

(* A pass outlives its lease.                                              *)
Stall ==
    /\ row.status = "running" /\ row.live
    /\ job[row.owner].pc # "idle"
    /\ faults < MaxFaults
    /\ faults' = faults + 1
    /\ row' = [row EXCEPT !.live = FALSE]
    /\ UNCHANGED <<base, pr, att, rec, job, outside>>

(* The lease of a pass that is gone runs out.                              *)
Expire ==
    /\ row.status = "running" /\ row.live
    /\ job[row.owner].pc = "idle"
    /\ row' = [row EXCEPT !.live = FALSE]
    /\ UNCHANGED <<base, pr, att, rec, job, faults, outside>>

Crash(p) ==
    /\ job[p].pc # "idle"
    /\ faults < MaxFaults
    /\ faults' = faults + 1
    /\ Quit(p)
    /\ UNCHANGED <<base, pr, att, rec, row, outside>>

-----------------------------------------------------------------------------
PassStep(p) ==
    \/ Release(p) \/ Fail(p)
    \/ Select(p) \/ Resume(p) \/ ResumeRetire(p)
    \/ Begin(p) \/ ReadBase(p) \/ FindMerged(p) \/ CheckOpen(p) \/ ReconcileNoEffect(p)
    \/ Admit(p) \/ Evaluate(p) \/ Persist(p) \/ ProviderCheckpoint(p) \/ Put(p)
    \/ Refused(p) \/ Answered(p) \/ CheckCommit(p) \/ Progress(p) \/ WriteProgress(p)
    \/ WriteStale(p)
    \/ Verify(p) \/ Hold(p) \/ Renounce(p) \/ Retire(p) \/ WriteRetired(p)
    \/ FinishRetired(p) \/ Finish(p) \/ Cleanup(p)

GitHub == \E i \in Entry : \E k \in DOMAIN att[i] : Handle(i, k)

Next ==
    \/ \E p \in Pass : \/ Acquire(p) \/ PassStep(p)
                       \/ NotReady(p) \/ TimesOut(p) \/ CleanupFails(p) \/ Crash(p)
    \/ GitHub
    \/ \E i \in Entry : \E k \in DOMAIN att[i] : Refuse(i, k)
    \/ \E i \in Entry : PushHead(i) \/ ClosePullRequest(i) \/ OutsideMerge(i)
    \/ OutsideCommit \/ Stall \/ Expire

Spec == Init /\ [][Next]_vars

(* The service starts a pass again and again, a pass that runs goes on, a  *)
(* lease runs out, and GitHub takes up every request in the end.           *)
FairSpec ==
    /\ Spec
    /\ WF_vars(\E p \in Pass : Acquire(p))
    /\ \A p \in Pass : WF_vars(PassStep(p))
    /\ WF_vars(GitHub)
    /\ WF_vars(Expire)

-----------------------------------------------------------------------------
(* Type invariant.                                                         *)
TypeOK ==
    /\ base \in Seq(Commit)
    /\ pr \in [Entry -> PullRequest]
    /\ att \in [Entry -> Seq(Attempt)]
    /\ rec \in Record
    /\ row \in Row
    /\ job \in [Pass -> Job]
    /\ faults \in 0..MaxFaults
    /\ outside \in 0..MaxOutside

(* What a landing record calls merged is on the base branch exactly as it  *)
(* was tested: each entry at its tested head, directly on the one before,  *)
(* whatever moved between the reads and the merge and whoever merged it    *)
(* (land_batch_candidate, _validated_landing_commit_identity).             *)
LandedIsTested == \A i \in 1..rec.landed : Placed(i)

(* An outcome "landed" was confirmed by Git, also when it was written for  *)
(* a pass that died or by one whose lease had gone (reconcile_existing_    *)
(* landed, record_landed).                                                 *)
LandedOutcomeIsReal ==
    \A i \in Entry : \A k \in DOMAIN att[i] : att[i][k].outcome = "landed" => Placed(i)

(* A new admission is written only when the earlier ones are known to have *)
(* ended: an effect that is in doubt never has a rival (build_proposal,    *)
(* create_guarded_merge_admission_record_if_absent).                       *)
OneOpenAttempt ==
    \A i \in Entry : \A k \in DOMAIN att[i] : k < Len(att[i]) => att[i][k].outcome = "rejected"

(* GitHub is asked to merge an entry only when all entries before it are   *)
(* in place; a drifted batch is not continued (land_batch_candidate).      *)
MergedInOrder ==
    \A i \in Entry : \A k \in DOMAIN att[i] :
        att[i][k].call # "none" => \A j \in 1..(i - 1) : Placed(j)

(* What a pass knows: the entries behind it and those of its plan are in   *)
(* place, so is the one it is about to record, and its admission exists.   *)
Sound(j) ==
    /\ \A i \in 1..(j.entry - 1) : Placed(i)
    /\ \A i \in 1..j.plan : Placed(i)
    /\ j.pc \in {"progress", "write"} => Placed(j.entry)
    /\ j.pc \in {"provider", "put", "wait", "commit"} => j.turn \in 1..Len(att[j.entry])

Resolved(i) == Latest(i) \in {"no_admission", "rejected"}

(* The owner of the lease has resolved what it is about to try again.      *)
Quiet(p) ==
    row.owner = p /\ job[p].pc \in {"admit", "evaluate", "persist"} => Resolved(job[p].entry)

(* The inductive invariant: with or without the lease, a pass acts only on *)
(* what the base branch shows for good, and whoever owns the lease tries   *)
(* again only what it has resolved (land_batch_candidate, reconcile_       *)
(* existing_no_effect).                                                    *)
Inv ==
    /\ TypeOK
    /\ LandedIsTested
    /\ LandedOutcomeIsReal
    /\ OneOpenAttempt
    /\ MergedInOrder
    /\ \A p \in Pass : Sound(job[p])
    /\ \A p \in Pass : Quiet(p)

(* What only an operator can settle: a merge that the admissions do not    *)
(* explain, a later entry that can no longer be part of the plan, and a    *)
(* retirement that was interrupted before the repository moved.            *)
NeedsOperator ==
    \/ \E i \in Entry : Placed(i) /\ Latest(i) \in {"no_admission", "rejected"}
    \/ \E i \in Entry : i > rec.landed + 1 /\ ~ Open(i)
    \/ row.phase = "retire_stale_policy_landing" /\ ~ Unlanded

(* The batch ends: through crashes at any point, stalled passes, lost      *)
(* answers and a repository that moves, the passes land it in full or put  *)
(* it aside, unless an operator is needed (run_once).                      *)
LandingSettles == <>[](Completed \/ NeedsOperator)
=============================================================================

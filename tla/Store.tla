------------------------------- MODULE Store -------------------------------
(***************************************************************************)
(* internal/store: the SQLite file that is both the FIFO job queue and the *)
(* per-PR review budget.                                                   *)
(*                                                                         *)
(* Each statement the package runs is one transition of its three tables.  *)
(* A row of "jobs" is never deleted and ids are AUTOINCREMENT, so the      *)
(* table is a sequence and a job's id is its index.  An absent row of      *)
(* "pr_reviews" reads back as the zero value, so that table is a total     *)
(* function.  Timestamps, last_error and base_sha decide nothing and are   *)
(* left out.                                                               *)
(***************************************************************************)
EXTENDS Integers, Sequences, FiniteSets

CONSTANTS
  PRs,           \* pull requests: a value stands for provider:repo#number
  Heads,         \* head commits a delivery can carry
  NoSHA,         \* the empty SHA of an unreviewed PR
  Fingerprints   \* file+title fingerprints of findings

ASSUME StoreAssumption == NoSHA \notin Heads

VARIABLES
  jobs,            \* rows of table jobs, in id order
  prReviews,       \* rows of table pr_reviews
  postedComments   \* fingerprints recorded per PR

storeVars == <<jobs, prReviews, postedComments>>

----------------------------------------------------------------------------
(* Rows *)

Events == {"opened", "reopened", "synchronize"}
JobStates == {"queued", "running", "failed", "done", "dead"}

\* Slips: a crashed job, or a failed one, is never taken again.
RunnableForgetsRunning == {"queued", "failed"}
RunnableForgetsFailed == {"queued", "running"}

\* The states ClaimNext and PendingCount select.
Runnable == {"queued", "running", "failed"}

JobRow == [pr : PRs, head : Heads, event : Events,
           state : JobStates, attempts : Nat]

PRRow == [cycle : Nat, lastReviewedSHA : Heads \cup {NoSHA},
          summaryCommentID : Nat, summaryCycle : Nat,
          budgetNoticePosted : BOOLEAN]

\* Comment ids are counted from 1; 0 is the empty id.
ZeroPRState == [cycle |-> 0, lastReviewedSHA |-> NoSHA,
                summaryCommentID |-> 0, summaryCycle |-> 0,
                budgetNoticePosted |-> FALSE]

StoreTypeOK ==
  /\ jobs \in Seq(JobRow)
  /\ prReviews \in [PRs -> PRRow]
  /\ postedComments \in [PRs -> SUBSET Fingerprints]

StoreInit ==
  /\ jobs = <<>>
  /\ prReviews = [p \in PRs |-> ZeroPRState]
  /\ postedComments = [p \in PRs |-> {}]

----------------------------------------------------------------------------
(* The queue *)

\* Slip: the event is part of the key.
DeliveryIDOfEvent(j) == <<j.pr, j.head, j.event>>

\* The UNIQUE column delivery_id, as the webhook handler composes it.
DeliveryID(j) == <<j.pr, j.head, j.event = "reopened">>

Known(j) == \E k \in DOMAIN jobs : DeliveryID(jobs[k]) = DeliveryID(j)

\* INSERT OR IGNORE.
Enqueue(j) ==
  /\ jobs' = IF Known(j) THEN jobs
             ELSE Append(jobs, [pr |-> j.pr, head |-> j.head, event |-> j.event,
                                state |-> "queued", attempts |-> 0])
  /\ UNCHANGED <<prReviews, postedComments>>

\* SELECT ... WHERE state IN (...) ORDER BY id LIMIT 1.
Oldest(id) ==
  /\ id \in DOMAIN jobs
  /\ jobs[id].state \in Runnable
  /\ \A k \in 1..(id - 1) : jobs[k].state \notin Runnable

ClaimNext(id) ==
  /\ Oldest(id)
  /\ jobs' = [jobs EXCEPT ![id].state = "running", ![id].attempts = @ + 1]
  /\ UNCHANGED <<prReviews, postedComments>>

\* ErrNoJob.
NoJob == \A k \in DOMAIN jobs : jobs[k].state \notin Runnable

Finish(id, s) ==
  /\ jobs' = [jobs EXCEPT ![id].state = s]
  /\ UNCHANGED <<prReviews, postedComments>>

----------------------------------------------------------------------------
(* The review budget and the posted fingerprints *)

\* Upsert of the whole row.
SavePRState(p, s) ==
  /\ prReviews' = [prReviews EXCEPT ![p] = s]
  /\ UNCHANGED <<jobs, postedComments>>

\* Slip: the fingerprints of the old budget stay.
ResetPRReviewOnly(p) ==
  /\ prReviews' = [prReviews EXCEPT ![p] = ZeroPRState]
  /\ UNCHANGED <<jobs, postedComments>>

\* Both DELETEs in one transaction.
ResetPRState(p) ==
  /\ prReviews' = [prReviews EXCEPT ![p] = ZeroPRState]
  /\ postedComments' = [postedComments EXCEPT ![p] = {}]
  /\ UNCHANGED jobs

\* Slip: no dedup across passes.
AllFingerprints(p, fps) == fps

UnseenFingerprints(p, fps) == fps \ postedComments[p]

RecordFingerprint(p, fp) ==
  /\ postedComments' = [postedComments EXCEPT ![p] = @ \cup {fp}]
  /\ UNCHANGED <<jobs, prReviews>>
=============================================================================

---------------------------- MODULE StoreProofs ----------------------------
(***************************************************************************)
(* Facts about the statements of Store, for every table they can meet.     *)
(***************************************************************************)
EXTENDS Store, TLAPS

\* INSERT OR IGNORE adds one queued row at the end or nothing.
LEMMA EnqueueEffect ==
  ASSUME StoreTypeOK,
         NEW d \in [pr : PRs, head : Heads, event : Events],
         Enqueue(d)
  PROVE  /\ StoreTypeOK'
         /\ DOMAIN jobs \subseteq DOMAIN jobs'
         /\ \A k \in DOMAIN jobs : jobs'[k] = jobs[k]
         /\ \A k \in DOMAIN jobs' : k \notin DOMAIN jobs =>
              /\ k = Len(jobs) + 1
              /\ jobs'[k].state = "queued"
              /\ jobs'[k].attempts = 0
         /\ UNCHANGED <<prReviews, postedComments>>
<1> DEFINE row == [pr |-> d.pr, head |-> d.head, event |-> d.event,
                   state |-> "queued", attempts |-> 0]
<1>1. jobs \in Seq(JobRow)
  BY DEF StoreTypeOK
<1>2. row \in JobRow
  BY DEF JobRow, JobStates
<1>3. UNCHANGED <<prReviews, postedComments>>
  BY DEF Enqueue
<1>4. CASE Known(d)
  BY <1>3, <1>4 DEF Enqueue, StoreTypeOK
<1>5. CASE ~Known(d)
  <2>1. jobs' = Append(jobs, row)
    BY <1>5 DEF Enqueue
  <2>2. jobs' \in Seq(JobRow)
    BY <1>1, <1>2, <2>1
  <2>3. Len(jobs') = Len(jobs) + 1 /\ Len(jobs) \in Nat
    BY <1>1, <1>2, <2>1
  <2>4. \A k \in 1..Len(jobs) : jobs'[k] = jobs[k]
    BY <1>1, <1>2, <2>1
  <2>5. jobs'[Len(jobs) + 1] = row
    BY <1>1, <1>2, <2>1
  <2> QED
    BY <1>1, <1>3, <2>2, <2>3, <2>4, <2>5 DEF StoreTypeOK
<1> QED
  BY <1>4, <1>5
\* A claim starts the oldest runnable row and touches no other.
LEMMA ClaimEffect ==
  ASSUME StoreTypeOK,
         NEW id \in DOMAIN jobs,
         ClaimNext(id)
  PROVE  /\ StoreTypeOK'
         /\ DOMAIN jobs' = DOMAIN jobs
         /\ \A k \in DOMAIN jobs : k # id => jobs'[k] = jobs[k]
         /\ jobs'[id] = [jobs[id] EXCEPT !.state = "running",
                                         !.attempts = jobs[id].attempts + 1]
         /\ jobs[id].state \in Runnable
         /\ \A k \in 1..(id - 1) : jobs[k].state \notin Runnable
         /\ UNCHANGED <<prReviews, postedComments>>
<1> DEFINE row == [jobs[id] EXCEPT !.state = "running",
                                   !.attempts = jobs[id].attempts + 1]
<1>1. jobs \in Seq(JobRow)
  BY DEF StoreTypeOK
<1>2. jobs[id] \in JobRow
  BY <1>1
<1>3. row \in JobRow
  <2>1. jobs[id].attempts + 1 \in Nat
    BY <1>2 DEF JobRow
  <2> HIDE DEF row
  <2>2. \A n \in Nat : [jobs[id] EXCEPT !.state = "running", !.attempts = n] \in JobRow
    BY <1>2 DEF JobRow, JobStates
  <2> QED
    BY <2>1, <2>2 DEF row
<1>4. jobs' = [jobs EXCEPT ![id] = row]
  BY DEF ClaimNext
<1>5. jobs' \in Seq(JobRow) /\ DOMAIN jobs' = DOMAIN jobs
  BY <1>1, <1>3, <1>4
<1> QED
  BY <1>1, <1>4, <1>5 DEF StoreTypeOK, ClaimNext, Oldest

\* Finish changes the state of one row.
LEMMA FinishEffect ==
  ASSUME StoreTypeOK,
         NEW id \in DOMAIN jobs,
         NEW s \in JobStates,
         Finish(id, s)
  PROVE  /\ StoreTypeOK'
         /\ DOMAIN jobs' = DOMAIN jobs
         /\ \A k \in DOMAIN jobs : k # id => jobs'[k] = jobs[k]
         /\ jobs'[id] = [jobs[id] EXCEPT !.state = s]
         /\ UNCHANGED <<prReviews, postedComments>>
<1> DEFINE row == [jobs[id] EXCEPT !.state = s]
<1>1. jobs \in Seq(JobRow)
  BY DEF StoreTypeOK
<1>2. jobs[id] \in JobRow
  BY <1>1
<1>3. row \in JobRow
  BY <1>2 DEF JobRow, JobStates
<1>4. jobs' = [jobs EXCEPT ![id] = row]
  BY DEF Finish
<1>5. jobs' \in Seq(JobRow) /\ DOMAIN jobs' = DOMAIN jobs
  BY <1>1, <1>3, <1>4
<1> QED
  BY <1>1, <1>4, <1>5 DEF StoreTypeOK, Finish
=============================================================================

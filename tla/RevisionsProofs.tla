-------------------------- MODULE RevisionsProofs --------------------------
(***************************************************************************)
(* Theorems about Revisions, for every set of heads and of changes they    *)
(* add, every budget, and any number of pushes, retries and restarts.      *)
(***************************************************************************)
EXTENDS Revisions, StoreProofs, FiniteSetTheorems

----------------------------------------------------------------------------
(* Type correctness *)

\* The job an attempt works on is a row, and so is the budget it reads.
LEMMA RowTypes ==
  ASSUME TypeOK
  PROVE  /\ State \in PRRow
         /\ pc # "idle" => job \in DOMAIN jobs /\ HeadSHA \in Heads
<1>1. State \in PRRow
  BY RevisionsAssumption DEF TypeOK, StoreTypeOK, State
<1>2. ASSUME pc # "idle" PROVE job \in DOMAIN jobs /\ HeadSHA \in Heads
  <2>1. job \in DOMAIN jobs /\ jobs \in Seq(JobRow)
    BY <1>2 DEF TypeOK, StoreTypeOK
  <2>2. jobs[job] \in JobRow
    BY <2>1
  <2> QED
    BY <2>1, <2>2 DEF JobRow, HeadSHA
<1> QED
  BY <1>1, <1>2

\* What a recorded pass does to its row.
LEMMA RecordEffect ==
  ASSUME TypeOK, Record
  PROVE  /\ StoreTypeOK'
         /\ jobs' = jobs
         /\ State' = [State EXCEPT !.cycle = State.cycle + 1,
                                   !.lastReviewedSHA = HeadSHA]
         /\ State.cycle \in Nat /\ State'.cycle = State.cycle + 1
         /\ State'.lastReviewedSHA = HeadSHA
<1> DEFINE row == [State EXCEPT !.cycle = State.cycle + 1,
                                !.lastReviewedSHA = HeadSHA]
<1>1. State \in PRRow /\ HeadSHA \in Heads
  BY RowTypes DEF Record
<1>2. row \in PRRow
  <2>1. \A n \in Nat, h \in Heads :
          [State EXCEPT !.cycle = n, !.lastReviewedSHA = h] \in PRRow
    BY <1>1 DEF PRRow
  <2>2. State.cycle + 1 \in Nat
    BY <1>1 DEF PRRow
  <2> QED
    BY <1>1, <2>1, <2>2
<1>3. prReviews' = [prReviews EXCEPT ![MR] = row] /\ UNCHANGED <<jobs, postedComments>>
  BY DEF Record, SavePRState
<1>4. prReviews \in [PRs -> PRRow] /\ MR \in PRs
  BY RevisionsAssumption DEF TypeOK, StoreTypeOK
<1>5. State' = row
  BY <1>3, <1>4 DEF State
<1>6. StoreTypeOK'
  BY <1>2, <1>3, <1>4 DEF TypeOK, StoreTypeOK
<1>7. State.cycle \in Nat /\ row.cycle = State.cycle + 1 /\ row.lastReviewedSHA = HeadSHA
  BY <1>1 DEF PRRow
<1> QED
  BY <1>3, <1>5, <1>6, <1>7

LEMMA InitType == Init => TypeOK
<1> SUFFICES ASSUME Init PROVE TypeOK
  OBVIOUS
<1>1. ZeroPRState \in PRRow
  BY DEF ZeroPRState, PRRow
<1>2. StoreTypeOK
  BY <1>1 DEF Init, StoreInit, StoreTypeOK
<1>3. firstPushed \in [Heads -> 0..revision]
  BY DEF Init
<1>4. memo \in [head : Heads \cup {NoSHA}, revision : Nat] /\ anchors \in [Heads -> SUBSET Nat]
  BY DEF Init, NoMemo, NoAnchors
<1>5. revision \in 1..MaxPushes /\ todo \in 0..MaxFindings /\ crashes \in 0..MaxCrashes
  BY RevisionsAssumption DEF Init
<1> QED
  BY <1>2, <1>3, <1>4, <1>5 DEF Init, TypeOK, Labels

\* Every operation keeps the types.
LEMMA TypeStep == TypeOK /\ [Next]_vars => TypeOK'
<1> SUFFICES ASSUME TypeOK, [Next]_vars PROVE TypeOK'
  OBVIOUS
<1> USE DEF TypeOK, Labels
<1>1. ASSUME NEW h \in Heads, Push(h) PROVE TypeOK'
  <2>1. revision' = revision + 1 /\ revision' \in 1..MaxPushes
    BY <1>1, RevisionsAssumption DEF Push
  <2>2. firstPushed' \in [Heads -> 0..revision']
    BY <1>1, <2>1 DEF Push
  <2>3. forced' \in BOOLEAN
    BY <1>1 DEF Push
  <2> QED
    BY <1>1, <2>1, <2>2, <2>3 DEF Push, storeVars, StoreTypeOK, workerVars
<1>2. ASSUME NEW h \in Heads, Announce(h) PROVE TypeOK'
  <2>1. [pr |-> MR, head |-> h, event |-> "synchronize"]
          \in [pr : PRs, head : Heads, event : Events]
    BY RevisionsAssumption DEF Events
  <2>2. StoreTypeOK' /\ DOMAIN jobs \subseteq DOMAIN jobs'
    BY <1>2, <2>1, EnqueueEffect DEF Announce
  <2> QED
    BY <1>2, <2>2 DEF Announce, workerVars, historyVars
<1>3. CASE Claim
  <2>1. PICK id \in DOMAIN jobs : ClaimNext(id) /\ job' = id
    BY <1>3 DEF Claim
  <2>2. StoreTypeOK' /\ DOMAIN jobs' = DOMAIN jobs
    BY <2>1, ClaimEffect
  <2> QED
    BY <1>3, <2>1, <2>2 DEF Claim, branchVars, historyVars
<1>4. CASE Decide
  <2>1. pc' \in {"done", "full", "compare"}
    BY <1>4 DEF Decide, Goto, FirstPass
  <2> QED
    BY <1>4, <2>1 DEF Decide, Goto, storeVars, StoreTypeOK, branchVars, historyVars
<1>5. CASE ReadFull
  <2>1. Diff \subseteq Changes
    BY RevisionsAssumption DEF Diff
  <2>2. pc' \in {"done", "engine"} /\ raced' \in BOOLEAN
    BY <1>5 DEF ReadFull, Show
  <2> QED
    BY <1>5, <2>1, <2>2 DEF ReadFull, Show, storeVars, StoreTypeOK, branchVars
<1>6. CASE Compare
  <2>1. CompareDiff(State.lastReviewedSHA, HeadSHA) \subseteq Changes
    BY <1>6, RowTypes, RevisionsAssumption DEF Compare, CompareDiff
  <2>2. pc' \in {"done", "engine", "full"} /\ diff' \subseteq Changes
    BY <1>6, <2>1 DEF Compare, Show, Goto
  <2> QED
    BY <1>6, <2>2 DEF Compare, Show, Goto, storeVars, StoreTypeOK, branchVars, historyVars
<1>7. CASE Engine
  BY <1>7 DEF Engine, storeVars, StoreTypeOK, branchVars, historyVars
<1>8. CASE Comment
  <2>1. todo' \in 0..MaxFindings
    BY <1>8, RevisionsAssumption DEF Comment
  <2>2. Refs \in [head : Heads \cup {NoSHA}, revision : Nat]
    BY <1>8, RowTypes DEF Comment, Refs, MergeRequestRefs
  <2>3. memo' \in [head : Heads \cup {NoSHA}, revision : Nat]
    BY <1>8, <2>2 DEF Comment
  <2>4. anchors' \in [Heads -> SUBSET Nat]
    BY <1>8, <2>2 DEF Comment
  <2> QED
    BY <1>8, <2>1, <2>3, <2>4 DEF Comment, storeVars, StoreTypeOK, branchVars
<1>9. CASE Record
  <2>1. StoreTypeOK' /\ jobs' = jobs
    BY <1>9, RecordEffect
  <2>2. HeadSHA \in Heads
    BY <1>9, RowTypes DEF Record
  <2> QED
    BY <1>9, <2>1, <2>2 DEF Record, Goto, branchVars
<1>10. CASE End
  <2>1. StoreTypeOK'
    BY <1>10, FinishEffect DEF End, JobStates
  <2>2. pc' = "idle" /\ job' = 0 /\ diff' = {} /\ todo' = 0 /\ 0 \in 0..MaxFindings
    BY <1>10, RevisionsAssumption DEF End, Rest
  <2> QED
    BY <1>10, <2>1, <2>2 DEF End, branchVars, historyVars
<1>11. CASE Fail
  <2>1. StoreTypeOK'
    BY <1>11, FinishEffect DEF Fail, JobStates
  <2>2. pc' = "idle" /\ job' = 0 /\ diff' = {} /\ todo' = 0 /\ 0 \in 0..MaxFindings
    BY <1>11, RevisionsAssumption DEF Fail, Rest
  <2> QED
    BY <1>11, <2>1, <2>2 DEF Fail, branchVars, historyVars
<1>12. CASE Crash
  <2>1. memo' \in [head : Heads \cup {NoSHA}, revision : Nat] /\ anchors' \in [Heads -> SUBSET Nat]
    BY <1>12 DEF Crash, NoMemo, NoAnchors
  <2>2. todo' \in 0..MaxFindings /\ crashes' \in 0..MaxCrashes
    BY <1>12, RevisionsAssumption DEF Crash, Rest
  <2> QED
    BY <1>12, <2>1, <2>2 DEF Crash, Rest, storeVars, StoreTypeOK, branchVars
<1>13. CASE UNCHANGED vars
  BY <1>13 DEF vars, storeVars, StoreTypeOK, branchVars, workerVars, historyVars
<1> QED
  BY <1>1, <1>2, <1>3, <1>4, <1>5, <1>6, <1>7, <1>8, <1>9, <1>10, <1>11, <1>12,
     <1>13 DEF Next, Attempt

\* Whatever happens to the branch and the process, every variable keeps its
\* type, and a busy worker the row of its job.
THEOREM TypeCorrect == Spec => []TypeOK
  BY InitType, TypeStep, PTL DEF Spec

----------------------------------------------------------------------------
(* What was reviewed has been read *)

\* A webhook adds a queued row for the head it announces, or nothing.
LEMMA AnnounceEffect ==
  ASSUME TypeOK, NEW h \in Heads, Announce(h)
  PROVE  /\ \A k \in DOMAIN jobs : k \in DOMAIN jobs' /\ jobs'[k] = jobs[k]
         /\ \A k \in DOMAIN jobs' : k \notin DOMAIN jobs =>
              jobs'[k].head = h /\ jobs'[k].state = "queued"
         /\ UNCHANGED prReviews
<1> DEFINE d == [pr |-> MR, head |-> h, event |-> "synchronize"]
           row == [pr |-> MR, head |-> h, event |-> "synchronize",
                   state |-> "queued", attempts |-> 0]
<1>1. /\ jobs' = IF Known(d) THEN jobs ELSE Append(jobs, row)
      /\ UNCHANGED prReviews
  BY DEF Announce, Enqueue
<1>2. jobs \in Seq(JobRow) /\ row \in JobRow
  BY RevisionsAssumption DEF TypeOK, StoreTypeOK, JobRow, JobStates, Events
<1>3. CASE Known(d)
  BY <1>1, <1>3
<1>4. CASE ~Known(d)
  <2>1. jobs' = Append(jobs, row) /\ Len(jobs) \in Nat
    BY <1>1, <1>2, <1>4
  <2>2. DOMAIN jobs = 1..Len(jobs) /\ DOMAIN jobs' = 1..(Len(jobs) + 1)
    BY <1>2, <2>1
  <2>3. jobs'[Len(jobs) + 1] = row /\ \A k \in 1..Len(jobs) : jobs'[k] = jobs[k]
    BY <1>2, <2>1
  <2>4. row.head = h /\ row.state = "queued"
    OBVIOUS
  <2>5. \A k \in DOMAIN jobs' : k \notin DOMAIN jobs => k = Len(jobs) + 1
    BY <2>1, <2>2
  <2> HIDE DEF row
  <2> QED
    BY <1>1, <2>1, <2>2, <2>3, <2>4, <2>5
<1> QED
  BY <1>3, <1>4

\* The rows of the table and who may rely on them: steps that only change the
\* state of one row keep every head.
LEMMA FinishKeeps ==
  ASSUME TypeOK, pc # "idle", NEW s \in JobStates, Finish(job, s)
  PROVE  /\ DOMAIN jobs' = DOMAIN jobs
         /\ \A k \in DOMAIN jobs : jobs'[k].head = jobs[k].head
         /\ \A k \in DOMAIN jobs : k # job => jobs'[k].state = jobs[k].state
         /\ jobs'[job].state = s
         /\ State' = State
<1>1. StoreTypeOK /\ job \in DOMAIN jobs
  BY RowTypes DEF TypeOK
<1>2. /\ DOMAIN jobs' = DOMAIN jobs
      /\ \A k \in DOMAIN jobs : k # job => jobs'[k] = jobs[k]
      /\ jobs'[job] = [jobs[job] EXCEPT !.state = s]
      /\ UNCHANGED prReviews
  BY <1>1, FinishEffect
<1>3. jobs[job] \in JobRow
  BY <1>1 DEF StoreTypeOK
<1>4. jobs'[job].state = s /\ jobs'[job].head = jobs[job].head
  BY <1>2, <1>3 DEF JobRow
<1> QED
  BY <1>2, <1>4 DEF State

LEMMA ReadInit == Init => ReadInv
<1> SUFFICES ASSUME Init PROVE ReadInv
  OBVIOUS
<1>1. jobs = <<>> /\ undelivered = {tip} /\ pc = "idle"
  BY DEF Init, StoreInit
<1>2. State = ZeroPRState
  BY RevisionsAssumption DEF Init, StoreInit, State
<1>3. State.lastReviewedSHA = NoSHA
  BY <1>2 DEF ZeroPRState
<1>4. DOMAIN jobs = {}
  BY <1>1
<1> QED
  BY <1>1, <1>3, <1>4 DEF ReadInv, ReviewedMeansRead, DoneMeansRead, BranchGrows,
                          ShownInHand

\* Every step keeps the invariant.
LEMMA ReadStep == TypeOK /\ ReadInv /\ [Next]_vars => ReadInv'
<1> SUFFICES ASSUME TypeOK, ReadInv, [Next]_vars PROVE ReadInv'
  OBVIOUS
<1> USE DEF ReadInv, Strayed
<1>1. ASSUME NEW h \in Heads, Push(h) PROVE ReadInv'
  <2>1. /\ UNCHANGED <<jobs, prReviews, pc, job, diff, read, raced>>
        /\ forced' = (forced \/ ~(Commits[tip] \subseteq Commits[h]))
        /\ tip' = h /\ undelivered' = undelivered \cup {h}
    BY <1>1 DEF Push, storeVars, workerVars
  <2>2. BranchGrows'
    BY <2>1 DEF BranchGrows
  <2>3. Strayed => Strayed'
    BY <2>1
  <2> QED
    BY <2>1, <2>2, <2>3 DEF ReviewedMeansRead, DoneMeansRead, ShownInHand, State, HeadSHA
<1>2. ASSUME NEW h \in Heads, Announce(h) PROVE ReadInv'
  <2>1. /\ UNCHANGED <<tip, pc, job, diff, read, raced, forced>>
        /\ h \in undelivered /\ undelivered' \subseteq undelivered
    BY <1>2 DEF Announce, workerVars, historyVars
  <2>2. /\ \A k \in DOMAIN jobs : k \in DOMAIN jobs' /\ jobs'[k] = jobs[k]
        /\ \A k \in DOMAIN jobs' : k \notin DOMAIN jobs =>
             jobs'[k].head = h /\ jobs'[k].state = "queued"
        /\ State' = State
    BY <1>2, AnnounceEffect DEF State
  <2>3. ReviewedMeansRead' /\ (pc' = "compare" => State'.lastReviewedSHA # NoSHA)
    BY <2>1, <2>2 DEF ReviewedMeansRead
  <2>4. DoneMeansRead'
    BY <2>1, <2>2 DEF DoneMeansRead
  <2>5. BranchGrows'
    BY <2>1, <2>2 DEF BranchGrows
  <2>6. ShownInHand'
    BY <2>1, <2>2, RowTypes DEF ShownInHand, HeadSHA
  <2> QED
    BY <2>3, <2>4, <2>5, <2>6
<1>3. CASE Claim
  <2>1. PICK id \in DOMAIN jobs : ClaimNext(id)
    BY <1>3 DEF Claim
  <2>2. /\ DOMAIN jobs' = DOMAIN jobs /\ UNCHANGED prReviews
        /\ \A k \in DOMAIN jobs : k # id => jobs'[k] = jobs[k]
        /\ jobs'[id] = [jobs[id] EXCEPT !.state = "running",
                                        !.attempts = jobs[id].attempts + 1]
    BY <2>1, ClaimEffect DEF TypeOK
  <2>3. jobs[id] \in JobRow
    BY <2>1 DEF TypeOK, StoreTypeOK
  <2>4. /\ \A k \in DOMAIN jobs : jobs'[k].head = jobs[k].head
        /\ \A k \in DOMAIN jobs : jobs'[k].state = "done" => jobs[k].state = "done"
        /\ State' = State
    BY <2>2, <2>3 DEF JobRow, State
  <2>5. pc' = "decide" /\ UNCHANGED <<tip, undelivered, read, raced, forced>>
    BY <1>3 DEF Claim, branchVars, historyVars
  <2> QED
    BY <2>2, <2>4, <2>5 DEF ReviewedMeansRead, DoneMeansRead, BranchGrows, ShownInHand
<1>4. CASE Decide
  <2>1. /\ UNCHANGED <<jobs, tip, undelivered, job, diff, read, raced, forced>>
        /\ State' = State
    BY <1>4 DEF Decide, Goto, storeVars, branchVars, historyVars, State
  <2>2. /\ pc' \in {"done", "full", "compare"}
        /\ pc' = "done" => State.cycle >= MaxCycles \/ State.lastReviewedSHA = HeadSHA
        /\ pc' = "compare" => State.lastReviewedSHA # NoSHA
    BY <1>4 DEF Decide, Goto, FirstPass
  <2>3. HeadSHA # NoSHA
    BY <1>4, RowTypes, StoreAssumption DEF Decide
  <2> QED
    BY <2>1, <2>2, <2>3
       DEF ReviewedMeansRead, DoneMeansRead, BranchGrows, ShownInHand, HeadSHA
<1>5. CASE ReadFull
  <2>1. /\ UNCHANGED <<jobs, tip, undelivered, job, read, forced>>
        /\ State' = State
        /\ diff' = Commits[tip] /\ raced' = (raced \/ tip # HeadSHA)
        /\ pc' = IF diff' = {} THEN "done" ELSE "engine"
    BY <1>5 DEF ReadFull, Show, Diff, storeVars, branchVars, State
  <2>2. ~Strayed' => Commits[HeadSHA] \subseteq Commits[tip]
    <3>1. job \in DOMAIN jobs
      BY <1>5, RowTypes DEF ReadFull
    <3> QED
      BY <2>1, <3>1 DEF BranchGrows, HeadSHA
  <2>3. Strayed => Strayed'
    BY <2>1
  <2>4. ShownInHand'
    BY <2>1, <2>2 DEF ShownInHand, HeadSHA
  <2> QED
    BY <2>1, <2>3, <2>4 DEF ReviewedMeansRead, DoneMeansRead, BranchGrows
<1>6. CASE Compare
  <2>1. /\ UNCHANGED <<jobs, tip, undelivered, job, read, raced, forced>>
        /\ State' = State
    BY <1>6 DEF Compare, Show, Goto, storeVars, branchVars, historyVars, State
  <2>2. \/ pc' = "full"
        \/ /\ diff' = Commits[HeadSHA] \ Commits[State.lastReviewedSHA]
           /\ pc' = IF diff' = {} THEN "done" ELSE "engine"
    BY <1>6 DEF Compare, CompareDiff, Show, Goto
  <2>3. ~Strayed => Commits[State.lastReviewedSHA] \subseteq read
    BY <1>6 DEF Compare, ReviewedMeansRead
  <2>4. ShownInHand'
    BY <2>1, <2>2, <2>3 DEF ShownInHand, HeadSHA
  <2> QED
    BY <2>1, <2>2, <2>4 DEF ReviewedMeansRead, DoneMeansRead, BranchGrows
<1>7. CASE Engine
  <2>1. /\ pc = "engine" /\ pc' = "post"
        /\ UNCHANGED <<jobs, prReviews, tip, undelivered, job, diff, read, raced, forced>>
    BY <1>7 DEF Engine, storeVars, branchVars, historyVars
  <2> QED
    BY <2>1 DEF ReviewedMeansRead, DoneMeansRead, BranchGrows, ShownInHand, State, HeadSHA
<1>8. CASE Comment
  <2>1. UNCHANGED <<jobs, prReviews, tip, undelivered, pc, job, diff, read, raced, forced>>
    BY <1>8 DEF Comment, storeVars, branchVars
  <2> QED
    BY <2>1 DEF ReviewedMeansRead, DoneMeansRead, BranchGrows, ShownInHand, State, HeadSHA
<1>9. CASE Record
  <2>1. /\ jobs' = jobs
        /\ State.cycle \in Nat /\ State'.cycle = State.cycle + 1
        /\ State'.lastReviewedSHA = HeadSHA
    BY <1>9, RecordEffect
  <2>2. /\ pc = "post" /\ pc' = "done" /\ read' = read \cup diff
        /\ UNCHANGED <<tip, undelivered, job, diff, raced, forced>>
    BY <1>9 DEF Record, Goto, branchVars
  <2>3. ~Strayed => Commits[HeadSHA] \subseteq read'
    BY <2>2 DEF ShownInHand
  <2>4. ReviewedMeansRead' /\ ShownInHand'
    BY <2>1, <2>2, <2>3 DEF ReviewedMeansRead, ShownInHand, HeadSHA
  <2>5. State.cycle >= MaxCycles => State'.cycle >= MaxCycles
    BY <2>1, RevisionsAssumption
  <2>6. DoneMeansRead'
    BY <2>1, <2>2, <2>5 DEF DoneMeansRead
  <2>7. BranchGrows'
    BY <2>1, <2>2 DEF BranchGrows
  <2> QED
    BY <2>2, <2>4, <2>6, <2>7
<1>10. CASE End
  <2>1. pc = "done" /\ pc' = "idle" /\ UNCHANGED <<tip, undelivered, read, raced, forced>>
    BY <1>10 DEF End, Rest, branchVars, historyVars
  <2>2. /\ DOMAIN jobs' = DOMAIN jobs
        /\ \A k \in DOMAIN jobs : jobs'[k].head = jobs[k].head
        /\ \A k \in DOMAIN jobs : k # job => jobs'[k].state = jobs[k].state
        /\ State' = State
    BY <1>10, FinishKeeps DEF End, JobStates
  <2>3. ~Strayed => Commits[HeadSHA] \subseteq read \/ State.cycle >= MaxCycles
    BY <2>1 DEF ShownInHand
  <2>4. DoneMeansRead'
    BY <2>1, <2>2, <2>3 DEF DoneMeansRead, HeadSHA
  <2> QED
    BY <2>1, <2>2, <2>4 DEF ReviewedMeansRead, BranchGrows, ShownInHand
<1>11. CASE Fail
  <2>1. pc # "idle" /\ pc' = "idle" /\ UNCHANGED <<tip, undelivered, read, raced, forced>>
    BY <1>11 DEF Fail, Rest, branchVars, historyVars
  <2>2. PICK s \in {"failed", "dead"} : Finish(job, s)
    BY <1>11 DEF Fail
  <2>3. /\ DOMAIN jobs' = DOMAIN jobs
        /\ \A k \in DOMAIN jobs : jobs'[k].head = jobs[k].head
        /\ \A k \in DOMAIN jobs : jobs'[k].state = "done" => jobs[k].state = "done"
        /\ State' = State
    BY <2>1, <2>2, FinishKeeps DEF JobStates
  <2> QED
    BY <2>1, <2>3 DEF ReviewedMeansRead, DoneMeansRead, BranchGrows, ShownInHand
<1>12. CASE Crash
  <2>1. pc' = "idle" /\ UNCHANGED <<jobs, prReviews, tip, undelivered, read, raced, forced>>
    BY <1>12 DEF Crash, Rest, storeVars, branchVars
  <2> QED
    BY <2>1 DEF ReviewedMeansRead, DoneMeansRead, BranchGrows, ShownInHand, State
<1>13. CASE UNCHANGED vars
  BY <1>13 DEF vars, storeVars, branchVars, workerVars, historyVars,
               ReviewedMeansRead, DoneMeansRead, BranchGrows, ShownInHand, State, HeadSHA
<1> QED
  BY <1>1, <1>2, <1>3, <1>4, <1>5, <1>6, <1>7, <1>8, <1>9, <1>10, <1>11, <1>12,
     <1>13 DEF Next, Attempt

\* Unless both a force push and a pass on another head's diff have happened,
\* no attempt, retry or restart makes the table claim more than was read.
THEOREM ReadCorrect == Spec => []ReadInv
<1>1. Init => ReadInv
  BY ReadInit
<1>2. TypeOK /\ ReadInv /\ [Next]_vars => ReadInv'
  BY ReadStep
<1> QED
  BY <1>1, <1>2, TypeCorrect, PTL DEF Spec

\* An incremental pass leaves out only what an engine has been shown.
THEOREM IncrementalIsComplete == Spec => []ReviewedMeansRead
<1>1. ReadInv => ReviewedMeansRead
  BY DEF ReadInv
<1> QED
  BY <1>1, ReadCorrect, PTL

\* No job ends well with unread changes while budget is left.
THEOREM DoneIsRead == Spec => []DoneMeansRead
<1>1. ReadInv => DoneMeansRead
  BY DEF ReadInv
<1> QED
  BY <1>1, ReadCorrect, PTL

----------------------------------------------------------------------------
(* What comments are anchored to *)

\* Heads known to the queue, the memo or the anchors have been pushed, and the
\* memo is no older than the push of its head.
RefsInv ==
  /\ RefsNotOlder
  /\ \A h \in undelivered : firstPushed[h] > 0
  /\ \A k \in DOMAIN jobs : firstPushed[jobs[k].head] > 0
  /\ memo.head # NoSHA => firstPushed[memo.head] \in 1..memo.revision
  /\ \A h \in Heads : anchors[h] # {} => firstPushed[h] > 0

\* RefsInv depends on nothing else.
LEMMA RefsFrame ==
  ASSUME RefsInv, UNCHANGED <<firstPushed, undelivered, memo, anchors>>,
         DOMAIN jobs' = DOMAIN jobs,
         \A k \in DOMAIN jobs : jobs'[k].head = jobs[k].head
  PROVE  RefsInv'
  BY DEF RefsInv, RefsNotOlder

LEMMA RefsInit == Init => RefsInv
<1> SUFFICES ASSUME Init PROVE RefsInv
  OBVIOUS
<1>1. DOMAIN jobs = {} /\ undelivered = {tip} /\ tip \in Heads /\ firstPushed[tip] > 0
  BY DEF Init, StoreInit
<1>2. memo.head = NoSHA /\ \A h \in Heads : anchors[h] = {}
  BY DEF Init, NoMemo, NoAnchors
<1> QED
  BY <1>1, <1>2 DEF RefsInv, RefsNotOlder

LEMMA RefsStep == TypeOK /\ RefsInv /\ [Next]_vars => RefsInv'
<1> SUFFICES ASSUME TypeOK, RefsInv, [Next]_vars PROVE RefsInv'
  OBVIOUS
<1>1. ASSUME NEW h \in Heads, Push(h) PROVE RefsInv'
  <2>1. /\ UNCHANGED <<jobs, memo, anchors>>
        /\ undelivered' = undelivered \cup {h}
        /\ firstPushed' = [firstPushed EXCEPT ![h] =
                            IF firstPushed[h] = 0 THEN revision' ELSE firstPushed[h]]
        /\ revision' = revision + 1
    BY <1>1 DEF Push, storeVars, workerVars
  <2>2. firstPushed \in [Heads -> 0..revision] /\ revision \in Nat
    BY RevisionsAssumption DEF TypeOK
  <2>3. firstPushed'[h] > 0
    BY <2>1, <2>2
  <2>4. \A g \in Heads : firstPushed[g] > 0 => firstPushed'[g] = firstPushed[g]
    BY <2>1, <2>2
  <2>5. \A k \in DOMAIN jobs : jobs[k].head \in Heads
    <3>1. \A k \in DOMAIN jobs : jobs[k] \in JobRow
      BY DEF TypeOK, StoreTypeOK
    <3> QED
      BY <3>1 DEF JobRow
  <2>6. undelivered \subseteq Heads /\ memo.head \in Heads \cup {NoSHA} /\ memo.revision \in Nat
    BY DEF TypeOK
  <2>7. RefsNotOlder'
    <3> SUFFICES ASSUME NEW g \in Heads, NEW r \in anchors[g] PROVE r >= firstPushed'[g]
      BY <2>1 DEF RefsNotOlder
    <3>1. firstPushed[g] > 0 /\ r >= firstPushed[g]
      BY DEF RefsInv, RefsNotOlder
    <3> QED
      BY <3>1, <2>4
  <2>8. memo.head # NoSHA => firstPushed'[memo.head] \in 1..memo.revision
    <3> SUFFICES ASSUME memo.head # NoSHA PROVE firstPushed'[memo.head] \in 1..memo.revision
      OBVIOUS
    <3>1. memo.head \in Heads /\ firstPushed[memo.head] \in 1..memo.revision
      BY <2>6 DEF RefsInv
    <3> QED
      BY <3>1, <2>2, <2>4
  <2>9. /\ \A g \in undelivered' : firstPushed'[g] > 0
        /\ \A k \in DOMAIN jobs : firstPushed'[jobs[k].head] > 0
        /\ \A g \in Heads : anchors[g] # {} => firstPushed'[g] > 0
    BY <2>1, <2>2, <2>3, <2>4, <2>5, <2>6 DEF RefsInv
  <2> QED
    BY <2>1, <2>7, <2>8, <2>9 DEF RefsInv
<1>2. ASSUME NEW h \in Heads, Announce(h) PROVE RefsInv'
  <2>1. /\ UNCHANGED <<firstPushed, memo, anchors>>
        /\ h \in undelivered /\ undelivered' \subseteq undelivered
    BY <1>2 DEF Announce, workerVars, historyVars
  <2>2. /\ \A k \in DOMAIN jobs : k \in DOMAIN jobs' /\ jobs'[k] = jobs[k]
        /\ \A k \in DOMAIN jobs' : k \notin DOMAIN jobs => jobs'[k].head = h
    BY <1>2, AnnounceEffect
  <2> QED
    BY <2>1, <2>2 DEF RefsInv, RefsNotOlder
<1>3. CASE Claim
  <2>1. PICK id \in DOMAIN jobs : ClaimNext(id)
    BY <1>3 DEF Claim
  <2>2. jobs[id] \in JobRow
    BY <2>1 DEF TypeOK, StoreTypeOK
  <2>3. DOMAIN jobs' = DOMAIN jobs /\ \A k \in DOMAIN jobs : jobs'[k].head = jobs[k].head
    BY <2>1, <2>2, ClaimEffect DEF TypeOK, JobRow
  <2> QED
    BY <1>3, <2>3, RefsFrame DEF Claim, branchVars, historyVars
<1>4. CASE Decide
  BY <1>4, RefsFrame DEF Decide, Goto, storeVars, branchVars, historyVars
<1>5. CASE ReadFull
  BY <1>5, RefsFrame DEF ReadFull, Show, storeVars, branchVars
<1>6. CASE Compare
  BY <1>6, RefsFrame DEF Compare, Show, Goto, storeVars, branchVars, historyVars
<1>7. CASE Engine
  BY <1>7, RefsFrame DEF Engine, storeVars, branchVars, historyVars
<1>8. CASE Comment
  <2>1. UNCHANGED <<jobs, firstPushed, undelivered, revision>>
    BY <1>8 DEF Comment, storeVars, branchVars
  <2>2. HeadSHA \in Heads /\ firstPushed[HeadSHA] > 0
    BY <1>8, RowTypes DEF Comment, RefsInv, HeadSHA
  <2>3. firstPushed[HeadSHA] \in 1..revision /\ revision \in Nat
    BY <2>2, RevisionsAssumption DEF TypeOK
  <2>4. Refs.head = HeadSHA /\ firstPushed[HeadSHA] \in 1..Refs.revision
    <3>1. CASE MemoHits
      BY <2>2, <3>1, StoreAssumption DEF Refs, MemoHits, RefsInv
    <3>2. CASE ~MemoHits
      BY <2>3, <3>2 DEF Refs, MergeRequestRefs
    <3> QED
      BY <3>1, <3>2
  <2>5. memo'.head # NoSHA => firstPushed[memo'.head] \in 1..memo'.revision
    BY <1>8, <2>4 DEF Comment, RefsInv
  <2>6. Refs.revision \in Nat
    BY <2>3 DEF TypeOK, Refs, MergeRequestRefs
  <2>7. Refs.revision >= firstPushed[HeadSHA]
    BY <2>3, <2>4, <2>6
  <2>8. /\ RefsNotOlder'
        /\ \A h \in Heads : anchors'[h] # {} => firstPushed[h] > 0
    <3>1. CASE UNCHANGED anchors
      BY <2>1, <3>1 DEF RefsInv, RefsNotOlder
    <3>2. CASE anchors' = [anchors EXCEPT ![HeadSHA] = anchors[HeadSHA] \cup {Refs.revision}]
      <4>1. /\ anchors'[HeadSHA] = anchors[HeadSHA] \cup {Refs.revision}
            /\ \A h \in Heads : h # HeadSHA => anchors'[h] = anchors[h]
        BY <2>2, <3>2 DEF TypeOK
      <4> QED
        BY <2>1, <2>2, <2>7, <4>1 DEF RefsInv, RefsNotOlder
    <3> QED
      BY <1>8, <3>1, <3>2 DEF Comment
  <2> QED
    BY <2>1, <2>5, <2>8 DEF RefsInv
<1>9. CASE Record
  BY <1>9, RecordEffect, RefsFrame DEF Record, Goto, branchVars
<1>10. CASE End
  BY <1>10, FinishKeeps, RefsFrame DEF End, JobStates, Rest, branchVars, historyVars
<1>11. CASE Fail
  <2>1. PICK s \in {"failed", "dead"} : Finish(job, s)
    BY <1>11 DEF Fail
  <2> QED
    BY <1>11, <2>1, FinishKeeps, RefsFrame
       DEF Fail, JobStates, Rest, branchVars, historyVars
<1>12. CASE Crash
  <2>1. UNCHANGED <<jobs, firstPushed, undelivered>>
    BY <1>12 DEF Crash, storeVars, branchVars
  <2>2. memo'.head = NoSHA /\ \A h \in Heads : anchors'[h] = {}
    BY <1>12 DEF Crash, NoMemo, NoAnchors
  <2> QED
    BY <2>1, <2>2 DEF RefsInv, RefsNotOlder
<1>13. CASE UNCHANGED vars
  BY <1>13, RefsFrame DEF vars, storeVars, branchVars, workerVars, historyVars
<1> QED
  BY <1>1, <1>2, <1>3, <1>4, <1>5, <1>6, <1>7, <1>8, <1>9, <1>10, <1>11, <1>12,
     <1>13 DEF Next, Attempt

\* A comment is never anchored to a revision from before its head was pushed,
\* whatever the memo was last used for.
THEOREM AnchorsNotOlder == Spec => []RefsNotOlder
<1>1. Init => RefsInv
  BY RefsInit
<1>2. TypeOK /\ RefsInv /\ [Next]_vars => RefsInv'
  BY RefsStep
<1>3. RefsInv => RefsNotOlder
  BY DEF RefsInv
<1> QED
  BY <1>1, <1>2, <1>3, TypeCorrect, PTL DEF Spec
----------------------------------------------------------------------------
(* Comments of one head are anchored alike *)

Settled(k) == jobs[k].state \notin Runnable
Tried(k) == jobs[k].attempts > 0

\* One job at a time, in the order of the table, and one for each head.
OneAtATime ==
  /\ \A k \in DOMAIN jobs : Tried(k) => \A j \in 1..(k - 1) : Settled(j)
  /\ pc # "idle" => ~Settled(job) /\ Tried(job)
  /\ \A k \in DOMAIN jobs : jobs[k].pr = MR /\ jobs[k].event = "synchronize"
  /\ \A j, k \in DOMAIN jobs : jobs[j].head = jobs[k].head => j = k

\* The memo still holds what the comments of a head were anchored to, or no
\* further comment is made for it.
Anchored(h) ==
  anchors[h] # {} =>
    \E k \in DOMAIN jobs :
      /\ jobs[k].head = h /\ Tried(k)
      /\ \E r : anchors[h] = {r} /\ (Settled(k) \/ memo = [head |-> h, revision |-> r])

AnchorInv == OneAtATime /\ \A h \in Heads : Anchored(h)

LEMMA AnchorInit == Init => AnchorInv
  BY DEF Init, StoreInit, AnchorInv, OneAtATime, Anchored, NoAnchors

\* A row that is tried or settled stays so, and its head is the same.
RowsKept ==
  \A k \in DOMAIN jobs :
    /\ k \in DOMAIN jobs' /\ jobs'[k].head = jobs[k].head
    /\ Settled(k) => Settled(k)'
    /\ Tried(k) => Tried(k)'

LEMMA AnchoredKept ==
  ASSUME AnchorInv, UNCHANGED <<memo, anchors>>, RowsKept
  PROVE  \A h \in Heads : Anchored(h)'
<1> SUFFICES ASSUME NEW h \in Heads, anchors[h] # {} PROVE Anchored(h)'
  BY DEF Anchored
<1>1. PICK k \in DOMAIN jobs :
        /\ jobs[k].head = h /\ Tried(k)
        /\ \E r : anchors[h] = {r} /\ (Settled(k) \/ memo = [head |-> h, revision |-> r])
  BY DEF AnchorInv, Anchored
<1>2. k \in DOMAIN jobs' /\ jobs'[k].head = h /\ Tried(k)' /\ (Settled(k) => Settled(k)')
  BY <1>1 DEF RowsKept
<1> QED
  BY <1>1, <1>2 DEF Anchored

\* What the memo holds after a comment is what the comment is anchored to.
LEMMA AnchoredNow ==
  ASSUME NEW h \in Heads, NEW k \in DOMAIN jobs', jobs'[k].head = h,
         jobs'[k].attempts > 0,
         NEW r, anchors'[h] = {r}, memo' = [head |-> h, revision |-> r]
  PROVE  Anchored(h)'
<1>1. \E q : /\ anchors'[h] = {q}
             /\ Settled(k)' \/ memo' = [head |-> h, revision |-> q]
  BY Zenon
<1> QED
  BY <1>1, Zenon DEF Anchored, Tried

\* A step of an attempt that leaves the table, the memo and the anchors.
LEMMA AnchorFrame ==
  ASSUME AnchorInv, UNCHANGED <<jobs, memo, anchors>>,
         pc' # "idle" => pc # "idle" /\ job' = job
  PROVE  AnchorInv'
<1>1. RowsKept
  BY DEF RowsKept, Settled, Tried
<1>2. OneAtATime'
  BY DEF AnchorInv, OneAtATime, Settled, Tried
<1> QED
  BY <1>1, <1>2, AnchoredKept DEF AnchorInv

\* The outcome of an attempt.
LEMMA AnchorFinish ==
  ASSUME TypeOK, AnchorInv, pc # "idle", pc' = "idle", UNCHANGED <<memo, anchors>>,
         NEW s \in {"done", "failed", "dead"}, Finish(job, s)
  PROVE  AnchorInv'
<1>1. job \in DOMAIN jobs /\ jobs[job] \in JobRow
  BY RowTypes DEF TypeOK, StoreTypeOK
<1>2. /\ DOMAIN jobs' = DOMAIN jobs
      /\ \A k \in DOMAIN jobs : k # job => jobs'[k] = jobs[k]
      /\ jobs'[job] = [jobs[job] EXCEPT !.state = s]
  BY <1>1, FinishEffect DEF TypeOK, JobStates
<1>3. /\ jobs'[job].head = jobs[job].head /\ jobs'[job].attempts = jobs[job].attempts
      /\ jobs'[job].pr = jobs[job].pr /\ jobs'[job].event = jobs[job].event
  BY <1>1, <1>2 DEF JobRow
<1>4. RowsKept
  BY <1>2, <1>3 DEF RowsKept, AnchorInv, OneAtATime, Settled, Tried
<1>5. DOMAIN jobs = 1..Len(jobs) /\ Len(jobs) \in Nat
  BY DEF TypeOK, StoreTypeOK
<1>6. \A k \in DOMAIN jobs : Tried(k)' => Tried(k)
  BY <1>2, <1>3 DEF Tried
<1>7. \A k \in DOMAIN jobs' : Tried(k)' => \A j \in 1..(k - 1) : Settled(j)'
  <2> SUFFICES ASSUME NEW k \in DOMAIN jobs, Tried(k), NEW j \in 1..(k - 1)
               PROVE  Settled(j)'
    BY <1>2, <1>6
  <2>1. Settled(j) /\ j \in DOMAIN jobs
    BY <1>5 DEF AnchorInv, OneAtATime
  <2> QED
    BY <2>1, <1>4 DEF RowsKept
<1>8. \A k \in DOMAIN jobs' : /\ jobs'[k].head = jobs[k].head
                              /\ jobs'[k].pr = jobs[k].pr
                              /\ jobs'[k].event = jobs[k].event
  BY <1>2, <1>3
<1>9. \A k \in DOMAIN jobs' : jobs'[k].pr = MR /\ jobs'[k].event = "synchronize"
  BY <1>2, <1>8 DEF AnchorInv, OneAtATime
<1>10. \A j, k \in DOMAIN jobs' : jobs'[j].head = jobs'[k].head => j = k
  BY <1>2, <1>8 DEF AnchorInv, OneAtATime
<1> QED
  BY <1>4, <1>7, <1>9, <1>10, AnchoredKept DEF AnchorInv, OneAtATime

LEMMA AnchorStep == TypeOK /\ AnchorInv /\ [Next]_vars => AnchorInv'
<1> SUFFICES ASSUME TypeOK, AnchorInv, [Next]_vars PROVE AnchorInv'
  OBVIOUS
<1>0. DOMAIN jobs = 1..Len(jobs) /\ Len(jobs) \in Nat /\ \A k \in DOMAIN jobs : jobs[k] \in JobRow
  BY DEF TypeOK, StoreTypeOK
<1>1. ASSUME NEW h \in Heads, Push(h) PROVE AnchorInv'
  BY <1>1, AnchorFrame DEF Push, storeVars, workerVars
<1>2. ASSUME NEW h \in Heads, Announce(h) PROVE AnchorInv'
  <2> DEFINE d == [pr |-> MR, head |-> h, event |-> "synchronize"]
  <2>1. UNCHANGED <<memo, anchors, pc, job>> /\ Enqueue(d)
    BY <1>2 DEF Announce, workerVars, historyVars
  <2>2. CASE Known(d)
    <3>1. jobs' = jobs
      BY <2>1, <2>2 DEF Enqueue
    <3> QED
      BY <2>1, <3>1, AnchorFrame
  <2>3. CASE ~Known(d)
    <3>1. \A k \in DOMAIN jobs : jobs[k].head # h
      <4> SUFFICES ASSUME NEW k \in DOMAIN jobs, jobs[k].head = h PROVE FALSE
        OBVIOUS
      <4>1. jobs[k].pr = MR /\ jobs[k].event = "synchronize"
        BY DEF AnchorInv, OneAtATime
      <4>2. DeliveryID(jobs[k]) = DeliveryID(d)
        BY <4>1 DEF DeliveryID
      <4> QED
        BY <4>2, <2>3 DEF Known
    <3> DEFINE row == [pr |-> MR, head |-> h, event |-> "synchronize",
                       state |-> "queued", attempts |-> 0]
    <3>2. jobs' = Append(jobs, row)
      BY <2>1, <2>3 DEF Enqueue
    <3>3. row \in JobRow /\ jobs \in Seq(JobRow)
      BY RevisionsAssumption DEF TypeOK, StoreTypeOK, JobRow, JobStates, Events
    <3>4. /\ DOMAIN jobs' = 1..(Len(jobs) + 1)
          /\ jobs'[Len(jobs) + 1] = row
          /\ \A k \in DOMAIN jobs : jobs'[k] = jobs[k]
      BY <3>2, <3>3
    <3>5. row.pr = MR /\ row.head = h /\ row.event = "synchronize" /\ row.attempts = 0
      OBVIOUS
    <3> HIDE DEF row
    <3>6. RowsKept
      BY <1>0, <3>4 DEF RowsKept, Settled, Tried
    <3>7. \A k \in DOMAIN jobs' : Tried(k)' => \A j \in 1..(k - 1) : Settled(j)'
      <4> SUFFICES ASSUME NEW k \in DOMAIN jobs', Tried(k)', NEW j \in 1..(k - 1)
                   PROVE  Settled(j)'
        OBVIOUS
      <4>1. k \in DOMAIN jobs /\ Tried(k)
        BY <1>0, <3>4, <3>5 DEF Tried
      <4>2. j \in DOMAIN jobs /\ Settled(j)
        BY <1>0, <4>1 DEF AnchorInv, OneAtATime
      <4> QED
        BY <4>2, <3>6 DEF RowsKept
    <3>8. \A k \in DOMAIN jobs' : jobs'[k].pr = MR /\ jobs'[k].event = "synchronize"
      BY <1>0, <3>4, <3>5 DEF AnchorInv, OneAtATime
    <3>9. \A j, k \in DOMAIN jobs' : jobs'[j].head = jobs'[k].head => j = k
      BY <1>0, <3>1, <3>4, <3>5 DEF AnchorInv, OneAtATime
    <3>10. pc' # "idle" => Settled(job)' = FALSE /\ Tried(job)'
      <4> SUFFICES ASSUME pc # "idle" PROVE Settled(job)' = FALSE /\ Tried(job)'
        BY <2>1
      <4>1. job \in DOMAIN jobs /\ ~Settled(job) /\ Tried(job)
        BY RowTypes DEF AnchorInv, OneAtATime
      <4> QED
        BY <4>1, <2>1, <3>4 DEF Settled, Tried
    <3> QED
      BY <2>1, <3>6, <3>7, <3>8, <3>9, <3>10, AnchoredKept DEF AnchorInv, OneAtATime
  <2> QED
    BY <2>2, <2>3
<1>3. CASE Claim
  <2>1. PICK id \in DOMAIN jobs : ClaimNext(id) /\ job' = id
    BY <1>3 DEF Claim
  <2>2. /\ DOMAIN jobs' = DOMAIN jobs
        /\ \A k \in DOMAIN jobs : k # id => jobs'[k] = jobs[k]
        /\ jobs'[id] = [jobs[id] EXCEPT !.state = "running",
                                        !.attempts = jobs[id].attempts + 1]
        /\ ~Settled(id)
        /\ \A k \in 1..(id - 1) : Settled(k)
    BY <2>1, ClaimEffect DEF TypeOK, Settled
  <2>3. /\ jobs'[id].head = jobs[id].head /\ jobs'[id].pr = jobs[id].pr
        /\ jobs'[id].event = jobs[id].event /\ jobs'[id].state = "running"
        /\ jobs'[id].attempts > 0
    BY <1>0, <2>2 DEF JobRow
  <2>4. RowsKept
    BY <2>2, <2>3 DEF RowsKept, Settled, Tried
  <2>5. \A k \in DOMAIN jobs' : Tried(k)' => \A j \in 1..(k - 1) : Settled(j)'
    <3> SUFFICES ASSUME NEW k \in DOMAIN jobs, Tried(k)', NEW j \in 1..(k - 1)
                 PROVE  Settled(j)'
      BY <2>2
    <3>1. j \in DOMAIN jobs
      BY <1>0
    <3>2. Settled(j)
      BY <2>2 DEF Tried, AnchorInv, OneAtATime
    <3> QED
      BY <3>1, <3>2, <2>4 DEF RowsKept
  <2>6. \A k \in DOMAIN jobs' : /\ jobs'[k].head = jobs[k].head
                                /\ jobs'[k].pr = jobs[k].pr
                                /\ jobs'[k].event = jobs[k].event
    BY <2>2, <2>3
  <2>7. \A k \in DOMAIN jobs' : jobs'[k].pr = MR /\ jobs'[k].event = "synchronize"
    BY <2>2, <2>6 DEF AnchorInv, OneAtATime
  <2>8. \A j, k \in DOMAIN jobs' : jobs'[j].head = jobs'[k].head => j = k
    BY <2>2, <2>6 DEF AnchorInv, OneAtATime
  <2>9. ~Settled(job)' /\ Tried(job)'
    BY <2>1, <2>3 DEF Settled, Tried, Runnable
  <2> QED
    BY <1>3, <2>4, <2>5, <2>7, <2>8, <2>9, AnchoredKept DEF AnchorInv, OneAtATime, Claim, historyVars
<1>4. CASE Decide
  BY <1>4, AnchorFrame DEF Decide, Goto, storeVars, historyVars
<1>5. CASE ReadFull
  BY <1>5, AnchorFrame DEF ReadFull, Show, storeVars
<1>6. CASE Compare
  BY <1>6, AnchorFrame DEF Compare, Show, Goto, storeVars, historyVars
<1>7. CASE Engine
  BY <1>7, AnchorFrame DEF Engine, storeVars, historyVars
<1>8. CASE Comment
  <2>1. UNCHANGED <<jobs, pc, job>> /\ pc # "idle"
    BY <1>8 DEF Comment, storeVars
  <2>2. HeadSHA \in Heads /\ job \in DOMAIN jobs /\ jobs[job].head = HeadSHA
    BY <2>1, RowTypes DEF HeadSHA
  <2>3. ~Settled(job) /\ Tried(job)
    BY <2>1 DEF AnchorInv, OneAtATime
  <2>4. Refs = [head |-> HeadSHA, revision |-> Refs.revision]
    <3>1. memo = [head |-> memo.head, revision |-> memo.revision]
      BY DEF TypeOK
    <3> QED
      BY <3>1 DEF Refs, MemoHits, MergeRequestRefs
  <2>5. memo' \in {memo, Refs}
    BY <1>8 DEF Comment
  <2>6. jobs'[job].head = HeadSHA /\ jobs'[job].attempts > 0 /\ job \in DOMAIN jobs'
    BY <2>1, <2>2, <2>3 DEF Tried
  <2>7. ASSUME NEW h \in Heads PROVE Anchored(h)'
    <3>1. CASE h = HeadSHA
      <4>1. anchors[h] # {} => anchors[h] = {memo.revision} /\ memo.head = h /\ Refs = memo
        <5> SUFFICES ASSUME anchors[h] # {}
                     PROVE  anchors[h] = {memo.revision} /\ memo.head = h /\ Refs = memo
          OBVIOUS
        <5>1. PICK k \in DOMAIN jobs :
                /\ jobs[k].head = h /\ Tried(k)
                /\ \E r : anchors[h] = {r} /\ (Settled(k) \/ memo = [head |-> h, revision |-> r])
          BY DEF AnchorInv, Anchored
        <5>2. k = job
          BY <2>2, <3>1, <5>1 DEF AnchorInv, OneAtATime
        <5>3. PICK r : anchors[h] = {r} /\ memo = [head |-> h, revision |-> r]
          BY <2>3, <5>1, <5>2
        <5> QED
          BY <3>1, <5>3 DEF Refs, MemoHits
      <4>2. CASE anchors' = anchors
        <5>1. memo' = memo \/ anchors[h] = {}
          BY <2>5, <4>1
        <5> SUFFICES ASSUME anchors[h] # {} PROVE Anchored(h)'
          BY <4>2 DEF Anchored
        <5>2. memo' = [head |-> h, revision |-> memo.revision]
          BY <4>1, <5>1 DEF TypeOK
        <5>3. anchors'[h] = {memo.revision}
          BY <4>1, <4>2
        <5> QED
          BY <2>6, <3>1, <5>2, <5>3, AnchoredNow
      <4>3. CASE /\ memo' = Refs
                 /\ anchors' = [anchors EXCEPT ![HeadSHA] = anchors[HeadSHA] \cup {Refs.revision}]
        <5>1. anchors'[h] = anchors[h] \cup {Refs.revision}
          BY <3>1, <4>3 DEF TypeOK
        <5>2. anchors'[h] = {Refs.revision}
          BY <4>1, <5>1
        <5>3. memo' = [head |-> h, revision |-> Refs.revision]
          BY <2>4, <3>1, <4>3
        <5> QED
          BY <2>6, <3>1, <5>2, <5>3, AnchoredNow
      <4> QED
        BY <1>8, <4>2, <4>3 DEF Comment
    <3>2. CASE h # HeadSHA
      <4>1. anchors'[h] = anchors[h]
        BY <1>8, <3>2 DEF Comment, TypeOK
      <4> SUFFICES ASSUME anchors[h] # {} PROVE Anchored(h)'
        BY <4>1 DEF Anchored
      <4>2. PICK k \in DOMAIN jobs :
              /\ jobs[k].head = h /\ Tried(k)
              /\ \E r : anchors[h] = {r}
        BY DEF AnchorInv, Anchored
      <4>3. k # job
        BY <2>2, <3>2, <4>2
      <4>4. Settled(k)
        <5>1. CASE k < job
          BY <1>0, <2>2, <2>3, <5>1 DEF AnchorInv, OneAtATime
        <5>2. CASE k > job
          <6>1. job \in 1..(k - 1)
            BY <1>0, <2>2, <5>2
          <6> QED
            BY <2>3, <4>2, <6>1 DEF AnchorInv, OneAtATime
        <5> QED
          BY <1>0, <2>2, <4>3, <5>1, <5>2
      <4> QED
        BY <2>1, <4>1, <4>2, <4>4 DEF Anchored, Settled, Tried
    <3> QED
      BY <3>1, <3>2
  <2>8. OneAtATime'
    BY <2>1 DEF AnchorInv, OneAtATime, Settled, Tried
  <2> QED
    BY <2>7, <2>8 DEF AnchorInv
<1>9. CASE Record
  BY <1>9, RecordEffect, AnchorFrame DEF Record, Goto
<1>10. CASE End
  BY <1>10, AnchorFinish DEF End, Rest, historyVars
<1>11. CASE Fail
  <2>1. PICK s \in {"failed", "dead"} : Finish(job, s)
    BY <1>11 DEF Fail
  <2> QED
    BY <1>11, <2>1, AnchorFinish DEF Fail, Rest, historyVars
<1>12. CASE Crash
  <2>1. UNCHANGED jobs /\ pc' = "idle" /\ \A h \in Heads : anchors'[h] = {}
    BY <1>12 DEF Crash, storeVars, Rest, NoAnchors
  <2> QED
    BY <2>1 DEF AnchorInv, OneAtATime, Anchored, Settled, Tried
<1>13. CASE UNCHANGED vars
  BY <1>13, AnchorFrame DEF vars, storeVars, workerVars, historyVars
<1> QED
  BY <1>1, <1>2, <1>3, <1>4, <1>5, <1>6, <1>7, <1>8, <1>9, <1>10, <1>11, <1>12,
     <1>13 DEF Next, Attempt

\* All comments a process makes for one head are anchored to one revision: the
\* memo is not filled anew before the last try of its job is over.
THEOREM AnchoredAlike == Spec => []OneTriplePerHead
<1>1. Init => AnchorInv
  BY AnchorInit
<1>2. TypeOK /\ AnchorInv /\ [Next]_vars => AnchorInv'
  BY AnchorStep
<1>3. AnchorInv => OneTriplePerHead
  <2> SUFFICES ASSUME AnchorInv, NEW h \in Heads PROVE Cardinality(anchors[h]) <= 1
    BY DEF OneTriplePerHead
  <2>1. anchors[h] = {} \/ \E r : anchors[h] = {r}
    BY DEF AnchorInv, Anchored
  <2>2. CASE anchors[h] = {}
    <3>1. Cardinality({}) = 0
      BY FS_EmptySet
    <3> QED
      BY <2>2, <3>1
  <2>3. CASE \E r : anchors[h] = {r}
    <3>1. PICK r : anchors[h] = {r}
      BY <2>3
    <3>2. Cardinality({r}) = 1
      BY FS_Singleton
    <3> QED
      BY <3>1, <3>2
  <2> QED
    BY <2>1, <2>2, <2>3
<1> QED
  BY <1>1, <1>2, <1>3, TypeCorrect, PTL DEF Spec
=============================================================================

------------------------- MODULE ReviewWorkerProofs -------------------------
(***************************************************************************)
(* Theorems about ReviewWorker, for every set of PRs, heads, findings and  *)
(* deliveries, every budget, attempt limit and comment cap, every mix and  *)
(* number of faults.                                                       *)
(***************************************************************************)
EXTENDS ReviewWorker, StoreProofs

----------------------------------------------------------------------------
(* Type correctness *)

LEMMA InitType == Init => TypeOK
<1> SUFFICES ASSUME Init PROVE TypeOK
  OBVIOUS
<1>1. ZeroPRState \in PRRow
  BY DEF ZeroPRState, PRRow
<1>2. StoreTypeOK
  BY <1>1 DEF Init, StoreInit, StoreTypeOK
<1>3. WorkerTypeOK
  BY <1>1 DEF Init, WorkerTypeOK, PCs, Idle
<1>4. ForgeTypeOK
  BY DEF Init, ForgeTypeOK
<1>5. HistoryTypeOK
  BY WorkerAssumption DEF Init, HistoryTypeOK
<1> QED
  BY <1>2, <1>3, <1>4, <1>5 DEF TypeOK
\* The job a busy worker holds is a row of the table.
LEMMA RowType ==
  ASSUME TypeOK, pc \notin Idle
  PROVE  /\ job \in DOMAIN jobs
         /\ Row \in JobRow
         /\ PR \in PRs
         /\ Row.head \in Heads
         /\ Row.attempts \in Nat
<1>1. job \in DOMAIN jobs
  BY DEF TypeOK, WorkerTypeOK
<1>2. Row \in JobRow
  BY <1>1 DEF TypeOK, StoreTypeOK, Row
<1> QED
  BY <1>1, <1>2 DEF JobRow, PR

LEMMA ZeroRow == ZeroPRState \in PRRow
  BY DEF ZeroPRState, PRRow

\* Where Goto and Return may lead from a state that holds a job.
LEMMA GotoType ==
  ASSUME TypeOK, pc \notin Idle, NEW label \in PCs \ Idle,
         Goto(label) \/ Return(label), DOMAIN jobs' = DOMAIN jobs
  PROVE  WorkerTypeOK'
<1>1. job' = job /\ job \in DOMAIN jobs /\ pc' = label /\ ctx' = ctx
  BY RowType DEF Goto, Return, localVars
<1>2. CASE Goto(label)
  BY <1>1, <1>2 DEF TypeOK, WorkerTypeOK, Goto, localVars
<1>3. CASE Return(label)
  BY <1>1, <1>3, ZeroRow DEF TypeOK, WorkerTypeOK, Return, NoLocals
<1> QED
  BY <1>2, <1>3

LEMMA EndJobType ==
  ASSUME TypeOK, EndJob
  PROVE  WorkerTypeOK'
  BY DEF TypeOK, WorkerTypeOK, EndJob, Idle, PCs

LEMMA SufferType ==
  ASSUME TypeOK, NEW kind, Suffer(kind), DOMAIN jobs' = DOMAIN jobs
  PROVE  HistoryTypeOK'
<1>1. faults \in 0..MaxFaults /\ faults < MaxFaults /\ faults' = faults + 1
  BY DEF Suffer, TypeOK, HistoryTypeOK
<1>2. faults' \in 0..MaxFaults
  BY <1>1, WorkerAssumption
<1> QED
  BY <1>2 DEF Suffer, TypeOK, HistoryTypeOK

\* The tables, the forge and the history keep their types when untouched.
LEMMA UnchangedTypes ==
  ASSUME TypeOK
  PROVE  /\ UNCHANGED storeVars => StoreTypeOK' /\ DOMAIN jobs' = DOMAIN jobs
         /\ UNCHANGED forgeVars /\ DOMAIN jobs \subseteq DOMAIN jobs' => ForgeTypeOK'
         /\ UNCHANGED historyVars /\ DOMAIN jobs \subseteq DOMAIN jobs' => HistoryTypeOK'
<1>1. UNCHANGED storeVars => StoreTypeOK' /\ DOMAIN jobs' = DOMAIN jobs
  BY DEF TypeOK, StoreTypeOK, storeVars
<1>2. UNCHANGED forgeVars /\ DOMAIN jobs \subseteq DOMAIN jobs' => ForgeTypeOK'
  BY DEF TypeOK, ForgeTypeOK, forgeVars
<1>3. UNCHANGED historyVars /\ DOMAIN jobs \subseteq DOMAIN jobs' => HistoryTypeOK'
  BY DEF TypeOK, HistoryTypeOK, historyVars
<1> QED
  BY <1>1, <1>2, <1>3

LEMMA SaveType ==
  ASSUME TypeOK, NEW p \in PRs, NEW s \in PRRow, SavePRState(p, s)
  PROVE  StoreTypeOK' /\ DOMAIN jobs' = DOMAIN jobs
  BY DEF TypeOK, StoreTypeOK, SavePRState
\* Writing to a sequence, inside its domain or not, keeps its type.
LEMMA ExceptInSeq ==
  ASSUME NEW S, NEW s \in Seq(S), NEW i \in Nat, NEW e \in S
  PROVE  [s EXCEPT ![i] = e] \in Seq(S)
<1> DEFINE t == [s EXCEPT ![i] = e]
<1>1. CASE i \in 1..Len(s)
  BY <1>1
<1>2. CASE i \notin 1..Len(s)
  <2>1. DOMAIN t = 1..Len(s)
    OBVIOUS
  <2>2. \A k \in 1..Len(s) : t[k] = s[k]
    BY <1>2
  <2>3. t = [k \in 1..Len(s) |-> t[k]]
    BY <2>1, Zenon
  <2>4. t \in [1..Len(s) -> S]
    <3> HIDE DEF t
    <3>1. \A k \in 1..Len(s) : t[k] \in S
      BY <2>2
    <3> QED
      BY <2>3, <3>1
  <2>5. \A u \in [1..Len(s) -> S] : u \in Seq(S)
    OBVIOUS
  <2> QED
    BY <2>4, <2>5, Zenon
<1> QED
  BY <1>1, <1>2

\* Every operation keeps the types.
LEMMA TypeStep == TypeOK /\ [Next]_vars => TypeOK'
<1> SUFFICES ASSUME TypeOK, [Next]_vars PROVE TypeOK'
  OBVIOUS
<1> USE DEF TypeOK
<1>1. ASSUME NEW d \in Deliveries, Deliver(d) PROVE TypeOK'
  <2>1. d \in [pr : PRs, head : Heads, event : Events]
    BY WorkerAssumption DEF Delivery
  <2>2. StoreTypeOK' /\ DOMAIN jobs \subseteq DOMAIN jobs'
    BY <1>1, <2>1, EnqueueEffect DEF Deliver
  <2>3. WorkerTypeOK'
    BY <1>1, <2>2 DEF Deliver, workerVars, WorkerTypeOK
  <2> QED
    BY <1>1, <2>2, <2>3, UnchangedTypes DEF Deliver
<1>2. CASE Claim
  <2>1. PICK id \in DOMAIN jobs : ClaimNext(id) /\ job' = id
    BY <1>2 DEF Claim
  <2>2. StoreTypeOK' /\ DOMAIN jobs' = DOMAIN jobs
    BY <2>1, ClaimEffect
  <2>3. WorkerTypeOK'
    BY <1>2, <2>1, <2>2 DEF Claim, WorkerTypeOK, PCs, Idle
  <2> QED
    BY <1>2, <2>2, <2>3, UnchangedTypes DEF Claim
<1>3. CASE ClaimNothing
  <2>1. HistoryTypeOK'
    BY <1>3, SufferType, UnchangedTypes DEF ClaimNothing, StoreFails
  <2>2. WorkerTypeOK'
    BY <1>3 DEF ClaimNothing, Goto, localVars, WorkerTypeOK, PCs, Idle
  <2> QED
    BY <1>3, <2>1, <2>2, UnchangedTypes DEF ClaimNothing
<1>4. CASE Wake
  <2>1. WorkerTypeOK'
    BY <1>4 DEF Wake, Goto, localVars, WorkerTypeOK, PCs, Idle
  <2> QED
    BY <1>4, <2>1, UnchangedTypes DEF Wake
<1>5. CASE Leave
  <2>1. WorkerTypeOK'
    BY <1>5 DEF Leave, Goto, localVars, WorkerTypeOK, PCs, Idle
  <2> QED
    BY <1>5, <2>1, UnchangedTypes DEF Leave
<1>6. CASE StartReview
  <2>1. pc \notin Idle
    BY <1>6 DEF StartReview, Idle
  <2>2. CASE UNCHANGED <<storeVars, forgeVars, historyVars>>
    <3>1. Goto("fail") \/ Goto("readState") \/ Return("fail")
      BY <1>6 DEF StartReview
    <3>2. WorkerTypeOK'
      BY <2>1, <2>2, <3>1, GotoType, UnchangedTypes DEF PCs, Idle
    <3> QED
      BY <2>2, <3>2, UnchangedTypes
  <2>3. CASE NewBudget(PR) /\ Goto("readState")
    <3>1. StoreTypeOK' /\ DOMAIN jobs' = DOMAIN jobs
      BY <2>1, <2>3, RowType, ZeroRow DEF NewBudget, ResetPRState, StoreTypeOK
    <3>2. WorkerTypeOK'
      BY <2>1, <2>3, <3>1, GotoType DEF PCs, Idle
    <3>3. ForgeTypeOK'
      BY <2>1, <2>3, <3>1, RowType DEF NewBudget, ForgeTypeOK
    <3>4. HistoryTypeOK'
      BY <2>1, <2>3, <3>1, RowType DEF NewBudget, HistoryTypeOK
    <3> QED
      BY <3>1, <3>2, <3>3, <3>4
  <2> QED
    BY <1>6, <2>2, <2>3 DEF StartReview
<1>7. CASE ReadState
  <2>1. pc \notin Idle
    BY <1>7 DEF ReadState, Idle
  <2>2. prReviews[PR] \in PRRow
    BY <2>1, RowType DEF StoreTypeOK
  <2>3. Decision(prReviews[PR]) \in {"succeed", "notice", "fetch"}
    BY DEF Decision
  <2>4. WorkerTypeOK'
    <3>1. CASE Return("succeed")
      BY <1>7, <2>1, <3>1, GotoType, UnchangedTypes DEF ReadState, PCs, Idle
    <3>2. CASE /\ st' = prReviews[PR]
               /\ pc' = Decision(prReviews[PR])
               /\ UNCHANGED <<ctx, job, found, fresh, unposted, cur>>
      BY <1>7, <2>1, <2>2, <2>3, <3>2, UnchangedTypes, RowType
      DEF ReadState, WorkerTypeOK, PCs, Idle
    <3> QED
      BY <1>7, <3>1, <3>2 DEF ReadState
  <2> QED
    BY <1>7, <2>4, UnchangedTypes DEF ReadState
<1>8. CASE FetchDiff
  <2>1. pc \notin Idle
    BY <1>8 DEF FetchDiff, Idle
  <2>2. WorkerTypeOK'
    BY <1>8, <2>1, GotoType, UnchangedTypes DEF FetchDiff, PCs, Idle
  <2> QED
    BY <1>8, <2>2, UnchangedTypes DEF FetchDiff
<1>9. CASE EngineReview
  <2>1. WorkerTypeOK'
    BY <1>9, UnchangedTypes, RowType DEF EngineReview, WorkerTypeOK, PCs, Idle
  <2> QED
    BY <1>9, <2>1, UnchangedTypes DEF EngineReview
<1>10. CASE EngineError
  <2>1. pc \notin Idle
    BY <1>10 DEF EngineError, Idle
  <2>2. WorkerTypeOK'
    BY <1>10, <2>1, GotoType, UnchangedTypes DEF EngineError, PCs, Idle
  <2> QED
    BY <1>10, <2>2, UnchangedTypes DEF EngineError
<1>11. CASE SelectFresh
  <2>1. PICK kept \in Capped(UnseenFingerprints(PR, found)) :
          /\ fresh' = kept
          /\ unposted' = UnseenFingerprints(PR, found) \ kept
    BY <1>11 DEF SelectFresh
  <2>2. UnseenFingerprints(PR, found) \subseteq Fingerprints
    BY DEF UnseenFingerprints, WorkerTypeOK
  <2>3. kept \subseteq Fingerprints
    BY <2>1, <2>2 DEF Capped
  <2>4. WorkerTypeOK'
    BY <1>11, <2>1, <2>2, <2>3, UnchangedTypes, RowType
    DEF SelectFresh, WorkerTypeOK, PCs, Idle
  <2> QED
    BY <1>11, <2>4, UnchangedTypes DEF SelectFresh
<1>12. CASE PostInline
  <2>1. PICK fp \in fresh : /\ fresh' = fresh \ {fp}
                            /\ PostAccepted(fp) \/ PostRejected(fp)
    BY <1>12 DEF PostInline
  <2>2. fp \in Fingerprints /\ pc \notin Idle
    BY <1>12 DEF PostInline, WorkerTypeOK, Idle
  <2>3. DOMAIN jobs' = DOMAIN jobs
    BY <1>12, UnchangedTypes DEF PostInline
  <2>4. ASSUME Comment(fp) PROVE ForgeTypeOK'
    BY <2>2, <2>3, <2>4, RowType DEF Comment, ForgeTypeOK
  <2>5. ForgeTypeOK' /\ HistoryTypeOK'
    BY <2>1, <2>3, <2>4, SufferType, UnchangedTypes
    DEF PostAccepted, PostRejected, ForgeRefuses, ResponseLost, historyVars
  <2>6. WorkerTypeOK'
    <3>1. /\ ctx' = ctx /\ job' = job /\ st' = st /\ found' = found
          /\ fresh' \subseteq fresh
      BY <1>12, <2>1 DEF PostInline
    <3>2. \/ pc' = "record" /\ cur' = {fp} /\ unposted' = unposted
          \/ pc' = "post" /\ cur' = cur /\ unposted' = unposted \cup {fp}
      BY <1>12, <2>1 DEF PostInline, PostAccepted, PostRejected
    <3> QED
      BY <2>2, <2>3, <3>1, <3>2, RowType DEF WorkerTypeOK, PCs, Idle
  <2> QED
    BY <1>12, <2>5, <2>6, UnchangedTypes DEF PostInline
<1>13. CASE Record
  <2>1. PICK fp \in cur : RecordFingerprint(PR, fp)
    BY <1>13 DEF Record
  <2>2. StoreTypeOK' /\ DOMAIN jobs' = DOMAIN jobs
    BY <1>13, <2>1, RowType
    DEF Record, RecordFingerprint, StoreTypeOK, WorkerTypeOK, Idle
  <2>3. WorkerTypeOK'
    BY <1>13, <2>2, RowType DEF Record, WorkerTypeOK, PCs, Idle
  <2> QED
    BY <1>13, <2>2, <2>3, UnchangedTypes DEF Record
<1>14. CASE PostedAll
  <2>1. pc \notin Idle
    BY <1>14 DEF PostedAll, Idle
  <2>2. WorkerTypeOK'
    BY <1>14, <2>1, GotoType, UnchangedTypes DEF PostedAll, PCs, Idle
  <2> QED
    BY <1>14, <2>2, UnchangedTypes DEF PostedAll
<1>. DEFINE text == [cycle |-> Pass, head |-> Row.head, listed |-> unposted]
<1>15. ASSUME pc = "summary", WriteSummary, DOMAIN jobs' = DOMAIN jobs
       PROVE  ForgeTypeOK' /\ SummaryID \in Nat /\ Pass \in Nat
  <2>1. Pass \in Nat /\ st.summaryCommentID \in Nat
    BY DEF Pass, WorkerTypeOK, PRRow
  <2>2. text \in Summary
    BY <1>15, <2>1, RowType DEF Summary, WorkerTypeOK, Idle
  <2>3. summaries[PR] \in Seq(Summary)
    BY <1>15, RowType DEF ForgeTypeOK, Idle
  <2>4. /\ Append(summaries[PR], text) \in Seq(Summary)
        /\ [summaries[PR] EXCEPT ![st.summaryCommentID] = text] \in Seq(Summary)
    BY <2>2, <2>3, <2>1, ExceptInSeq
  <2>5. summaries' \in [PRs -> Seq(Summary)]
    BY <1>15, <2>4, RowType DEF WriteSummary, ForgeTypeOK, Idle
  <2>6. SummaryID \in Nat
    BY <2>1, <2>3 DEF SummaryID
  <2> QED
    BY <1>15, <2>1, <2>5, <2>6 DEF WriteSummary, ForgeTypeOK
<1>16. CASE PostSummary
  <2>1. ForgeTypeOK' /\ SummaryID \in Nat /\ Pass \in Nat
    BY <1>15, <1>16, UnchangedTypes DEF PostSummary
  <2>2. st' \in PRRow
    BY <1>16, <2>1 DEF PostSummary, WorkerTypeOK, PRRow
  <2>3. WorkerTypeOK'
    BY <1>16, <2>2, UnchangedTypes, RowType DEF PostSummary, WorkerTypeOK, PCs, Idle
  <2> QED
    BY <1>16, <2>1, <2>3, UnchangedTypes DEF PostSummary
<1>17. CASE SummaryLost
  <2>1. ForgeTypeOK'
    BY <1>15, <1>17, UnchangedTypes DEF SummaryLost
  <2>2. HistoryTypeOK'
    BY <1>17, SufferType, UnchangedTypes DEF SummaryLost, ResponseLost
  <2>3. WorkerTypeOK'
    BY <1>17, GotoType, UnchangedTypes DEF SummaryLost, PCs, Idle
  <2> QED
    BY <1>17, <2>1, <2>2, <2>3, UnchangedTypes DEF SummaryLost
<1>18. CASE SaveSummary
  <2>1. StoreTypeOK' /\ DOMAIN jobs' = DOMAIN jobs
    BY <1>18, SaveType, RowType DEF SaveSummary, WorkerTypeOK, Idle
  <2>2. WorkerTypeOK'
    BY <1>18, <2>1, GotoType DEF SaveSummary, PCs, Idle
  <2> QED
    BY <1>18, <2>1, <2>2, UnchangedTypes DEF SaveSummary
<1>19. CASE SaveCycle
  <2>1. [st EXCEPT !.cycle = Pass, !.lastReviewedSHA = Row.head] \in PRRow
    <3>1. Pass \in Nat /\ Row.head \in Heads
      BY <1>19, RowType DEF SaveCycle, WorkerTypeOK, PRRow, Pass, Idle
    <3>2. \A n \in Nat, h \in Heads :
            [st EXCEPT !.cycle = n, !.lastReviewedSHA = h] \in PRRow
      BY DEF WorkerTypeOK, PRRow
    <3> QED
      BY <3>1, <3>2
  <2>2. StoreTypeOK' /\ DOMAIN jobs' = DOMAIN jobs
    BY <1>19, <2>1, SaveType, RowType DEF SaveCycle, Idle
  <2>3. WorkerTypeOK'
    BY <1>19, <2>2, GotoType DEF SaveCycle, PCs, Idle
  <2>4. HistoryTypeOK'
    BY <1>19, <2>2, RowType DEF SaveCycle, HistoryTypeOK, Idle
  <2> QED
    BY <1>19, <2>2, <2>3, <2>4, UnchangedTypes DEF SaveCycle
<1>20. CASE PostNotice
  <2>1. DOMAIN jobs' = DOMAIN jobs
    BY <1>20, UnchangedTypes DEF PostNotice
  <2>2. ForgeTypeOK'
    BY <1>20, <2>1, RowType DEF PostNotice, Announced, ForgeTypeOK, Idle
  <2>3. HistoryTypeOK'
    BY <1>20, <2>1, SufferType, UnchangedTypes DEF PostNotice, ResponseLost
  <2>4. WorkerTypeOK'
    BY <1>20, <2>1, GotoType DEF PostNotice, PCs, Idle
  <2> QED
    BY <1>20, <2>2, <2>3, <2>4, UnchangedTypes DEF PostNotice
<1>21. CASE SaveNotice
  <2>1. [st EXCEPT !.budgetNoticePosted = TRUE] \in PRRow
    BY DEF WorkerTypeOK, PRRow
  <2>2. StoreTypeOK' /\ DOMAIN jobs' = DOMAIN jobs
    BY <1>21, <2>1, SaveType, RowType DEF SaveNotice, Idle
  <2>3. WorkerTypeOK'
    BY <1>21, <2>2, GotoType DEF SaveNotice, PCs, Idle
  <2> QED
    BY <1>21, <2>2, <2>3, UnchangedTypes DEF SaveNotice
<1>22. CASE StoreError
  <2>1. pc \notin Idle
    BY <1>22 DEF StoreError, Idle
  <2>2. HistoryTypeOK'
    BY <1>22, SufferType, UnchangedTypes DEF StoreError, StoreFails
  <2>3. WorkerTypeOK'
    BY <1>22, <2>1, GotoType, UnchangedTypes DEF StoreError, PCs, Idle
  <2> QED
    BY <1>22, <2>2, <2>3, UnchangedTypes DEF StoreError
<1>23. CASE ForgeError
  <2>1. pc \notin Idle
    BY <1>23 DEF ForgeError, Idle
  <2>2. WorkerTypeOK'
    BY <1>23, <2>1, GotoType, UnchangedTypes DEF ForgeError, PCs, Idle
  <2> QED
    BY <1>23, <2>2, UnchangedTypes DEF ForgeError, ForgeRefuses
<1>24. ASSUME pc \notin Idle, NEW s \in JobStates, TryFinish(s)
       PROVE  StoreTypeOK' /\ HistoryTypeOK' /\ DOMAIN jobs' = DOMAIN jobs
  <2>1. StoreTypeOK' /\ DOMAIN jobs' = DOMAIN jobs
    BY <1>24, RowType, FinishEffect, UnchangedTypes DEF TryFinish
  <2> QED
    BY <1>24, <2>1, SufferType, UnchangedTypes DEF TryFinish, StoreFails
<1>25. CASE Succeed
  <2>1. StoreTypeOK' /\ HistoryTypeOK' /\ DOMAIN jobs' = DOMAIN jobs
    BY <1>24, <1>25 DEF Succeed, JobStates, Idle
  <2> QED
    BY <1>25, <2>1, EndJobType, UnchangedTypes DEF Succeed
<1>26. CASE Fail
  <2>1. StoreTypeOK' /\ HistoryTypeOK' /\ DOMAIN jobs' = DOMAIN jobs
    BY <1>24, <1>26 DEF Fail, JobStates, Idle
  <2>2. WorkerTypeOK'
    BY <1>26, <2>1, GotoType DEF Fail, PCs, Idle
  <2> QED
    BY <1>26, <2>1, <2>2, UnchangedTypes DEF Fail
<1>27. CASE Sleep
  BY <1>27, EndJobType, UnchangedTypes DEF Sleep
<1>28. CASE Report
  <2>1. DOMAIN jobs' = DOMAIN jobs
    BY <1>28, UnchangedTypes DEF Report
  <2>2. ForgeTypeOK'
    BY <1>28, <2>1, RowType DEF Report, ForgeTypeOK, Idle
  <2>3. HistoryTypeOK'
    BY <1>28, <2>1, SufferType, UnchangedTypes DEF Report, ResponseLost, ForgeRefuses
  <2> QED
    BY <1>28, <2>2, <2>3, EndJobType, UnchangedTypes DEF Report
<1>29. CASE Stop
  <2>1. HistoryTypeOK'
    BY <1>29, SufferType, UnchangedTypes DEF Stop
  <2>2. WorkerTypeOK'
    BY <1>29, UnchangedTypes DEF Stop, WorkerTypeOK
  <2> QED
    BY <1>29, <2>1, <2>2, UnchangedTypes DEF Stop
<1>30. CASE Crash
  <2>1. HistoryTypeOK'
    BY <1>30, SufferType, UnchangedTypes DEF Crash
  <2>2. WorkerTypeOK'
    BY <1>30, ZeroRow DEF Crash, NoLocals, WorkerTypeOK, PCs, Idle
  <2> QED
    BY <1>30, <2>1, <2>2, UnchangedTypes DEF Crash
<1>31. CASE Restart
  <2>1. WorkerTypeOK'
    BY <1>31 DEF Restart, WorkerTypeOK, PCs, Idle
  <2> QED
    BY <1>31, <2>1, UnchangedTypes DEF Restart
<1>32. CASE UNCHANGED vars
  <2>1. WorkerTypeOK'
    BY <1>32, UnchangedTypes DEF vars, workerVars, WorkerTypeOK
  <2> QED
    BY <1>32, <2>1, UnchangedTypes DEF vars
<1> QED
  BY <1>1, <1>2, <1>3, <1>4, <1>5, <1>6, <1>7, <1>8, <1>9, <1>10, <1>11, <1>12,
     <1>13, <1>14, <1>16, <1>17, <1>18, <1>19, <1>20, <1>21, <1>22, <1>23,
     <1>25, <1>26, <1>27, <1>28, <1>29, <1>30, <1>31, <1>32
  DEF Next, WorkerStep

\* The tables, the worker's locals and the forge always hold values of their
\* types; in particular a busy worker holds a job that is in the table.
THEOREM TypeCorrect == Spec => []TypeOK
  BY InitType, TypeStep, PTL DEF Spec
----------------------------------------------------------------------------
(* The queue: order and attempts *)

\* The steps of review: the held job, its row and the context stay.
ReviewStep ==
  /\ pc \notin Idle \cup {"succeed", "fail", "sleep", "report"}
  /\ pc' \in PCs \ (Idle \cup {"reset", "sleep", "report"})
  /\ UNCHANGED <<jobs, job, ctx>>
  /\ resets' \subseteq resets \cup {job}
  /\ spent' \subseteq spent \cup {job}
  /\ faults' \in {faults, faults + 1}

\* The steps that give the job up without writing its row.
GiveUpStep ==
  /\ pc \in {"sleep", "report"}
  /\ pc' \in Idle
  /\ job' = 0
  /\ UNCHANGED <<jobs, ctx, resets, spent>>
  /\ faults' \in {faults, faults + 1}

\* The steps between two jobs.
IdleStep ==
  /\ pc \in Idle
  /\ pc' \in Idle
  /\ UNCHANGED <<jobs, job, resets, spent>>
  /\ faults' \in {faults, faults + 1}

LEMMA ReviewSteps ==
  ASSUME StartReview \/ ReadState \/ FetchDiff \/ EngineReview \/ EngineError
           \/ SelectFresh \/ PostInline \/ Record \/ PostedAll \/ PostSummary
           \/ SummaryLost \/ SaveSummary \/ SaveCycle \/ PostNotice
           \/ SaveNotice \/ StoreError \/ ForgeError
  PROVE  ReviewStep
<1> USE DEF ReviewStep, Goto, Return, localVars, storeVars, historyVars, PCs, Idle,
            Suffer, StoreFails, ForgeRefuses, ResponseLost, SavePRState
<1>1. CASE StartReview
  BY <1>1 DEF StartReview, NewBudget, ResetPRState
<1>2. CASE ReadState
  BY <1>2 DEF ReadState, Decision
<1>3. CASE FetchDiff
  BY <1>3 DEF FetchDiff
<1>4. CASE EngineReview
  BY <1>4 DEF EngineReview
<1>5. CASE EngineError
  BY <1>5 DEF EngineError
<1>6. CASE SelectFresh
  BY <1>6 DEF SelectFresh
<1>7. CASE PostInline
  BY <1>7 DEF PostInline, PostAccepted, PostRejected
<1>8. CASE Record
  BY <1>8 DEF Record, RecordFingerprint
<1>9. CASE PostedAll
  BY <1>9 DEF PostedAll
<1>10. CASE PostSummary
  BY <1>10 DEF PostSummary
<1>11. CASE SummaryLost
  BY <1>11 DEF SummaryLost
<1>12. CASE SaveSummary
  BY <1>12 DEF SaveSummary
<1>13. CASE SaveCycle
  BY <1>13 DEF SaveCycle
<1>14. CASE PostNotice
  BY <1>14 DEF PostNotice
<1>15. CASE SaveNotice
  BY <1>15 DEF SaveNotice
<1>16. CASE StoreError
  BY <1>16 DEF StoreError
<1>17. CASE ForgeError
  BY <1>17 DEF ForgeError
<1> QED
  BY <1>1, <1>2, <1>3, <1>4, <1>5, <1>6, <1>7, <1>8, <1>9, <1>10, <1>11, <1>12,
     <1>13, <1>14, <1>15, <1>16, <1>17

\* What a step can do to the queue and to the hold on a job.
LEMMA StepShapes ==
  ASSUME [Next]_vars
  PROVE  \/ \E d \in Deliveries : Deliver(d)
         \/ Claim \/ Succeed \/ Fail \/ Stop \/ Crash
         \/ ReviewStep \/ GiveUpStep \/ IdleStep
         \/ UNCHANGED vars
<1> USE DEF Goto, localVars, storeVars, historyVars, Idle, Suffer, StoreFails,
            ForgeRefuses, ResponseLost
<1>1. CASE ClaimNothing \/ Wake \/ Leave \/ Restart
  BY <1>1 DEF ClaimNothing, Wake, Leave, Restart, IdleStep
<1>2. CASE Sleep \/ Report
  BY <1>2 DEF Sleep, Report, EndJob, GiveUpStep
<1> HIDE DEF Goto, localVars, storeVars, historyVars, Idle, Suffer, StoreFails,
             ForgeRefuses, ResponseLost
<1> QED
  BY <1>1, <1>2, ReviewSteps DEF Next, WorkerStep

LEMMA QueueInit == Init => QueueInv
  BY WorkerAssumption
  DEF Init, StoreInit, QueueInv, SettledInOrder, HeldJob, AttemptsBoundedByFaults,
      AttemptsLeft, Idle

LEMMA QueueStep == TypeOK /\ TypeOK' /\ QueueInv /\ [Next]_vars => QueueInv'
<1> SUFFICES ASSUME TypeOK, TypeOK', QueueInv, [Next]_vars PROVE QueueInv'
  OBVIOUS
<1>1. /\ jobs \in Seq(JobRow)
      /\ \A id \in DOMAIN jobs : jobs[id] \in JobRow /\ id \in Nat \ {0}
      /\ MaxAttempts \in Nat \ {0} /\ faults \in Nat
      /\ pc \in Idle <=> job = 0
  BY WorkerAssumption DEF TypeOK, StoreTypeOK, WorkerTypeOK, HistoryTypeOK
<1>2. ASSUME NEW d \in Deliveries, Deliver(d) PROVE QueueInv'
  <2>1. /\ DOMAIN jobs \subseteq DOMAIN jobs'
        /\ \A k \in DOMAIN jobs : jobs'[k] = jobs[k]
        /\ \A k \in DOMAIN jobs' : k \notin DOMAIN jobs =>
             jobs'[k].state = "queued" /\ jobs'[k].attempts = 0
    BY <1>2, EnqueueEffect, WorkerAssumption DEF Deliver, Delivery, TypeOK
  <2>2. pc' = pc /\ job' = job /\ ctx' = ctx /\ faults' = faults
    BY <1>2 DEF Deliver, workerVars, historyVars
  <2>3. SettledInOrder'
    <3> SUFFICES ASSUME NEW id \in DOMAIN jobs', jobs'[id].attempts > 0,
                        NEW k \in 1..(id - 1)
                 PROVE  jobs'[k].state \in {"done", "dead"}
      BY DEF SettledInOrder
    <3>1. id \in DOMAIN jobs
      BY <2>1
    <3>2. k \in DOMAIN jobs
      BY <1>1, <3>1
    <3> QED
      BY <2>1, <3>1, <3>2 DEF QueueInv, SettledInOrder
  <2>4. HeldJob'
    BY <2>1, <2>2 DEF QueueInv, HeldJob, TypeOK, WorkerTypeOK
  <2>5. AttemptsBoundedByFaults'
    BY <1>1, <2>1, <2>2 DEF QueueInv, AttemptsBoundedByFaults
  <2>6. AttemptsLeft'
    BY <1>1, <2>1, <2>2 DEF QueueInv, AttemptsLeft
  <2> QED
    BY <2>3, <2>4, <2>5, <2>6 DEF QueueInv
<1>3. CASE Claim
  <2>1. PICK id \in DOMAIN jobs : ClaimNext(id) /\ job' = id
    BY <1>3 DEF Claim
  <2>2. /\ DOMAIN jobs' = DOMAIN jobs
        /\ \A k \in DOMAIN jobs : k # id => jobs'[k] = jobs[k]
        /\ jobs'[id].state = "running"
        /\ jobs'[id].attempts = jobs[id].attempts + 1
        /\ jobs[id].state \in Runnable
        /\ \A k \in 1..(id - 1) : jobs[k].state \notin Runnable
    BY <1>1, <2>1, ClaimEffect DEF TypeOK, JobRow
  <2>3. pc \in Idle /\ pc' = "reset" /\ ctx = "live" /\ ctx' = ctx /\ faults' = faults
    BY <1>3 DEF Claim, Live, historyVars, Idle
  <2>4. \A k \in 1..(id - 1) : k \in DOMAIN jobs /\ jobs'[k].state \in {"done", "dead"}
    <3> SUFFICES ASSUME NEW k \in 1..(id - 1)
                 PROVE  k \in DOMAIN jobs /\ jobs'[k].state \in {"done", "dead"}
      OBVIOUS
    <3>1. k \in DOMAIN jobs /\ k # id
      BY <1>1
    <3>2. jobs[k].state \in JobStates /\ jobs[k].state \notin Runnable
      BY <1>1, <2>2, <3>1 DEF JobRow
    <3> QED
      BY <2>2, <3>1, <3>2 DEF JobStates, Runnable
  <2>5. SettledInOrder'
    <3> SUFFICES ASSUME NEW i \in DOMAIN jobs', jobs'[i].attempts > 0,
                        NEW k \in 1..(i - 1)
                 PROVE  jobs'[k].state \in {"done", "dead"}
      BY DEF SettledInOrder
    <3>1. CASE i = id
      BY <2>4, <3>1
    <3>2. CASE i # id
      <4>1. k \in DOMAIN jobs /\ jobs[k].state \in {"done", "dead"}
        BY <1>1, <2>2, <3>2 DEF QueueInv, SettledInOrder
      <4> QED
        BY <2>2, <4>1 DEF Runnable
    <3> QED
      BY <3>1, <3>2
  <2>6. HeldJob'
    BY <1>1, <2>1, <2>2 DEF HeldJob, JobRow
  <2>7. jobs[id].attempts < MaxAttempts + faults /\ jobs[id].attempts \in Nat
    BY <1>1, <2>2, <2>3 DEF QueueInv, AttemptsLeft, JobRow
  <2>8. AttemptsBoundedByFaults'
    BY <1>1, <2>2, <2>3, <2>7 DEF QueueInv, AttemptsBoundedByFaults
  <2>9. AttemptsLeft'
    BY <1>1, <2>1, <2>2, <2>3, <2>7 DEF QueueInv, AttemptsLeft, Idle
  <2> QED
    BY <2>5, <2>6, <2>8, <2>9 DEF QueueInv
<1>4. ASSUME NEW s \in {"done", "failed", "dead"}, TryFinish(s), pc \in {"succeed", "fail"},
             s = "failed" => jobs[job].attempts < MaxAttempts,
             \/ pc' \in {"sleep", "report"} /\ job' = job
             \/ pc' \in Idle /\ job' = 0,
             ctx' = ctx
      PROVE  QueueInv'
  <2>1. /\ job \in DOMAIN jobs
        /\ jobs[job].state = "running"
        /\ jobs[job].attempts \in Nat /\ jobs[job].attempts > 0
    BY <1>1, <1>4 DEF QueueInv, HeldJob, TypeOK, WorkerTypeOK, Idle, JobRow
  <2>2. CASE Live /\ Finish(job, s) /\ UNCHANGED historyVars
    <3>1. /\ DOMAIN jobs' = DOMAIN jobs
          /\ \A k \in DOMAIN jobs : k # job => jobs'[k] = jobs[k]
          /\ jobs'[job].state = s /\ jobs'[job].attempts = jobs[job].attempts
          /\ faults' = faults
      <4>1. s \in JobStates /\ jobs[job] \in JobRow
        BY <1>1, <1>4, <2>1 DEF JobStates
      <4>2. /\ DOMAIN jobs' = DOMAIN jobs
            /\ \A k \in DOMAIN jobs : k # job => jobs'[k] = jobs[k]
            /\ jobs'[job] = [jobs[job] EXCEPT !.state = s]
        BY <2>1, <2>2, <4>1, FinishEffect DEF TypeOK
      <4> QED
        BY <2>2, <4>1, <4>2 DEF JobRow, historyVars
    <3>2. SettledInOrder'
      <4> SUFFICES ASSUME NEW i \in DOMAIN jobs', jobs'[i].attempts > 0,
                          NEW k \in 1..(i - 1)
                   PROVE  jobs'[k].state \in {"done", "dead"}
        BY DEF SettledInOrder
      <4>1. k \in DOMAIN jobs /\ jobs[k].state \in {"done", "dead"}
        BY <1>1, <3>1 DEF QueueInv, SettledInOrder
      <4> QED
        BY <2>1, <3>1, <4>1
    <3>3. HeldJob'
      BY <1>4, <2>1, <3>1 DEF HeldJob
    <3>4. AttemptsBoundedByFaults'
      BY <1>1, <2>1, <3>1 DEF QueueInv, AttemptsBoundedByFaults
    <3>5. AttemptsLeft'
      BY <1>1, <1>4, <2>1, <3>1 DEF QueueInv, AttemptsLeft, Runnable
    <3> QED
      BY <3>2, <3>3, <3>4, <3>5 DEF QueueInv
  <2>3. CASE StoreFails /\ UNCHANGED storeVars
    <3>1. jobs' = jobs
      BY <2>3 DEF storeVars
    <3>2. \/ faults' = faults /\ ctx = "cancelled"
          \/ faults' = faults + 1
      BY <2>3 DEF StoreFails, Live, Suffer, historyVars, TypeOK, WorkerTypeOK
    <3>3. SettledInOrder' /\ HeldJob'
      BY <1>4, <2>1, <3>1 DEF QueueInv, SettledInOrder, HeldJob
    <3>4. AttemptsBoundedByFaults'
      BY <1>1, <3>1, <3>2 DEF QueueInv, AttemptsBoundedByFaults, JobRow
    <3>5. AttemptsLeft'
      BY <1>1, <1>4, <3>1, <3>2 DEF QueueInv, AttemptsLeft, AttemptsBoundedByFaults, JobRow
    <3> QED
      BY <3>3, <3>4, <3>5 DEF QueueInv
  <2> QED
    BY <1>4, <2>2, <2>3 DEF TryFinish
<1>5. CASE Succeed
  BY <1>4, <1>5 DEF Succeed, EndJob, Idle
<1>6. CASE Fail
  BY <1>4, <1>6 DEF Fail, Goto, localVars, Row
<1>7. CASE Stop \/ Crash
  <2>1. jobs' = jobs /\ faults' = faults + 1
    BY <1>7 DEF Stop, Crash, Suffer, storeVars
  <2>2. SettledInOrder' /\ AttemptsBoundedByFaults'
    BY <1>1, <2>1 DEF QueueInv, SettledInOrder, AttemptsBoundedByFaults, JobRow
  <2>3. HeldJob'
    BY <1>7, <2>1 DEF Stop, Crash, QueueInv, HeldJob, Idle
  <2>4. AttemptsLeft'
    BY <1>1, <2>1 DEF QueueInv, AttemptsLeft, AttemptsBoundedByFaults, JobRow
  <2> QED
    BY <2>2, <2>3, <2>4 DEF QueueInv
<1>8. CASE ReviewStep \/ GiveUpStep \/ IdleStep \/ UNCHANGED vars
  <2>1. jobs' = jobs /\ faults' \in {faults, faults + 1}
    BY <1>8 DEF ReviewStep, GiveUpStep, IdleStep, vars, storeVars, historyVars
  <2>2. SettledInOrder' /\ AttemptsBoundedByFaults'
    BY <1>1, <2>1 DEF QueueInv, SettledInOrder, AttemptsBoundedByFaults, JobRow
  <2>3. HeldJob'
    BY <1>8, <2>1
    DEF ReviewStep, GiveUpStep, IdleStep, vars, workerVars, QueueInv, HeldJob
  <2>4. AttemptsLeft'
    BY <1>1, <1>8, <2>1
    DEF ReviewStep, GiveUpStep, IdleStep, vars, workerVars, QueueInv, AttemptsLeft, JobRow
  <2> QED
    BY <2>2, <2>3, <2>4 DEF QueueInv
<1> QED
  BY <1>2, <1>3, <1>5, <1>6, <1>7, <1>8, StepShapes

\* The queue's invariants hold together, and no step leads out of them.
THEOREM QueueCorrect == Spec => []QueueInv
<1>1. Init => QueueInv
  BY QueueInit
<1>2. TypeOK /\ TypeOK' /\ QueueInv /\ [Next]_vars => QueueInv'
  BY QueueStep
<1> QED
  BY <1>1, <1>2, TypeCorrect, PTL DEF Spec

\* Strict FIFO: no job is tried before every job ahead of it is settled.
THEOREM FirstInFirstOut == Spec => []SettledInOrder
<1>1. QueueInv => SettledInOrder
  BY DEF QueueInv
<1> QED
  BY <1>1, QueueCorrect, PTL

\* A job is tried MaxAttempts times, and once more per fault at most.
THEOREM TriesBounded == Spec => []AttemptsBoundedByFaults
<1>1. QueueInv => AttemptsBoundedByFaults
  BY DEF QueueInv
<1> QED
  BY <1>1, QueueCorrect, PTL
----------------------------------------------------------------------------
(* The budget, the summaries and the fingerprints *)

dataVars == <<prReviews, postedComments, inline, summaries, notices>>

\* Where the local copy of the PR's row is in use.
InUse == Reviewing \cup Saving \cup Noticing

\* Steps that touch no data: those that leave or never entered a review, ...
QuietStep ==
  /\ UNCHANGED <<dataVars, resets, spent>>
  /\ pc' \notin InUse
  /\ faults' \in {faults, faults + 1}
  /\ pc \in {"record", "saveSummary", "saveNotice"} /\ Live => faults' = faults + 1

\* ... those of someone else, ...
OtherStep ==
  /\ UNCHANGED <<dataVars, pc, st, job, found, fresh, unposted, cur>>
  /\ pc \notin Idle => jobs'[job] = jobs[job]
  /\ faults' = faults + 1 \/ UNCHANGED <<ctx, faults>>

\* ... and those of the review itself.
OnwardStep ==
  /\ UNCHANGED <<dataVars, st, job, jobs, faults>>
  /\ {pc, pc'} \subseteq Reviewing \ {"record"}
  /\ pc' \in {"post", "summary"} => SelectFresh \/ PostedAll

LEMMA DataShapes ==
  ASSUME TypeOK, [Next]_vars
  PROVE  \/ QuietStep \/ OtherStep \/ OnwardStep
         \/ ReadState
         \/ pc = "reset" /\ MustReset /\ NewBudget(PR) /\ Goto("readState")
         \/ PostInline \/ Record \/ PostSummary \/ SummaryLost
         \/ SaveSummary \/ SaveCycle \/ PostNotice \/ SaveNotice
<1> USE DEF dataVars, InUse, Reviewing, Saving, Noticing, historyVars, Suffer, StoreFails,
            ForgeRefuses, ResponseLost
<1>1. ASSUME NEW d \in Deliveries, Deliver(d) PROVE OtherStep
  <2>1. \A k \in DOMAIN jobs : jobs'[k] = jobs[k]
    BY <1>1, EnqueueEffect, WorkerAssumption DEF Deliver, Delivery, TypeOK
  <2> QED
    BY <1>1, <2>1
    DEF Deliver, Enqueue, workerVars, forgeVars, OtherStep, TypeOK, WorkerTypeOK
<1>2. CASE Stop \/ UNCHANGED vars
  BY <1>2 DEF Stop, vars, storeVars, workerVars, forgeVars, OtherStep
<1>3. CASE Claim
  BY <1>3 DEF Claim, ClaimNext, forgeVars, QuietStep
<1>4. CASE ClaimNothing \/ Wake \/ Leave \/ Restart \/ Crash
  BY <1>4 DEF ClaimNothing, Wake, Leave, Restart, Crash, Goto, storeVars, forgeVars, QuietStep
<1>5. CASE Succeed \/ Fail
  BY <1>5
  DEF Succeed, Fail, TryFinish, Finish, EndJob, Goto, storeVars, forgeVars, QuietStep
<1>6. CASE Sleep \/ Report
  BY <1>6 DEF Sleep, Report, EndJob, storeVars, forgeVars, QuietStep
<1>7. CASE StoreError \/ ForgeError \/ EngineError
  BY <1>7
  DEF StoreError, ForgeError, EngineError, Return, storeVars, forgeVars, QuietStep
<1>8. CASE StartReview
  BY <1>8 DEF StartReview, Goto, Return, storeVars, forgeVars, QuietStep
<1>9. CASE FetchDiff
  BY <1>9
  DEF FetchDiff, Goto, Return, localVars, storeVars, forgeVars, QuietStep, OnwardStep
<1>10. CASE EngineReview \/ SelectFresh \/ PostedAll
  BY <1>10
  DEF EngineReview, SelectFresh, PostedAll, Goto, localVars, storeVars, forgeVars, OnwardStep
<1> QED
  BY <1>1, <1>2, <1>3, <1>4, <1>5, <1>6, <1>7, <1>8, <1>9, <1>10
  DEF Next, WorkerStep

\* The invariants of the data alone.
StoredInv ==
  BudgetHolds /\ PassesPublished /\ RecordedMeansPosted /\ SummaryTracked

\* The invariants of the review in progress.
ReviewInv ==
  SnapshotFresh /\ WithinBudget /\ SummaryInHand /\ CommentInHand

LEMMA BudgetParts == BudgetInv <=> StoredInv /\ ReviewInv
  BY DEF BudgetInv, StoredInv, ReviewInv

LEMMA PartsNext == StoredInv' /\ ReviewInv' => BudgetInv'
  BY DEF BudgetInv, StoredInv, ReviewInv

LEMMA BudgetInit == Init => BudgetInv
<1> SUFFICES ASSUME Init PROVE BudgetInv
  OBVIOUS
<1>1. StoredInv
  BY WorkerAssumption
  DEF Init, StoreInit, ZeroPRState, StoredInv, BudgetHolds, PassesPublished,
      RecordedMeansPosted, SummaryTracked
<1>2. ReviewInv
  BY DEF Init, ReviewInv, SnapshotFresh, WithinBudget, SummaryInHand, CommentInHand,
         Reviewing, Saving, Noticing
<1> QED
  BY <1>1, <1>2, BudgetParts

\* Without a write to the data its invariants stand.
LEMMA StoredUnchanged ==
  ASSUME StoredInv, UNCHANGED dataVars
  PROVE  StoredInv'
<1> USE DEF dataVars
<1>1. BudgetHolds'
  BY DEF StoredInv, BudgetHolds
<1>2. PassesPublished'
  BY DEF StoredInv, PassesPublished
<1>3. RecordedMeansPosted'
  BY DEF StoredInv, RecordedMeansPosted
<1>4. SummaryTracked'
  BY DEF StoredInv, SummaryTracked
<1> QED
  BY <1>1, <1>2, <1>3, <1>4 DEF StoredInv

\* Outside a review there is nothing to say about it.
LEMMA ReviewOver ==
  ASSUME pc' \notin InUse
  PROVE  ReviewInv'
  BY DEF ReviewInv, SnapshotFresh, WithinBudget, SummaryInHand, CommentInHand,
         InUse, Reviewing, Saving, Noticing

\* What writing the summary does to the comments of the PR.
LEMMA WriteEffect ==
  ASSUME TypeOK, BudgetInv, pc = "summary", WriteSummary
  PROVE  /\ \A p \in PRs : p # PR => summaries'[p] = summaries[p]
         /\ \A i \in DOMAIN summaries[PR] :
              /\ i \in DOMAIN summaries'[PR]
              /\ \/ summaries'[PR][i] = summaries[PR][i]
                 \/ summaries[PR][i].cycle = Pass /\ summaries'[PR][i].cycle = Pass
         /\ \A i \in DOMAIN summaries'[PR] :
              \/ i \in DOMAIN summaries[PR] /\ summaries'[PR][i] = summaries[PR][i]
              \/ summaries'[PR][i].cycle = Pass
         /\ SummaryID \in DOMAIN summaries'[PR]
         /\ summaries'[PR][SummaryID].cycle = Pass
         /\ summaries'[PR][SummaryID].head = Row.head
         /\ UNCHANGED <<inline, notices>>
<1> DEFINE text == [cycle |-> Pass, head |-> Row.head, listed |-> unposted]
<1>1. PR \in PRs /\ summaries[PR] \in Seq(Summary) /\ summaries \in [PRs -> Seq(Summary)]
  BY RowType DEF TypeOK, ForgeTypeOK, Idle
<1>2. st = prReviews[PR]
  BY DEF BudgetInv, SnapshotFresh
<1>3. CASE EditsSummary
  <2>1. /\ st.summaryCommentID \in DOMAIN summaries[PR]
        /\ summaries[PR][st.summaryCommentID].cycle = Pass
    BY <1>1, <1>2, <1>3 DEF EditsSummary, BudgetInv, SummaryTracked
  <2>2. /\ summaries' = [summaries EXCEPT ![PR][st.summaryCommentID] = text]
        /\ SummaryID = st.summaryCommentID
        /\ UNCHANGED <<inline, notices>>
    BY <1>3 DEF WriteSummary, SummaryID
  <2>3. text.cycle = Pass /\ text.head = Row.head
    OBVIOUS
  <2> HIDE DEF text
  <2> QED
    BY <1>1, <2>1, <2>2, <2>3
<1>4. CASE ~EditsSummary
  <2>1. /\ summaries' = [summaries EXCEPT ![PR] = Append(summaries[PR], text)]
        /\ SummaryID = Len(summaries[PR]) + 1
        /\ UNCHANGED <<inline, notices>>
    BY <1>4 DEF WriteSummary, SummaryID
  <2>2. summaries'[PR] = Append(summaries[PR], text)
    BY <1>1, <2>1
  <2>3. text.cycle = Pass /\ text.head = Row.head
    OBVIOUS
  <2> HIDE DEF text
  <2> QED
    BY <1>1, <2>1, <2>2, <2>3
<1> QED
  BY <1>3, <1>4
LEMMA BudgetStep == TypeOK /\ TypeOK' /\ BudgetInv /\ [Next]_vars => BudgetInv'
<1> SUFFICES ASSUME TypeOK, TypeOK', BudgetInv, [Next]_vars PROVE BudgetInv'
  OBVIOUS
<1>1. StoredInv /\ ReviewInv
  BY BudgetParts
<1>2. /\ prReviews \in [PRs -> PRRow]
      /\ postedComments \in [PRs -> SUBSET Fingerprints]
      /\ inline \in [PRs -> [Fingerprints -> Nat]]
      /\ summaries \in [PRs -> Seq(Summary)]
      /\ notices \in [PRs -> Nat]
      /\ st \in PRRow /\ MaxCycles \in Nat \ {0}
  BY WorkerAssumption DEF TypeOK, StoreTypeOK, WorkerTypeOK, ForgeTypeOK
<1>3. pc \notin Idle => PR \in PRs /\ Row.head \in Heads
  BY RowType
<1>4. CASE QuietStep
  BY <1>1, <1>4, StoredUnchanged, ReviewOver, PartsNext DEF QuietStep
<1>5. CASE OtherStep
  <2>1. pc \notin Idle => Row' = Row /\ PR' = PR
    BY <1>5 DEF OtherStep, Row, PR
  <2>2. pc \in InUse => pc \notin Idle
    BY DEF InUse, Reviewing, Saving, Noticing, Idle
  <2>3. ReviewInv'
    <3>1. CASE pc \in InUse
      BY <1>1, <1>5, <2>1, <2>2, <3>1
      DEF OtherStep, dataVars, ReviewInv, SnapshotFresh, WithinBudget, SummaryInHand,
          CommentInHand, Pass
    <3>2. CASE pc \notin InUse
      BY <1>5, <3>2, ReviewOver DEF OtherStep
    <3> QED
      BY <3>1, <3>2
  <2> QED
    BY <1>1, <1>5, <2>3, StoredUnchanged, PartsNext DEF OtherStep
<1>6. CASE OnwardStep
  <2>1. Row' = Row /\ PR' = PR
    BY <1>6 DEF OnwardStep, Row, PR
  <2>2. ReviewInv'
    BY <1>1, <1>6, <2>1
    DEF OnwardStep, dataVars, ReviewInv, SnapshotFresh, WithinBudget, SummaryInHand,
        CommentInHand, Reviewing, Saving, Noticing
  <2> QED
    BY <1>1, <1>6, <2>2, StoredUnchanged, PartsNext DEF OnwardStep
<1>7. CASE ReadState
  <2>1. UNCHANGED dataVars
    BY <1>7 DEF ReadState, storeVars, forgeVars, dataVars
  <2>2. CASE Return("succeed")
    BY <1>1, <2>1, <2>2, StoredUnchanged, ReviewOver, PartsNext
    DEF Return, InUse, Reviewing, Saving, Noticing
  <2>3. CASE /\ st' = prReviews[PR]
             /\ pc' = Decision(prReviews[PR])
             /\ pc' # "succeed"
             /\ UNCHANGED <<job, jobs>>
    <3>1. PR' = PR /\ PR \in PRs
      BY <1>3, <1>7, <2>3 DEF ReadState, PR, Row, Idle
    <3>2. prReviews[PR].cycle <= MaxCycles /\ prReviews[PR].cycle \in Nat
      BY <1>1, <1>2, <3>1 DEF StoredInv, BudgetHolds, PRRow
    <3>3. \/ pc' = "notice" /\ st'.cycle = MaxCycles
          \/ pc' = "fetch" /\ st'.cycle < MaxCycles
      BY <1>2, <2>3, <3>2 DEF Decision
    <3>4. ReviewInv'
      BY <2>1, <2>3, <3>1, <3>3
      DEF dataVars, ReviewInv, SnapshotFresh, WithinBudget, SummaryInHand, CommentInHand,
          Reviewing, Saving, Noticing
    <3> QED
      BY <1>1, <2>1, <3>4, StoredUnchanged, PartsNext
  <2> QED
    BY <1>7, <2>2, <2>3 DEF ReadState, storeVars
<1>8. CASE pc = "reset" /\ NewBudget(PR) /\ Goto("readState")
  <2>1. PR \in PRs
    BY <1>3, <1>8 DEF Idle
  <2>2. /\ \A p \in PRs : p # PR => /\ prReviews'[p] = prReviews[p]
                                   /\ postedComments'[p] = postedComments[p]
                                   /\ inline'[p] = inline[p]
                                   /\ summaries'[p] = summaries[p]
                                   /\ notices'[p] = notices[p]
        /\ prReviews'[PR] = ZeroPRState
        /\ postedComments'[PR] = {}
        /\ summaries'[PR] = <<>>
        /\ notices'[PR] = 0
    BY <1>2, <1>8, <2>1 DEF NewBudget, ResetPRState
  <2>3. BudgetHolds'
    <3> SUFFICES ASSUME NEW p \in PRs
                 PROVE  /\ prReviews'[p].cycle <= MaxCycles
                        /\ \A i \in DOMAIN summaries'[p] :
                             summaries'[p][i].cycle <= MaxCycles
                        /\ notices'[p] > 0 => prReviews'[p].cycle = MaxCycles
      BY DEF BudgetHolds
    <3>1. CASE p = PR
      BY <1>2, <2>2, <3>1 DEF ZeroPRState
    <3>2. CASE p # PR
      BY <1>1, <2>2, <3>2 DEF StoredInv, BudgetHolds
    <3> QED
      BY <3>1, <3>2
  <2>4. PassesPublished'
    BY <1>1, <2>2 DEF StoredInv, PassesPublished, ZeroPRState
  <2>5. RecordedMeansPosted'
    BY <1>1, <2>2 DEF StoredInv, RecordedMeansPosted
  <2>6. SummaryTracked'
    BY <1>1, <2>2 DEF StoredInv, SummaryTracked, ZeroPRState
  <2>7. ReviewInv'
    BY <1>8, ReviewOver DEF Goto, InUse, Reviewing, Saving, Noticing
  <2> QED
    BY <2>3, <2>4, <2>5, <2>6, <2>7, PartsNext DEF StoredInv
<1>9. CASE PostInline
  <2>1. PICK fp \in fresh : PostAccepted(fp) \/ PostRejected(fp)
    BY <1>9 DEF PostInline
  <2>2. /\ fp \in Fingerprints /\ PR \in PRs
        /\ PR' = PR /\ pc = "post" /\ st' = st
        /\ UNCHANGED <<prReviews, postedComments>>
    BY <1>3, <1>9 DEF PostInline, TypeOK, WorkerTypeOK, Idle, PR, Row, storeVars
  <2>3. UNCHANGED <<summaries, notices>>
    BY <2>1 DEF PostAccepted, PostRejected, Comment, forgeVars
  <2>4. \/ inline' = inline
        \/ inline' = [inline EXCEPT ![PR][fp] = @ + 1]
    BY <2>1 DEF PostAccepted, PostRejected, Comment, forgeVars
  <2>5. \A p \in PRs : \A g \in Fingerprints : inline'[p][g] >= inline[p][g]
    <3>1. CASE inline' = inline
      BY <1>2, <3>1
    <3>2. CASE inline' = [inline EXCEPT ![PR][fp] = @ + 1]
      <4> SUFFICES ASSUME NEW p \in PRs, NEW g \in Fingerprints
                   PROVE  inline'[p][g] >= inline[p][g]
        OBVIOUS
      <4>1. inline[p][g] \in Nat
        BY <1>2
      <4>2. inline'[p][g] = IF p = PR /\ g = fp THEN inline[p][g] + 1 ELSE inline[p][g]
        BY <1>2, <2>2, <3>2
      <4> QED
        BY <4>1, <4>2
    <3> QED
      BY <2>4, <3>1, <3>2
  <2>6. \/ pc' = "post"
        \/ pc' = "record" /\ cur' = {fp} /\ inline' = [inline EXCEPT ![PR][fp] = @ + 1]
    BY <2>1, <2>2 DEF PostAccepted, PostRejected, Comment
  <2>7. pc' = "record" => \A g \in cur' : inline'[PR][g] >= 1
    BY <1>2, <2>2, <2>6
  <2>8. RecordedMeansPosted'
    <3> SUFFICES ASSUME NEW p \in PRs, NEW g \in postedComments[p]
                 PROVE  inline'[p][g] >= 1
      BY <2>2 DEF RecordedMeansPosted
    <3>1. inline[p][g] >= 1 /\ g \in Fingerprints
      BY <1>1, <1>2 DEF StoredInv, RecordedMeansPosted
    <3>2. inline'[p][g] >= inline[p][g] /\ inline'[p][g] \in Nat /\ inline[p][g] \in Nat
      BY <1>2, <2>5, <3>1 DEF TypeOK, ForgeTypeOK
    <3> QED
      BY <3>1, <3>2
  <2>9. BudgetHolds' /\ PassesPublished' /\ SummaryTracked'
    BY <1>1, <2>2, <2>3 DEF StoredInv, BudgetHolds, PassesPublished, SummaryTracked
  <2>10. ReviewInv'
    BY <1>1, <2>2, <2>6, <2>7
    DEF ReviewInv, SnapshotFresh, WithinBudget, SummaryInHand, CommentInHand,
        Reviewing, Saving, Noticing
  <2> QED
    BY <2>8, <2>9, <2>10, PartsNext DEF StoredInv
<1>10. CASE Record
  <2>1. PICK fp \in cur : RecordFingerprint(PR, fp)
    BY <1>10 DEF Record
  <2>2. /\ PR \in PRs /\ PR' = PR /\ pc = "record" /\ pc' = "post" /\ st' = st
        /\ UNCHANGED <<prReviews, inline, summaries, notices>>
    BY <1>3, <1>10, <2>1 DEF Record, RecordFingerprint, forgeVars, Idle, PR, Row
  <2>3. inline[PR][fp] >= 1
    BY <1>1, <2>1, <2>2 DEF ReviewInv, CommentInHand
  <2>4. RecordedMeansPosted'
    BY <1>1, <1>2, <2>1, <2>2, <2>3 DEF StoredInv, RecordedMeansPosted, RecordFingerprint
  <2>5. BudgetHolds' /\ PassesPublished' /\ SummaryTracked'
    BY <1>1, <2>2 DEF StoredInv, BudgetHolds, PassesPublished, SummaryTracked
  <2>6. ReviewInv'
    BY <1>1, <2>2
    DEF ReviewInv, SnapshotFresh, WithinBudget, SummaryInHand, CommentInHand,
        Reviewing, Saving, Noticing
  <2> QED
    BY <2>4, <2>5, <2>6, PartsNext DEF StoredInv
<1>11. CASE PostSummary \/ SummaryLost
  <2>1. /\ PR \in PRs /\ PR' = PR /\ Row' = Row /\ pc = "summary" /\ WriteSummary
        /\ UNCHANGED <<prReviews, postedComments>>
    BY <1>3, <1>11
    DEF PostSummary, SummaryLost, Return, Goto, localVars, storeVars, Idle, PR, Row
  <2>2. /\ st = prReviews[PR] /\ st.cycle < MaxCycles /\ Pass = st.cycle + 1
        /\ st.cycle \in Nat
    BY <1>1, <1>2, <2>1
    DEF ReviewInv, SnapshotFresh, WithinBudget, Reviewing, Pass, PRRow
  <2>3. BudgetHolds'
    <3>1. \A i \in DOMAIN summaries'[PR] : summaries'[PR][i].cycle <= MaxCycles
      <4>1. \A i \in DOMAIN summaries'[PR] :
              \/ i \in DOMAIN summaries[PR] /\ summaries'[PR][i] = summaries[PR][i]
              \/ summaries'[PR][i].cycle = Pass
        BY <2>1, WriteEffect
      <4>2. \A i \in DOMAIN summaries[PR] : summaries[PR][i].cycle <= MaxCycles
        BY <1>1, <2>1 DEF StoredInv, BudgetHolds
      <4>3. Pass <= MaxCycles
        BY <1>2, <2>2
      <4> QED
        BY <4>1, <4>2, <4>3
    <3> QED
      BY <1>1, <2>1, <3>1, WriteEffect DEF StoredInv, BudgetHolds
  <2>4. PassesPublished'
    <3>1. \A c \in 1..prReviews[PR].cycle :
            \A i \in DOMAIN summaries[PR] : summaries[PR][i].cycle = c =>
              i \in DOMAIN summaries'[PR] /\ summaries'[PR][i] = summaries[PR][i]
      BY <2>1, <2>2, WriteEffect
    <3>2. prReviews[PR].cycle > 0 => prReviews[PR].cycle \in 1..prReviews[PR].cycle
      BY <2>2
    <3> QED
      BY <1>1, <2>1, <3>1, <3>2, WriteEffect DEF StoredInv, PassesPublished
  <2>5. RecordedMeansPosted'
    BY <1>1, <2>1, WriteEffect DEF StoredInv, RecordedMeansPosted
  <2>6. SummaryTracked'
    <3> SUFFICES ASSUME NEW p \in PRs, prReviews[p].summaryCommentID # 0
                 PROVE  /\ prReviews[p].summaryCommentID \in DOMAIN summaries'[p]
                        /\ summaries'[p][prReviews[p].summaryCommentID].cycle
                              = prReviews[p].summaryCycle
      BY <2>1 DEF SummaryTracked
    <3>1. /\ prReviews[p].summaryCommentID \in DOMAIN summaries[p]
          /\ summaries[p][prReviews[p].summaryCommentID].cycle = prReviews[p].summaryCycle
      BY <1>1 DEF StoredInv, SummaryTracked
    <3>2. CASE p = PR
      BY <2>1, <3>1, <3>2, WriteEffect
    <3>3. CASE p # PR
      BY <2>1, <3>1, <3>3, WriteEffect
    <3> QED
      BY <3>2, <3>3
  <2>7. ReviewInv'
    <3>1. CASE SummaryLost
      BY <3>1, ReviewOver DEF SummaryLost, Return, InUse, Reviewing, Saving, Noticing
    <3>2. CASE PostSummary
      <4>1. /\ pc' = "saveSummary"
            /\ st' = [st EXCEPT !.summaryCommentID = SummaryID, !.summaryCycle = Pass]
        BY <3>2 DEF PostSummary
      <4>2. /\ st'.cycle = st.cycle /\ st'.summaryCommentID = SummaryID
            /\ st'.summaryCycle = Pass
            /\ st'.lastReviewedSHA = st.lastReviewedSHA
            /\ st'.budgetNoticePosted = st.budgetNoticePosted
        BY <1>2, <4>1 DEF PRRow
      <4>3. Pass' = Pass
        BY <4>2 DEF Pass
      <4>4. SnapshotFresh' /\ WithinBudget' /\ CommentInHand'
        BY <2>1, <2>2, <4>1, <4>2
        DEF SnapshotFresh, WithinBudget, CommentInHand, Reviewing, Saving, Noticing
      <4>5. SummaryInHand'
        BY <2>1, <4>2, <4>3, WriteEffect DEF SummaryInHand
      <4> QED
        BY <4>4, <4>5 DEF ReviewInv
    <3> QED
      BY <1>11, <3>1, <3>2
  <2> QED
    BY <2>3, <2>4, <2>5, <2>6, <2>7, PartsNext DEF StoredInv
<1>12. CASE SaveSummary
  <2>1. /\ PR \in PRs /\ PR' = PR /\ Row' = Row /\ pc = "saveSummary" /\ pc' = "saveCycle"
        /\ st' = st /\ prReviews' = [prReviews EXCEPT ![PR] = st]
        /\ UNCHANGED <<postedComments, inline, summaries, notices>>
    BY <1>3, <1>12
    DEF SaveSummary, SavePRState, Goto, localVars, forgeVars, Idle, PR, Row
  <2>2. /\ st.cycle = prReviews[PR].cycle
        /\ st.lastReviewedSHA = prReviews[PR].lastReviewedSHA
        /\ st.summaryCommentID \in DOMAIN summaries[PR]
        /\ summaries[PR][st.summaryCommentID].cycle = st.summaryCycle
    BY <1>1, <2>1 DEF ReviewInv, SnapshotFresh, SummaryInHand, Saving
  <2>3. prReviews'[PR] = st /\ \A p \in PRs : p # PR => prReviews'[p] = prReviews[p]
    BY <1>2, <2>1
  <2>4. BudgetHolds'
    BY <1>1, <2>1, <2>2, <2>3 DEF StoredInv, BudgetHolds
  <2>5. PassesPublished'
    BY <1>1, <2>1, <2>2, <2>3 DEF StoredInv, PassesPublished
  <2>6. RecordedMeansPosted'
    BY <1>1, <2>1 DEF StoredInv, RecordedMeansPosted
  <2>7. SummaryTracked'
    BY <1>1, <2>1, <2>2, <2>3 DEF StoredInv, SummaryTracked
  <2>8. ReviewInv'
    BY <1>1, <2>1, <2>3
    DEF ReviewInv, SnapshotFresh, WithinBudget, SummaryInHand, CommentInHand, Pass,
        Reviewing, Saving, Noticing
  <2> QED
    BY <2>4, <2>5, <2>6, <2>7, <2>8, PartsNext DEF StoredInv
<1>13. CASE SaveCycle
  <2> DEFINE row == [st EXCEPT !.cycle = Pass, !.lastReviewedSHA = Row.head]
  <2>1. /\ PR \in PRs /\ pc = "saveCycle" /\ pc' = "succeed"
        /\ prReviews' = [prReviews EXCEPT ![PR] = row]
        /\ UNCHANGED <<postedComments, inline, summaries, notices>>
    BY <1>3, <1>13 DEF SaveCycle, SavePRState, Return, forgeVars, Idle
  <2>2. /\ st = prReviews[PR] /\ st.cycle \in Nat /\ st.cycle < MaxCycles
        /\ Pass = st.cycle + 1
        /\ st.summaryCommentID \in DOMAIN summaries[PR]
        /\ st.summaryCycle = Pass
        /\ summaries[PR][st.summaryCommentID].cycle = Pass
        /\ summaries[PR][st.summaryCommentID].head = Row.head
    BY <1>1, <1>2, <2>1
    DEF ReviewInv, SnapshotFresh, WithinBudget, SummaryInHand, Saving, PRRow, Pass
  <2>3. /\ row.cycle = Pass /\ row.lastReviewedSHA = Row.head
        /\ row.summaryCommentID = st.summaryCommentID
        /\ row.summaryCycle = st.summaryCycle
    BY <1>2 DEF PRRow
  <2>4. prReviews'[PR] = row /\ \A p \in PRs : p # PR => prReviews'[p] = prReviews[p]
    BY <1>2, <2>1
  <2> HIDE DEF row
  <2>5. BudgetHolds'
    <3>1. notices[PR] = 0
      <4>1. prReviews[PR].cycle # MaxCycles
        BY <1>2, <2>2
      <4>2. notices[PR] \in Nat /\ (notices[PR] > 0 => prReviews[PR].cycle = MaxCycles)
        BY <1>1, <1>2, <2>1 DEF StoredInv, BudgetHolds
      <4> QED
        BY <4>1, <4>2
    <3>2. prReviews'[PR].cycle <= MaxCycles
      BY <1>2, <2>2, <2>3, <2>4
    <3> QED
      BY <1>1, <2>1, <2>4, <3>1, <3>2 DEF StoredInv, BudgetHolds
  <2>6. PassesPublished'
    <3>1. \A c \in 1..Pass : \E i \in DOMAIN summaries[PR] : summaries[PR][i].cycle = c
      BY <1>1, <2>1, <2>2 DEF StoredInv, PassesPublished
    <3> QED
      BY <1>1, <2>1, <2>2, <2>3, <2>4, <3>1 DEF StoredInv, PassesPublished
  <2>7. RecordedMeansPosted'
    BY <1>1, <2>1 DEF StoredInv, RecordedMeansPosted
  <2>8. SummaryTracked'
    BY <1>1, <2>1, <2>2, <2>3, <2>4 DEF StoredInv, SummaryTracked
  <2>9. ReviewInv'
    BY <2>1, ReviewOver DEF InUse, Reviewing, Saving, Noticing
  <2> QED
    BY <2>5, <2>6, <2>7, <2>8, <2>9, PartsNext DEF StoredInv
<1>14. CASE PostNotice
  <2>1. /\ PR \in PRs /\ pc = "notice" /\ PR' = PR
        /\ notices' = [notices EXCEPT ![PR] = @ + 1]
        /\ UNCHANGED <<prReviews, postedComments, inline, summaries>>
    BY <1>3, <1>14
    DEF PostNotice, Announced, Goto, Return, localVars, storeVars, Idle, PR, Row
  <2>2. st = prReviews[PR] /\ st.cycle = MaxCycles
    BY <1>1, <2>1 DEF ReviewInv, SnapshotFresh, WithinBudget, Noticing
  <2>3. BudgetHolds'
    BY <1>1, <1>2, <2>1, <2>2 DEF StoredInv, BudgetHolds
  <2>4. PassesPublished' /\ RecordedMeansPosted' /\ SummaryTracked'
    BY <1>1, <2>1 DEF StoredInv, PassesPublished, RecordedMeansPosted, SummaryTracked
  <2>5. ReviewInv'
    <3>1. \/ pc' = "saveNotice" /\ st' = st
          \/ pc' = "fail"
      BY <1>14 DEF PostNotice, Goto, Return, localVars
    <3> QED
      BY <2>1, <2>2, <3>1
      DEF ReviewInv, SnapshotFresh, WithinBudget, SummaryInHand, CommentInHand,
          Reviewing, Saving, Noticing
  <2> QED
    BY <2>3, <2>4, <2>5, PartsNext DEF StoredInv
<1>15. CASE SaveNotice
  <2> DEFINE row == [st EXCEPT !.budgetNoticePosted = TRUE]
  <2>1. /\ PR \in PRs /\ pc = "saveNotice" /\ pc' = "succeed"
        /\ prReviews' = [prReviews EXCEPT ![PR] = row]
        /\ UNCHANGED <<postedComments, inline, summaries, notices>>
    BY <1>3, <1>15 DEF SaveNotice, SavePRState, Return, forgeVars, Idle
  <2>2. st = prReviews[PR]
    BY <1>1, <2>1 DEF ReviewInv, SnapshotFresh
  <2>3. /\ row.cycle = st.cycle /\ row.lastReviewedSHA = st.lastReviewedSHA
        /\ row.summaryCommentID = st.summaryCommentID
        /\ row.summaryCycle = st.summaryCycle
    BY <1>2 DEF PRRow
  <2>4. prReviews'[PR] = row /\ \A p \in PRs : p # PR => prReviews'[p] = prReviews[p]
    BY <1>2, <2>1
  <2> HIDE DEF row
  <2>5. BudgetHolds' /\ PassesPublished' /\ RecordedMeansPosted' /\ SummaryTracked'
    BY <1>1, <2>1, <2>2, <2>3, <2>4
    DEF StoredInv, BudgetHolds, PassesPublished, RecordedMeansPosted, SummaryTracked
  <2>6. ReviewInv'
    BY <2>1, ReviewOver DEF InUse, Reviewing, Saving, Noticing
  <2> QED
    BY <2>5, <2>6, PartsNext DEF StoredInv
<1> QED
  BY <1>4, <1>5, <1>6, <1>7, <1>8, <1>9, <1>10, <1>11, <1>12, <1>13, <1>14, <1>15,
     DataShapes

\* The budget's invariants hold together, and no step leads out of them.
THEOREM BudgetCorrect == Spec => []BudgetInv
<1>1. Init => BudgetInv
  BY BudgetInit
<1>2. TypeOK /\ TypeOK' /\ BudgetInv /\ [Next]_vars => BudgetInv'
  BY BudgetStep
<1> QED
  BY <1>1, <1>2, TypeCorrect, PTL DEF Spec

\* No PR gets more than MaxCycles passes out of one budget, and it is told so
\* only when they are used up.
THEOREM BudgetKept == Spec => []BudgetHolds
<1>1. BudgetInv => BudgetHolds
  BY DEF BudgetInv
<1> QED
  BY <1>1, BudgetCorrect, PTL

\* No pass is consumed without its summary on the PR.
THEOREM ConsumedMeansPublished == Spec => []PassesPublished
<1>1. BudgetInv => PassesPublished
  BY DEF BudgetInv
<1> QED
  BY <1>1, BudgetCorrect, PTL

\* No finding is suppressed that the PR does not show.
THEOREM SuppressedMeansShown == Spec => []RecordedMeansPosted
<1>1. BudgetInv => RecordedMeansPosted
  BY DEF BudgetInv
<1> QED
  BY <1>1, BudgetCorrect, PTL

\* No save of the PR's row undoes another one.
THEOREM NoLostUpdate == Spec => []SnapshotFresh
<1>1. BudgetInv => SnapshotFresh
  BY DEF BudgetInv
<1> QED
  BY <1>1, BudgetCorrect, PTL
=============================================================================

--------------------------- MODULE ServiceProofs ---------------------------
(***************************************************************************)
(* What a review leaves behind, for every instance of ReviewWorker: each   *)
(* finding has a place, a pass keeps its summary, and a review that ends   *)
(* well has answered.  And ReviewWorker implements ReviewService: whatever *)
(* the retries, the faults and the order of the deliveries, each step of   *)
(* the worker is one of the ledger's or leaves the ledger as it is.        *)
(***************************************************************************)
EXTENDS ReviewWorkerProofs

LEMMA Types ==
  ASSUME TypeOK
  PROVE  /\ prReviews \in [PRs -> PRRow] /\ st \in PRRow
         /\ inline \in [PRs -> [Fingerprints -> Nat]]
         /\ notices \in [PRs -> Nat]
         /\ summaries \in [PRs -> Seq(Summary)]
         /\ postedComments \in [PRs -> SUBSET Fingerprints]
         /\ found \subseteq Fingerprints /\ fresh \subseteq Fingerprints
         /\ MaxCycles \in Nat \ {0}
         /\ pc \notin Idle => PR \in PRs
  BY RowType, WorkerAssumption
  DEF TypeOK, StoreTypeOK, WorkerTypeOK, ForgeTypeOK

\* Another comment never takes one away.
LEMMA CommentEffect ==
  ASSUME TypeOK, pc \notin Idle, NEW fp \in Fingerprints, Comment(fp)
  PROVE  /\ \A p \in PRs, g \in Fingerprints :
              inline'[p][g] = IF p = PR /\ g = fp THEN inline[p][g] + 1
                                                  ELSE inline[p][g]
         /\ UNCHANGED <<summaries, notices>>
<1>1. PR \in PRs /\ inline \in [PRs -> [Fingerprints -> Nat]]
  BY Types
<1>2. inline' = [inline EXCEPT ![PR][fp] = @ + 1]
  BY DEF Comment
<1> QED
  BY <1>1, <1>2 DEF Comment

----------------------------------------------------------------------------
(* No finding is dropped *)

LEMMA PlacedInit == Init => FindingsPlaced
  BY DEF Init, FindingsPlaced, Saving

LEMMA PlacedStep ==
  ASSUME TypeOK, BudgetInv, FindingsPlaced, [Next]_vars
  PROVE  FindingsPlaced'
<1> USE DEF Saving
<1>1. CASE QuietStep \/ ReadState \/ SaveCycle \/ PostNotice \/ SaveNotice
              \/ SummaryLost \/ (pc = "reset" /\ NewBudget(PR) /\ Goto("readState"))
  <2>1. pc' \notin {"post", "record", "summary", "saveSummary", "saveCycle"}
    BY <1>1
    DEF QuietStep, InUse, Reviewing, ReadState, Decision, SaveCycle, PostNotice,
        SaveNotice, SummaryLost, Return, Goto
  <2> QED
    BY <2>1 DEF FindingsPlaced
<1>2. CASE OtherStep
  <2>1. pc \notin Idle => PR' = PR
    BY <1>2 DEF OtherStep, PR, Row
  <2> QED
    BY <1>2, <2>1 DEF OtherStep, dataVars, FindingsPlaced, Idle
<1>3. CASE OnwardStep
  <2>1. pc \notin Idle /\ PR' = PR /\ UNCHANGED <<inline, summaries, st>>
    BY <1>3 DEF OnwardStep, PR, Row, dataVars, Idle, Reviewing
  <2>2. CASE SelectFresh
    <3>1. PICK kept \in Capped(UnseenFingerprints(PR, found)) :
            /\ fresh' = kept
            /\ unposted' = UnseenFingerprints(PR, found) \ kept
      BY <2>2 DEF SelectFresh
    <3>2. pc' = "post" /\ found' = found
      BY <2>2 DEF SelectFresh
    <3>3. \A fp \in found : fp \in fresh' \cup unposted' \/ inline[PR][fp] >= 1
      BY <2>1, <3>1, Types DEF UnseenFingerprints, BudgetInv, RecordedMeansPosted
    <3> QED
      BY <2>1, <3>2, <3>3 DEF FindingsPlaced
  <2>3. CASE PostedAll
    BY <2>1, <2>3 DEF PostedAll, Goto, localVars, FindingsPlaced
  <2>4. CASE pc' \notin {"post", "summary"}
    BY <1>3, <2>4 DEF OnwardStep, Reviewing, FindingsPlaced
  <2> QED
    BY <1>3, <2>2, <2>3, <2>4 DEF OnwardStep
<1>4. CASE PostInline
  <2>1. PICK fp \in fresh : /\ fresh' = fresh \ {fp}
                            /\ PostAccepted(fp) \/ PostRejected(fp)
    BY <1>4 DEF PostInline
  <2>2. /\ pc = "post" /\ pc \notin Idle /\ fp \in Fingerprints
        /\ PR' = PR /\ found' = found
    BY <1>4, Types DEF PostInline, Idle, PR, Row, storeVars
  <2>3. /\ pc' \in {"post", "record"}
        /\ \/ Comment(fp) /\ unposted' = unposted
           \/ (inline' = inline \/ Comment(fp)) /\ unposted' = unposted \cup {fp}
    BY <2>1, <2>2 DEF PostAccepted, PostRejected, forgeVars
  <2>4. \A g \in Fingerprints : inline[PR][g] >= 1 => inline'[PR][g] >= 1
    <3> SUFFICES ASSUME NEW g \in Fingerprints, inline[PR][g] >= 1
                 PROVE  inline'[PR][g] >= 1
      OBVIOUS
    <3>1. CASE inline' = inline
      BY <3>1
    <3>2. CASE Comment(fp)
      <4>1. inline'[PR][g] \in {inline[PR][g], inline[PR][g] + 1}
        BY <2>2, <3>2, CommentEffect, Types
      <4>2. inline[PR][g] \in Nat
        BY <2>2, Types
      <4> QED
        BY <4>1, <4>2
    <3> QED
      BY <2>3, <3>1, <3>2
  <2>5. \/ unposted' = unposted /\ inline'[PR][fp] >= 1
        \/ unposted' = unposted \cup {fp}
    BY <2>2, <2>3, CommentEffect, Types
  <2>6. \A g \in found : g \in fresh' \cup unposted' \/ inline'[PR][g] >= 1
    <3> SUFFICES ASSUME NEW g \in found
                 PROVE  g \in fresh' \cup unposted' \/ inline'[PR][g] >= 1
      OBVIOUS
    <3>1. g \in fresh \cup unposted \/ inline[PR][g] >= 1
      BY <2>2 DEF FindingsPlaced
    <3>2. g \in Fingerprints /\ (g \in fresh => g = fp \/ g \in fresh')
      BY <2>1, Types
    <3> QED
      BY <2>4, <2>5, <3>1, <3>2
  <2> QED
    BY <2>2, <2>3, <2>6 DEF FindingsPlaced
<1>5. CASE Record
  BY <1>5 DEF Record, RecordFingerprint, forgeVars, PR, Row, FindingsPlaced
<1>6. CASE PostSummary
  <2>1. /\ pc = "summary" /\ pc' = "saveSummary" /\ PR' = PR /\ PR \in PRs
        /\ UNCHANGED <<found, fresh, unposted, inline>> /\ WriteSummary
        /\ st'.summaryCommentID = SummaryID
    BY <1>6, Types DEF PostSummary, WriteSummary, PR, Row, storeVars, Idle, PRRow
  <2>2. summaries'[PR][SummaryID].listed = unposted
    <3> DEFINE text == [cycle |-> Pass, head |-> Row.head, listed |-> unposted]
    <3>1. text.listed = unposted
      OBVIOUS
    <3>2. st = prReviews[PR]
      BY <2>1 DEF BudgetInv, SnapshotFresh
    <3>3. /\ EditsSummary =>
               /\ summaries' = [summaries EXCEPT ![PR][st.summaryCommentID] = text]
               /\ SummaryID = st.summaryCommentID
               /\ st.summaryCommentID \in DOMAIN summaries[PR]
          /\ ~EditsSummary =>
               /\ summaries' = [summaries EXCEPT ![PR] = Append(summaries[PR], text)]
               /\ SummaryID = Len(summaries[PR]) + 1
      BY <2>1, <3>2
      DEF WriteSummary, SummaryID, EditsSummary, BudgetInv, SummaryTracked
    <3> HIDE DEF text
    <3>4. summaries \in [PRs -> Seq(Summary)]
      BY Types
    <3>5. CASE EditsSummary
      BY <2>1, <3>1, <3>3, <3>4, <3>5
    <3>6. CASE ~EditsSummary
      <4>1. summaries'[PR] = Append(summaries[PR], text)
        BY <2>1, <3>3, <3>4, <3>6
      <4> QED
        BY <2>1, <3>1, <3>3, <3>4, <3>6, <4>1
    <3> QED
      BY <3>5, <3>6
  <2> QED
    BY <2>1, <2>2 DEF FindingsPlaced
<1>7. CASE SaveSummary
  <2>1. /\ pc = "saveSummary" /\ pc' = "saveCycle" /\ PR' = PR
        /\ UNCHANGED <<found, fresh, unposted, st, inline, summaries>>
    BY <1>7 DEF SaveSummary, SavePRState, Goto, localVars, forgeVars, PR, Row
  <2> QED
    BY <2>1 DEF FindingsPlaced
<1> QED
  BY <1>1, <1>2, <1>3, <1>4, <1>5, <1>6, <1>7, DataShapes

----------------------------------------------------------------------------
(* Summaries and notices *)

SummariesAndNotices == SummaryOfPass /\ NoticeShown

LEMMA SummariesAndNoticesInit == Init => SummariesAndNotices
  BY DEF Init, StoreInit, ZeroPRState, SummariesAndNotices, SummaryOfPass, NoticeShown

LEMMA SummariesAndNoticesStep ==
  ASSUME TypeOK, BudgetInv, SummariesAndNotices, [Next]_vars
  PROVE  SummariesAndNotices'
<1> USE DEF SummariesAndNotices
<1>1. CASE QuietStep \/ OtherStep \/ OnwardStep \/ ReadState \/ PostInline \/ Record
              \/ SummaryLost
  <2>1. prReviews' = prReviews /\ notices' = notices
    BY <1>1
    DEF QuietStep, OtherStep, OnwardStep, dataVars, ReadState, storeVars, forgeVars,
        PostInline, PostAccepted, PostRejected, Comment, Record, RecordFingerprint,
        SummaryLost, WriteSummary
  <2>2. pc' \in {"saveSummary", "saveNotice"} => pc' = pc /\ PR' = PR /\ st' = st
    <3>1. CASE OtherStep
      BY <3>1 DEF OtherStep, PR, Row, Idle
    <3>2. CASE QuietStep \/ OnwardStep
      BY <3>2 DEF QuietStep, OnwardStep, InUse, Saving, Noticing, Reviewing
    <3>3. CASE ReadState \/ PostInline \/ Record \/ SummaryLost
      BY <3>3
      DEF ReadState, Decision, PostInline, PostAccepted, PostRejected, Record,
          SummaryLost, Return
    <3> QED
      BY <1>1, <3>1, <3>2, <3>3
  <2> QED
    BY <2>1, <2>2 DEF SummaryOfPass, NoticeShown
<1>2. CASE pc = "reset" /\ NewBudget(PR) /\ Goto("readState")
  <2>1. /\ \A p \in PRs : prReviews'[p] \in {prReviews[p], ZeroPRState}
        /\ \A p \in PRs : prReviews'[p] = ZeroPRState \/ notices'[p] = notices[p]
        /\ pc' = "readState"
    BY <1>2, Types DEF NewBudget, ResetPRState, Goto, Idle
  <2>2. ZeroPRState.summaryCommentID = 0 /\ ZeroPRState.budgetNoticePosted = FALSE
    BY DEF ZeroPRState
  <2>3. \A p \in PRs : prReviews'[p].summaryCommentID # 0 => prReviews'[p] = prReviews[p]
    BY <2>1, <2>2
  <2>4. \A p \in PRs : prReviews'[p].budgetNoticePosted =>
          prReviews'[p] = prReviews[p] /\ notices'[p] = notices[p]
    BY <2>1, <2>2
  <2>5. SummaryOfPass'
    BY <2>1, <2>3 DEF SummaryOfPass
  <2>6. NoticeShown'
    BY <2>1, <2>4 DEF NoticeShown
  <2> QED
    BY <2>5, <2>6
<1>3. CASE PostSummary
  <2>1. /\ pc = "summary" /\ pc' = "saveSummary" /\ PR' = PR /\ PR \in PRs
        /\ prReviews' = prReviews /\ notices' = notices
        /\ st' = [st EXCEPT !.summaryCommentID = SummaryID, !.summaryCycle = Pass]
    BY <1>3, Types DEF PostSummary, WriteSummary, PR, Row, storeVars, Idle
  <2>2. st = prReviews[PR]
    BY <2>1 DEF BudgetInv, SnapshotFresh
  <2>3. st'.summaryCommentID = SummaryID /\ st'.cycle = st.cycle /\ st.cycle \in Nat
    BY <2>1, Types DEF PRRow
  <2>4. prReviews[PR].summaryCommentID # 0 =>
          \/ SummaryID = prReviews[PR].summaryCommentID
          \/ prReviews[PR].summaryCycle = st.cycle
    BY <2>1, <2>2, <2>3 DEF SummaryID, EditsSummary, SummaryOfPass, Pass
  <2> QED
    BY <2>1, <2>3, <2>4 DEF SummaryOfPass, NoticeShown
<1>4. ASSUME pc \in {"saveSummary", "saveCycle", "saveNotice"},
             NEW row \in PRRow, SavePRState(PR, row), UNCHANGED notices,
             pc' \notin {"saveSummary", "saveNotice"},
             row.cycle \in {st.cycle, st.cycle + 1},
             row.summaryCommentID # 0 => row.summaryCycle \in {row.cycle, row.cycle + 1},
             row.budgetNoticePosted => notices[PR] > 0
      PROVE  SummariesAndNotices'
  <2>1. /\ PR \in PRs /\ prReviews'[PR] = row
        /\ \A p \in PRs : p # PR => prReviews'[p] = prReviews[p]
    BY <1>4, Types DEF SavePRState, Idle
  <2>2. SummaryOfPass'
    BY <1>4, <2>1 DEF SummaryOfPass
  <2>3. NoticeShown'
    BY <1>4, <2>1 DEF NoticeShown
  <2> QED
    BY <2>2, <2>3
<1>5. CASE SaveSummary
  <2>1. /\ pc = "saveSummary" /\ pc' = "saveCycle" /\ SavePRState(PR, st)
        /\ UNCHANGED notices
    BY <1>5 DEF SaveSummary, Goto, forgeVars
  <2>2. st.summaryCycle = st.cycle + 1
    BY <2>1 DEF BudgetInv, SummaryInHand, Saving, Pass
  <2>3. st.budgetNoticePosted => notices[PR] > 0
    BY <2>1, Types DEF BudgetInv, SnapshotFresh, NoticeShown, Idle
  <2> QED
    BY <1>4, <2>1, <2>2, <2>3, Types
<1>6. CASE SaveCycle
  <2> DEFINE row == [st EXCEPT !.cycle = Pass, !.lastReviewedSHA = Row.head]
  <2>1. /\ pc = "saveCycle" /\ pc' = "succeed" /\ SavePRState(PR, row)
        /\ UNCHANGED notices
    BY <1>6 DEF SaveCycle, Return, forgeVars
  <2>2. /\ st.summaryCycle = Pass /\ Pass = st.cycle + 1 /\ Pass \in Nat
        /\ st = prReviews[PR]
    BY <2>1, Types DEF BudgetInv, SummaryInHand, SnapshotFresh, Saving, Pass, PRRow
  <2>3. Row.head \in Heads
    BY <2>1, RowType DEF Idle
  <2>4. /\ row \in PRRow /\ row.cycle = Pass /\ row.summaryCycle = st.summaryCycle
        /\ row.budgetNoticePosted = st.budgetNoticePosted
    BY <2>2, <2>3, Types DEF PRRow
  <2>5. st.budgetNoticePosted => notices[PR] > 0
    BY <2>1, <2>2, Types DEF NoticeShown, Idle
  <2> HIDE DEF row
  <2> QED
    BY <1>4, <2>1, <2>2, <2>4, <2>5
<1>7. CASE PostNotice
  <2>1. /\ PR \in PRs /\ PR' = PR /\ prReviews' = prReviews /\ pc' # "saveSummary"
        /\ notices' = [notices EXCEPT ![PR] = @ + 1]
    BY <1>7, Types
    DEF PostNotice, Announced, storeVars, Goto, Return, localVars, PR, Row, Idle
  <2>2. /\ notices'[PR] = notices[PR] + 1 /\ notices[PR] \in Nat
        /\ \A p \in PRs : p # PR => notices'[p] = notices[p]
    BY <2>1, Types
  <2>3. NoticeShown'
    BY <2>1, <2>2 DEF NoticeShown
  <2> QED
    BY <2>1, <2>3 DEF SummaryOfPass
<1>8. CASE SaveNotice
  <2> DEFINE row == [st EXCEPT !.budgetNoticePosted = TRUE]
  <2>1. /\ pc = "saveNotice" /\ pc' = "succeed" /\ SavePRState(PR, row)
        /\ UNCHANGED notices
    BY <1>8 DEF SaveNotice, Return, forgeVars
  <2>2. /\ row \in PRRow /\ row.cycle = st.cycle /\ row.summaryCycle = st.summaryCycle
        /\ row.summaryCommentID = st.summaryCommentID
    BY Types DEF PRRow
  <2>3. st = prReviews[PR] /\ PR \in PRs
    BY <2>1, Types DEF BudgetInv, SnapshotFresh, Idle
  <2>4. row.summaryCommentID # 0 => row.summaryCycle \in {row.cycle, row.cycle + 1}
    BY <2>2, <2>3 DEF SummaryOfPass
  <2>5. notices[PR] > 0
    BY <2>1 DEF NoticeShown
  <2> HIDE DEF row
  <2> QED
    BY <1>4, <2>1, <2>2, <2>4, <2>5
<1> QED
  BY <1>1, <1>2, <1>3, <1>5, <1>6, <1>7, <1>8, DataShapes

----------------------------------------------------------------------------
(* Resets and passes come after a try *)

LEMMA TriedInit == Init => TriedBefore
  BY DEF Init, TriedBefore

LEMMA TriedStep ==
  ASSUME TypeOK, QueueInv, TriedBefore, [Next]_vars
  PROVE  TriedBefore'
<1>1. /\ resets \cup spent \subseteq DOMAIN jobs
      /\ \A id \in DOMAIN jobs : jobs[id].attempts \in Nat
  <2>1. \A id \in DOMAIN jobs : jobs[id] \in JobRow
    BY DEF TypeOK, StoreTypeOK
  <2> QED
    BY <2>1 DEF TypeOK, HistoryTypeOK, JobRow
<1>2. ASSUME UNCHANGED <<resets, spent>>,
             \A id \in DOMAIN jobs : jobs'[id].attempts = jobs[id].attempts,
             pc' # "reset" \/ (pc' = pc /\ job' = job)
      PROVE  TriedBefore'
  BY <1>1, <1>2 DEF TriedBefore
<1>3. ASSUME NEW d \in Deliveries, Deliver(d) PROVE TriedBefore'
  <2>1. \A id \in DOMAIN jobs : jobs'[id] = jobs[id]
    BY <1>3, EnqueueEffect, WorkerAssumption DEF Deliver, Delivery, TypeOK
  <2> QED
    BY <1>2, <1>3, <2>1 DEF Deliver, workerVars, historyVars
<1>4. CASE Claim
  <2>1. PICK id \in DOMAIN jobs : ClaimNext(id) /\ job' = id
    BY <1>4 DEF Claim
  <2>2. /\ \A k \in DOMAIN jobs : k # id => jobs'[k] = jobs[k]
        /\ jobs'[id].attempts = jobs[id].attempts + 1
    <3>1. jobs[id] \in JobRow
      BY DEF TypeOK, StoreTypeOK
    <3>2. /\ \A k \in DOMAIN jobs : k # id => jobs'[k] = jobs[k]
          /\ jobs'[id] = [jobs[id] EXCEPT !.state = "running",
                                          !.attempts = jobs[id].attempts + 1]
      BY <2>1, ClaimEffect DEF TypeOK
    <3> QED
      BY <3>1, <3>2 DEF JobRow
  <2>3. UNCHANGED <<resets, spent>>
    BY <1>4 DEF Claim, historyVars
  <2> QED
    BY <1>1, <2>1, <2>2, <2>3 DEF TriedBefore
<1>5. CASE Succeed \/ Fail
  <2>1. pc \notin Idle /\ pc' # "reset" /\ UNCHANGED <<resets, spent>>
    BY <1>5
    DEF Succeed, Fail, EndJob, Goto, TryFinish, StoreFails, Suffer, historyVars, Idle
  <2>2. \A id \in DOMAIN jobs : jobs'[id].attempts = jobs[id].attempts
    <3>1. \/ jobs' = jobs
          \/ \E s \in JobStates : Finish(job, s)
      BY <1>5 DEF Succeed, Fail, TryFinish, storeVars, JobStates
    <3>2. ASSUME NEW s \in JobStates, Finish(job, s)
          PROVE  \A id \in DOMAIN jobs : jobs'[id].attempts = jobs[id].attempts
      <4>1. job \in DOMAIN jobs /\ jobs[job] \in JobRow
        BY <2>1, RowType DEF Row
      <4>2. /\ \A k \in DOMAIN jobs : k # job => jobs'[k] = jobs[k]
            /\ jobs'[job] = [jobs[job] EXCEPT !.state = s]
        BY <3>2, <4>1, FinishEffect DEF TypeOK
      <4>3. jobs'[job].attempts = jobs[job].attempts
        BY <4>1, <4>2 DEF JobRow
      <4> QED
        BY <4>2, <4>3
    <3> QED
      BY <3>1, <3>2
  <2> QED
    BY <1>2, <2>1, <2>2
<1>6. CASE Stop \/ Crash \/ GiveUpStep \/ IdleStep \/ UNCHANGED vars
  <2>1. UNCHANGED <<jobs, resets, spent>> /\ (pc' # "reset" \/ (pc' = pc /\ job' = job))
    BY <1>6
    DEF Stop, Crash, Suffer, GiveUpStep, IdleStep, vars, storeVars, workerVars,
        historyVars, Idle
  <2> QED
    BY <1>2, <2>1
<1>7. CASE ReviewStep
  <2>1. /\ jobs' = jobs /\ pc' # "reset"
        /\ (resets' \cup spent') \subseteq (resets \cup spent) \cup {job}
    BY <1>7 DEF ReviewStep
  <2>2. jobs[job].attempts > 0
    BY <1>7 DEF ReviewStep, QueueInv, HeldJob
  <2> QED
    BY <2>1, <2>2 DEF TriedBefore
<1> QED
  BY <1>3, <1>4, <1>5, <1>6, <1>7, StepShapes

----------------------------------------------------------------------------
(* The theorems *)

LEMMA AnswerParts == AnswerInv <=> FindingsPlaced /\ SummariesAndNotices /\ TriedBefore
  BY DEF AnswerInv, SummariesAndNotices

\* The invariants of the answers hold together, and no step leads out of them.
THEOREM AnswersCorrect == Spec => []AnswerInv
<1>1. Init => AnswerInv
  BY PlacedInit, SummariesAndNoticesInit, TriedInit, AnswerParts
<1>2. TypeOK /\ QueueInv /\ BudgetInv /\ AnswerInv /\ [Next]_vars => AnswerInv'
  <2> SUFFICES ASSUME TypeOK, QueueInv, BudgetInv, AnswerInv, [Next]_vars
               PROVE  AnswerInv'
    OBVIOUS
  <2>1. FindingsPlaced' /\ SummariesAndNotices' /\ TriedBefore'
    BY PlacedStep, SummariesAndNoticesStep, TriedStep, AnswerParts
  <2> QED
    BY <2>1 DEF AnswerInv, SummariesAndNotices
<1> QED
  BY <1>1, <1>2, TypeCorrect, QueueCorrect, BudgetCorrect, PTL DEF Spec

\* Whatever the dedup, the cap and the forge did to a finding, it is on the PR
\* once the summary is.
THEOREM FindingsKept == Spec => []NoFindingDropped
<1>1. TypeOK /\ BudgetInv /\ AnswerInv => NoFindingDropped
  <2> SUFFICES ASSUME TypeOK, BudgetInv, AnswerInv, pc \in Saving
               PROVE  /\ st.summaryCommentID \in DOMAIN summaries[PR]
                      /\ \A fp \in found :
                           \/ inline[PR][fp] >= 1
                           \/ fp \in summaries[PR][st.summaryCommentID].listed
    BY DEF NoFindingDropped, Saving
  <2> QED
    BY DEF BudgetInv, SummaryInHand, AnswerInv, FindingsPlaced
<1> QED
  BY <1>1, TypeCorrect, BudgetCorrect, AnswersCorrect, PTL

\* The comment a pass is summarised in stays the same through every retry.
THEOREM SummariesKept == Spec => SummaryKept
<1> DEFINE Kept(p) ==
      prReviews[p].summaryCommentID # 0 =>
        \/ prReviews'[p].summaryCommentID = prReviews[p].summaryCommentID
        \/ prReviews'[p].summaryCycle = prReviews[p].summaryCycle + 1
        \/ prReviews'[p] = ZeroPRState /\ resets' # resets
<1>1. ASSUME TypeOK, BudgetInv, AnswerInv, [Next]_vars
      PROVE  \A p \in PRs : Kept(p)
  <2>1. CASE prReviews' = prReviews
    BY <2>1
  <2>2. CASE pc = "reset" /\ MustReset /\ NewBudget(PR) /\ Goto("readState")
    <3>1. resets' # resets
      <4>1. job \notin resets
        BY <1>1, <2>2, RowType DEF AnswerInv, TriedBefore, MustReset, Row, Idle
      <4> QED
        BY <2>2, <4>1 DEF NewBudget
    <3>2. \A p \in PRs : prReviews'[p] \in {prReviews[p], ZeroPRState}
      BY <1>1, <2>2, Types DEF NewBudget, ResetPRState, Idle
    <3> QED
      BY <3>1, <3>2
  <2>3. ASSUME pc \in {"saveSummary", "saveCycle", "saveNotice"},
               NEW row, SavePRState(PR, row),
               prReviews[PR].summaryCommentID # 0 =>
                 \/ row.summaryCommentID = prReviews[PR].summaryCommentID
                 \/ row.summaryCycle = prReviews[PR].summaryCycle + 1
        PROVE  \A p \in PRs : Kept(p)
    BY <1>1, <2>3, Types DEF SavePRState, Idle
  <2>4. CASE SaveSummary
    <3>1. /\ pc = "saveSummary" /\ SavePRState(PR, st)
          /\ st.summaryCycle = st.cycle + 1
      BY <1>1, <2>4 DEF SaveSummary, BudgetInv, SummaryInHand, Saving, Pass
    <3>2. prReviews[PR].summaryCommentID # 0 =>
            \/ st.summaryCommentID = prReviews[PR].summaryCommentID
            \/ st.summaryCycle = prReviews[PR].summaryCycle + 1
      BY <1>1, <3>1 DEF AnswerInv, SummaryOfPass
    <3> QED
      BY <2>3, <3>1, <3>2
  <2>5. CASE SaveCycle \/ SaveNotice
    <3>1. /\ pc \in {"saveCycle", "saveNotice"} /\ st = prReviews[PR]
          /\ \E row : /\ SavePRState(PR, row)
                       /\ row.summaryCommentID = st.summaryCommentID
      <4>1. pc \in {"saveCycle", "saveNotice"} /\ st = prReviews[PR]
        BY <1>1, <2>5 DEF SaveCycle, SaveNotice, BudgetInv, SnapshotFresh
      <4>2. /\ [st EXCEPT !.cycle = Pass, !.lastReviewedSHA = Row.head].summaryCommentID
                  = st.summaryCommentID
            /\ [st EXCEPT !.budgetNoticePosted = TRUE].summaryCommentID
                  = st.summaryCommentID
        BY <1>1, Types DEF PRRow
      <4> QED
        BY <2>5, <4>1, <4>2 DEF SaveCycle, SaveNotice
    <3> QED
      BY <2>3, <3>1
  <2>6. CASE QuietStep \/ OtherStep \/ OnwardStep \/ ReadState \/ PostInline
               \/ Record \/ PostSummary \/ SummaryLost \/ PostNotice
    BY <2>1, <2>6
    DEF QuietStep, OtherStep, OnwardStep, dataVars, ReadState, storeVars, PostInline,
        Record, RecordFingerprint, PostSummary, SummaryLost, PostNotice
  <2> QED
    BY <1>1, <2>2, <2>4, <2>5, <2>6, DataShapes
<1>2. TypeOK /\ BudgetInv /\ AnswerInv /\ [Next]_vars => [\A p \in PRs : Kept(p)]_vars
  BY <1>1
<1> QED
  BY <1>2, TypeCorrect, BudgetCorrect, AnswersCorrect, PTL DEF Spec, SummaryKept

\* A review that read the diff or wrote to the PR ends well only when the head is
\* recorded or the spent budget has been announced.
THEOREM SuccessAnswered == Spec => SuccessMeansAnswered
<1> DEFINE Answered ==
      (pc \notin {"fetch", "succeed"} /\ pc' = "succeed") =>
        \/ prReviews'[PR].lastReviewedSHA = Row.head
        \/ /\ prReviews'[PR].cycle = MaxCycles
           /\ Announce => prReviews'[PR].budgetNoticePosted /\ notices[PR] > 0
<1>1. ASSUME TypeOK, BudgetInv, AnswerInv, [Next]_vars
      PROVE  Answered
  <2> SUFFICES ASSUME pc \notin {"fetch", "succeed"}, pc' = "succeed"
               PROVE  \/ prReviews'[PR].lastReviewedSHA = Row.head
                      \/ /\ prReviews'[PR].cycle = MaxCycles
                         /\ Announce => prReviews'[PR].budgetNoticePosted /\ notices[PR] > 0
    OBVIOUS
  <2>1. CASE ReadState
    <3>1. /\ PR \in PRs /\ prReviews' = prReviews
          /\ Decision(prReviews[PR]) = "succeed"
      BY <1>1, <2>1, Types DEF ReadState, storeVars, Idle
    <3>2. prReviews[PR].cycle \in Nat /\ prReviews[PR].cycle <= MaxCycles
      BY <1>1, <3>1, Types DEF PRRow, BudgetInv, BudgetHolds
    <3>3. prReviews[PR].budgetNoticePosted => notices[PR] > 0
      BY <1>1, <3>1 DEF AnswerInv, NoticeShown
    <3> QED
      BY <3>1, <3>2, <3>3, <1>1, Types DEF Decision
  <2>2. CASE SaveCycle
    <3>1. /\ PR \in PRs
          /\ prReviews' = [prReviews EXCEPT ![PR] =
                            [st EXCEPT !.cycle = Pass, !.lastReviewedSHA = Row.head]]
      BY <1>1, <2>2, Types DEF SaveCycle, SavePRState, Idle
    <3>2. [st EXCEPT !.cycle = Pass, !.lastReviewedSHA = Row.head].lastReviewedSHA
            = Row.head
      BY <1>1, Types DEF PRRow
    <3> QED
      BY <1>1, <3>1, <3>2, Types
  <2>3. CASE SaveNotice
    <3> DEFINE row == [st EXCEPT !.budgetNoticePosted = TRUE]
    <3>1. pc = "saveNotice" /\ PR \in PRs /\ prReviews' = [prReviews EXCEPT ![PR] = row]
      BY <1>1, <2>3, Types DEF SaveNotice, SavePRState, Idle
    <3>2. row.cycle = st.cycle /\ row.budgetNoticePosted = TRUE
      BY <1>1, Types DEF PRRow
    <3>3. st.cycle = MaxCycles /\ notices[PR] > 0
      BY <1>1, <3>1 DEF BudgetInv, WithinBudget, Noticing, AnswerInv, NoticeShown
    <3> HIDE DEF row
    <3> QED
      BY <1>1, <3>1, <3>2, <3>3, Types
  <2>4. ~(\E d \in Deliveries : Deliver(d)) /\ ~(UNCHANGED vars)
    BY DEF Deliver, workerVars, vars
  <2> QED
    BY <1>1, <2>1, <2>2, <2>3, <2>4
    DEF Next, WorkerStep, Claim, ClaimNothing, Wake, Leave, StartReview, FetchDiff,
        EngineReview, EngineError, SelectFresh, PostInline, PostAccepted, PostRejected,
        Record, PostedAll, PostSummary, SummaryLost, SaveSummary, PostNotice, StoreError,
        ForgeError, Succeed, Fail, Sleep, Report, EndJob, Stop, Crash, Restart, Goto, Return
<1>2. TypeOK /\ BudgetInv /\ AnswerInv /\ [Next]_vars => [Answered]_vars
  BY <1>1
<1> QED
  BY <1>2, TypeCorrect, BudgetCorrect, AnswersCorrect, PTL DEF Spec, SuccessMeansAnswered

----------------------------------------------------------------------------
(* One pass per job and per new head *)

LEMMA JobTypes ==
  ASSUME TypeOK
  PROVE  /\ jobs \in Seq(JobRow)
         /\ \A id \in DOMAIN jobs : /\ id \in Nat \ {0} /\ jobs[id] \in JobRow
                                   /\ jobs[id].pr \in PRs
         /\ resets \subseteq DOMAIN jobs /\ spent \subseteq DOMAIN jobs
         /\ pc \notin Idle <=> job \in DOMAIN jobs
<1>1. jobs \in Seq(JobRow)
  BY DEF TypeOK, StoreTypeOK
<1>2. \A id \in DOMAIN jobs : id \in Nat \ {0} /\ jobs[id] \in JobRow
  BY <1>1
<1>3. \A id \in DOMAIN jobs : jobs[id].pr \in PRs
  BY <1>2 DEF JobRow
<1> QED
  BY <1>1, <1>2, <1>3 DEF TypeOK, HistoryTypeOK, WorkerTypeOK

\* A job that was tried and can be tried again is the one in work, if one is.
LEMMA OneUnsettled ==
  ASSUME TypeOK, QueueInv, pc \notin Idle \cup {"sleep", "report"},
         NEW id \in DOMAIN jobs, jobs[id].attempts > 0, jobs[id].state \in Runnable
  PROVE  id = job
<1>1. /\ job \in DOMAIN jobs /\ jobs[job].attempts > 0
      /\ jobs[job].state = "running"
  BY JobTypes DEF QueueInv, HeldJob
<1>2. ~(id < job)
  <2> SUFFICES ASSUME id < job PROVE FALSE
    OBVIOUS
  <2>1. id \in 1..(job - 1)
    BY <1>1, JobTypes
  <2>2. jobs[id].state \in {"done", "dead"}
    BY <1>1, <2>1 DEF QueueInv, SettledInOrder
  <2> QED
    BY <2>2 DEF Runnable
<1>3. ~(job < id)
  <2> SUFFICES ASSUME job < id PROVE FALSE
    OBVIOUS
  <2>1. job \in 1..(id - 1)
    BY <1>1, JobTypes
  <2>2. jobs[job].state \in {"done", "dead"}
    BY <2>1 DEF QueueInv, SettledInOrder
  <2> QED
    BY <1>1, <2>2
<1> QED
  BY <1>1, <1>2, <1>3, JobTypes

\* What a step does to the rows of jobs: their identity stays, and no settled
\* job becomes runnable again.
LEMMA RowsKept ==
  ASSUME TypeOK, QueueInv, [Next]_vars
  PROVE  \A id \in DOMAIN jobs :
           /\ id \in DOMAIN jobs'
           /\ jobs'[id].pr = jobs[id].pr
           /\ jobs'[id].head = jobs[id].head
           /\ jobs'[id].event = jobs[id].event
           /\ jobs'[id].state \in Runnable => jobs[id].state \in Runnable
<1>1. CASE \E d \in Deliveries : Deliver(d)
  BY <1>1, EnqueueEffect, WorkerAssumption DEF Deliver, Delivery, TypeOK
<1>2. ASSUME NEW id \in DOMAIN jobs, jobs[id].state \in Runnable,
             DOMAIN jobs' = DOMAIN jobs,
             \A k \in DOMAIN jobs : k # id => jobs'[k] = jobs[k],
             jobs'[id].pr = jobs[id].pr,
             jobs'[id].head = jobs[id].head,
             jobs'[id].event = jobs[id].event
      PROVE  \A k \in DOMAIN jobs :
               /\ k \in DOMAIN jobs'
               /\ jobs'[k].pr = jobs[k].pr
               /\ jobs'[k].head = jobs[k].head
               /\ jobs'[k].event = jobs[k].event
               /\ jobs'[k].state \in Runnable => jobs[k].state \in Runnable
  BY <1>2
<1>3. CASE Claim
  <2>1. PICK id \in DOMAIN jobs : ClaimNext(id)
    BY <1>3 DEF Claim
  <2>2. /\ DOMAIN jobs' = DOMAIN jobs
        /\ \A k \in DOMAIN jobs : k # id => jobs'[k] = jobs[k]
        /\ jobs[id].state \in Runnable
        /\ jobs'[id] = [jobs[id] EXCEPT !.state = "running",
                                        !.attempts = jobs[id].attempts + 1]
    BY <2>1, ClaimEffect DEF TypeOK
  <2>3. jobs[id] \in JobRow
    BY JobTypes
  <2>4. /\ jobs'[id].pr = jobs[id].pr
        /\ jobs'[id].head = jobs[id].head
        /\ jobs'[id].event = jobs[id].event
    BY <2>2, <2>3 DEF JobRow
  <2> QED
    BY <1>2, <2>2, <2>4
<1>4. CASE (Succeed \/ Fail) /\ jobs' # jobs
  <2>1. PICK s \in JobStates : Finish(job, s)
    BY <1>4 DEF Succeed, Fail, TryFinish, storeVars, JobStates
  <2>2. /\ job \in DOMAIN jobs /\ jobs[job] \in JobRow
        /\ jobs[job].state \in Runnable
    BY <1>4, JobTypes DEF Succeed, Fail, Idle, QueueInv, HeldJob, Runnable
  <2>3. /\ DOMAIN jobs' = DOMAIN jobs
        /\ \A k \in DOMAIN jobs : k # job => jobs'[k] = jobs[k]
        /\ jobs'[job] = [jobs[job] EXCEPT !.state = s]
    BY <2>1, <2>2, FinishEffect DEF TypeOK
  <2>4. /\ jobs'[job].pr = jobs[job].pr
        /\ jobs'[job].head = jobs[job].head
        /\ jobs'[job].event = jobs[job].event
    BY <2>2, <2>3 DEF JobRow
  <2> QED
    BY <1>2, <2>2, <2>3, <2>4
<1>5. CASE jobs' = jobs
  BY <1>5
<1> QED
  BY <1>1, <1>3, <1>4, <1>5, StepShapes
  DEF Stop, Crash, ReviewStep, GiveUpStep, IdleStep, vars, storeVars

\* Saving the cycle is what consumes a pass, the reset what opens a budget.
LEMMA HistoryShapes ==
  ASSUME [Next]_vars
  PROVE  /\ SaveCycle \/ spent' = spent
         /\ StartReview \/ resets' = resets
<1> USE DEF Suffer, StoreFails, ForgeRefuses, ResponseLost, historyVars
<1>1. CASE (\E d \in Deliveries : Deliver(d)) \/ UNCHANGED vars
  BY <1>1 DEF Deliver, vars
<1>2. CASE StartReview
  BY <1>2 DEF StartReview, NewBudget
<1>3. CASE SaveCycle
  BY <1>3 DEF SaveCycle
<1>4. CASE \/ Claim \/ ClaimNothing \/ Wake \/ Leave \/ ReadState \/ FetchDiff
           \/ EngineReview \/ EngineError \/ SelectFresh \/ PostInline \/ Record
           \/ PostedAll \/ PostSummary \/ SummaryLost \/ SaveSummary
  BY <1>4
  DEF Claim, ClaimNothing, Wake, Leave, ReadState, FetchDiff, EngineReview, EngineError,
      SelectFresh, PostInline, PostAccepted, PostRejected, Record, PostedAll, PostSummary,
      SummaryLost, SaveSummary
<1>5. CASE \/ PostNotice \/ SaveNotice \/ StoreError \/ ForgeError \/ Succeed \/ Fail
           \/ Sleep \/ Report \/ Stop \/ Crash \/ Restart
  BY <1>5
  DEF PostNotice, SaveNotice, StoreError, ForgeError, Succeed, Fail, TryFinish, Sleep,
      Report, Stop, Crash, Restart
<1> QED
  BY <1>1, <1>2, <1>3, <1>4, <1>5 DEF Next, WorkerStep

LEMMA PassInit == Init => PassInv
  BY DEF Init, PassInv, HeadRecorded, NewHead, Reviewing, Saving

\* The head of the passes of each PR and the jobs that consumed one.
LEMMA PassStep ==
  ASSUME TypeOK, TypeOK', QueueInv, BudgetInv, AnswerInv, PassInv, [Next]_vars
  PROVE  PassInv'
<1>1. ASSUME \A p \in PRs : prReviews'[p].lastReviewedSHA = prReviews[p].lastReviewedSHA,
             spent' = spent
      PROVE  HeadRecorded'
  <2> SUFFICES ASSUME NEW id \in spent, jobs'[id].state \in Runnable
               PROVE  prReviews'[jobs'[id].pr].lastReviewedSHA = jobs'[id].head
    BY <1>1 DEF HeadRecorded
  <2>1. id \in DOMAIN jobs /\ jobs[id].pr \in PRs
    BY JobTypes
  <2>2. /\ jobs'[id].pr = jobs[id].pr /\ jobs'[id].head = jobs[id].head
        /\ jobs[id].state \in Runnable
    BY <2>1, RowsKept
  <2> QED
    BY <1>1, <2>1, <2>2 DEF PassInv, HeadRecorded
<1>2. ASSUME pc \in Reviewing \cup Saving, spent' = spent,
             job' = job, st'.lastReviewedSHA = st.lastReviewedSHA
      PROVE  NewHead'
  <2>1. job \in DOMAIN jobs
    BY <1>2, JobTypes DEF Reviewing, Saving, Idle
  <2>2. Row'.head = Row.head
    BY <1>2, <2>1, RowsKept DEF Row
  <2> QED
    BY <1>2, <2>2 DEF PassInv, NewHead
<1>3. pc' \notin Reviewing \cup Saving => NewHead'
  BY DEF NewHead
<1>4. CASE QuietStep \/ SummaryLost \/ PostNotice
  <2>1. /\ prReviews' = prReviews /\ spent' = spent
        /\ pc' \notin Reviewing \cup Saving
    BY <1>4, HistoryShapes
    DEF QuietStep, dataVars, InUse, SummaryLost, PostNotice, SaveCycle, SavePRState,
        storeVars, Return, Goto, Reviewing, Saving
  <2> QED
    BY <1>1, <1>3, <2>1 DEF PassInv
<1>5. CASE OtherStep \/ OnwardStep \/ PostInline \/ Record \/ PostSummary
  <2>1. /\ prReviews' = prReviews /\ job' = job
        /\ pc' \in Reviewing \cup Saving => pc \in Reviewing \cup Saving
        /\ st'.lastReviewedSHA = st.lastReviewedSHA
    <3>1. CASE OtherStep \/ OnwardStep \/ PostInline \/ Record
      BY <1>5, <3>1
      DEF OtherStep, OnwardStep, dataVars, PostInline, Record, RecordFingerprint, storeVars,
          Reviewing, Saving
    <3>2. CASE PostSummary
      BY <3>2, Types DEF PostSummary, storeVars, PRRow, Reviewing, Saving
    <3> QED
      BY <1>5, <3>1, <3>2
  <2>2. spent' = spent
    BY <1>5, HistoryShapes
    DEF SaveCycle, OtherStep, OnwardStep, PostInline, Record, PostSummary, Return, Reviewing
  <2> QED
    BY <1>1, <1>2, <1>3, <2>1, <2>2 DEF PassInv
<1>6. CASE ReadState
  <2>1. /\ pc = "readState" /\ prReviews' = prReviews /\ spent' = spent
    BY <1>6, HistoryShapes DEF ReadState, SaveCycle, storeVars
  <2>2. CASE pc' = "fetch"
    <3>1. /\ Decision(prReviews[PR]) = "fetch" /\ st' = prReviews[PR] /\ job' = job
          /\ jobs' = jobs
      BY <1>6, <2>2 DEF ReadState, Return, storeVars
    <3>2. prReviews[PR].lastReviewedSHA # Row.head
      BY <3>1 DEF Decision
    <3>3. job \notin spent
      BY <2>1, <3>2 DEF PassInv, HeadRecorded, QueueInv, HeldJob, Idle, Runnable, PR, Row
    <3> QED
      BY <1>1, <2>1, <3>1, <3>2, <3>3 DEF PassInv, NewHead, Row
  <2>3. CASE pc' # "fetch"
    <3>1. pc' \in {"succeed", "notice"}
      BY <1>6, <2>3 DEF ReadState, Decision, Return
    <3> QED
      BY <1>1, <1>3, <2>1, <3>1 DEF PassInv, Reviewing, Saving
  <2> QED
    BY <2>2, <2>3
<1>7. CASE pc = "reset" /\ MustReset /\ NewBudget(PR) /\ Goto("readState")
  <2>1. spent' = spent /\ jobs' = jobs /\ pc' = "readState"
    BY <1>7 DEF NewBudget, ResetPRState, Goto
  <2>2. \A id \in spent : jobs[id].state \notin Runnable
    <3> SUFFICES ASSUME NEW id \in spent, jobs[id].state \in Runnable PROVE FALSE
      OBVIOUS
    <3>1. id = job /\ jobs[id].attempts > 1
      BY <1>7, OneUnsettled, JobTypes DEF AnswerInv, TriedBefore, Idle
    <3> QED
      BY <1>7, <3>1 DEF MustReset, Row
  <2> QED
    BY <1>3, <2>1, <2>2 DEF PassInv, HeadRecorded, Reviewing, Saving
<1>8. CASE SaveSummary
  <2>1. /\ pc = "saveSummary" /\ job' = job /\ st' = st
        /\ prReviews' = [prReviews EXCEPT ![PR] = st] /\ PR \in PRs
        /\ st.lastReviewedSHA = prReviews[PR].lastReviewedSHA
    BY <1>8, Types
    DEF SaveSummary, SavePRState, Goto, localVars, Idle, BudgetInv, SnapshotFresh
  <2>2. spent' = spent
    BY <2>1, HistoryShapes DEF SaveCycle
  <2>3. \A p \in PRs : prReviews'[p].lastReviewedSHA = prReviews[p].lastReviewedSHA
    BY <2>1, Types
  <2> QED
    BY <1>1, <1>2, <2>1, <2>2, <2>3 DEF PassInv, Saving
<1>9. CASE SaveCycle
  <2> DEFINE row == [st EXCEPT !.cycle = Pass, !.lastReviewedSHA = Row.head]
  <2>1. /\ pc = "saveCycle" /\ pc' = "succeed" /\ spent' = spent \cup {job}
        /\ prReviews' = [prReviews EXCEPT ![PR] = row] /\ PR \in PRs
        /\ jobs' = jobs
    BY <1>9, Types DEF SaveCycle, SavePRState, Return, Idle
  <2>2. row.lastReviewedSHA = Row.head
    BY Types DEF PRRow
  <2> HIDE DEF row
  <2>3. \A id \in spent' : jobs[id].state \in Runnable => id = job
    BY <2>1, OneUnsettled, JobTypes DEF AnswerInv, TriedBefore, Idle
  <2>4. prReviews'[jobs[job].pr].lastReviewedSHA = jobs[job].head
    BY <2>1, <2>2, Types DEF PR, Row
  <2> QED
    BY <1>3, <2>1, <2>3, <2>4 DEF PassInv, HeadRecorded, Reviewing, Saving
<1>10. CASE SaveNotice
  <2>1. /\ pc = "saveNotice" /\ pc' = "succeed" /\ PR \in PRs
        /\ prReviews' = [prReviews EXCEPT ![PR] = [st EXCEPT !.budgetNoticePosted = TRUE]]
        /\ st = prReviews[PR]
    BY <1>10, Types DEF SaveNotice, SavePRState, Return, Idle, BudgetInv, SnapshotFresh
  <2>2. spent' = spent
    BY <2>1, HistoryShapes DEF SaveCycle
  <2>3. [st EXCEPT !.budgetNoticePosted = TRUE].lastReviewedSHA = st.lastReviewedSHA
    BY Types DEF PRRow
  <2>4. \A p \in PRs : prReviews'[p].lastReviewedSHA = prReviews[p].lastReviewedSHA
    BY <2>1, <2>3, Types
  <2> QED
    BY <1>1, <1>3, <2>1, <2>2, <2>4 DEF PassInv, Reviewing, Saving
<1> QED
  BY <1>4, <1>5, <1>6, <1>7, <1>8, <1>9, <1>10, DataShapes

\* A job consumes its pass once, for a head not yet recorded, and is not
\* reviewed again on a retry.
THEOREM PassesCorrect == Spec => []PassInv
<1>1. Init => PassInv
  BY PassInit
<1>2. /\ TypeOK /\ TypeOK' /\ QueueInv /\ BudgetInv /\ AnswerInv /\ PassInv
      /\ [Next]_vars
      => PassInv'
  BY PassStep
<1> QED
  BY <1>1, <1>2, TypeCorrect, QueueCorrect, BudgetCorrect, AnswersCorrect, PTL DEF Spec

----------------------------------------------------------------------------
(* The mapping *)

\* What the worker's state says about the ledger.
Ledger == [id \in DOMAIN jobs |->
             [pr |-> jobs[id].pr, head |-> jobs[id].head,
              event |-> jobs[id].event, fate |-> Fate(jobs[id].state)]]
Passes == [p \in PRs |-> prReviews[p].cycle]
LastHead == [p \in PRs |-> prReviews[p].lastReviewedSHA]

LEMMA LedgerFacts ==
  ASSUME TypeOK
  PROVE  /\ DOMAIN Ledger = DOMAIN jobs
         /\ \A id \in DOMAIN jobs :
              /\ Ledger[id].pr = jobs[id].pr
              /\ Ledger[id].head = jobs[id].head
              /\ Ledger[id].event = jobs[id].event
              /\ Ledger[id].fate = Fate(jobs[id].state)
  BY DEF Ledger

LEMMA ServiceInit == Init => Service!Init
<1> SUFFICES ASSUME Init PROVE Service!Init
  OBVIOUS
<1>1. /\ jobs = <<>> /\ prReviews = [p \in PRs |-> ZeroPRState]
      /\ resets = {} /\ spent = {}
  BY DEF Init, StoreInit
<1>2. Ledger = <<>>
  BY <1>1 DEF Ledger
<1>3. Passes = [p \in PRs |-> 0] /\ LastHead = [p \in PRs |-> NoSHA]
  BY <1>1 DEF Passes, LastHead, ZeroPRState
<1> QED
  BY <1>1, <1>2, <1>3 DEF Service!Init, Ledger, Passes, LastHead

\* The oldest unsettled job is the one in work.
LEMMA TurnOfJob ==
  ASSUME TypeOK, QueueInv, pc \notin Idle \cup {"sleep", "report"}
  PROVE  Service!Turn(job)
<1>1. /\ job \in DOMAIN jobs /\ job \in Nat /\ jobs[job].attempts > 0
      /\ jobs[job].state = "running"
  BY JobTypes DEF QueueInv, HeldJob
<1>2. /\ job \in DOMAIN Ledger
      /\ Ledger[job].fate = "pending"
  BY <1>1, LedgerFacts DEF Fate
<1>3. \A k \in 1..(job - 1) : Ledger[k].fate # "pending"
  <2> SUFFICES ASSUME NEW k \in 1..(job - 1) PROVE Ledger[k].fate # "pending"
    OBVIOUS
  <2>1. k \in DOMAIN jobs
    BY <1>1, JobTypes
  <2>2. jobs[k].state \in {"done", "dead"}
    BY <1>1 DEF QueueInv, SettledInOrder
  <2> QED
    BY <2>1, <2>2, LedgerFacts DEF Fate
<1> QED
  BY <1>2, <1>3 DEF Service!Turn, Ledger

\* The ledger stays when no job changes sides between pending and settled.
LEMMA LedgerSame ==
  ASSUME TypeOK, QueueInv, [Next]_vars, DOMAIN jobs' = DOMAIN jobs,
         \A id \in DOMAIN jobs : Fate(jobs'[id].state) = Fate(jobs[id].state)
  PROVE  Ledger' = Ledger
<1>1. \A id \in DOMAIN jobs : /\ jobs'[id].pr = jobs[id].pr
                              /\ jobs'[id].head = jobs[id].head
                              /\ jobs'[id].event = jobs[id].event
  BY RowsKept
<1> QED
  BY <1>1 DEF Ledger

\* A new row is a new entry of the ledger.
LEMMA DeliverMaps ==
  ASSUME TypeOK, NEW d \in Deliveries, Deliver(d)
  PROVE  Service!Next \/ UNCHANGED Service!serviceVars
<1> DEFINE row == [pr |-> d.pr, head |-> d.head, event |-> d.event,
                   state |-> "queued", attempts |-> 0]
           entry == [pr |-> d.pr, head |-> d.head, event |-> d.event,
                     fate |-> "pending"]
<1>1. /\ Passes' = Passes /\ LastHead' = LastHead
      /\ resets' = resets /\ spent' = spent
  BY DEF Deliver, Enqueue, historyVars, Passes, LastHead
<1>2. CASE Known(d)
  <2>1. Ledger' = Ledger
    BY <1>2 DEF Deliver, Enqueue, Ledger
  <2> QED
    BY <1>1, <2>1 DEF Service!serviceVars, Ledger, Passes, LastHead
<1>3. CASE ~Known(d)
  <2>1. jobs' = Append(jobs, row) /\ jobs \in Seq(JobRow) /\ Len(jobs) \in Nat
    BY <1>3, JobTypes DEF Deliver, Enqueue
  <2>2. d \in Delivery
    BY WorkerAssumption
  <2>3. row \in JobRow
    BY <2>2 DEF Delivery, JobRow, JobStates
  <2>4. /\ DOMAIN jobs' = 1..(Len(jobs) + 1) /\ DOMAIN jobs = 1..Len(jobs)
        /\ \A k \in 1..Len(jobs) : jobs'[k] = jobs[k]
        /\ jobs'[Len(jobs) + 1] = row
    <3> HIDE DEF row
    <3> QED
      BY <2>1, <2>3
  <2>5. Ledger' = [k \in 1..(Len(jobs) + 1) |->
                     IF k = Len(jobs) + 1 THEN entry ELSE Ledger[k]]
    <3>1. [pr |-> row.pr, head |-> row.head, event |-> row.event,
           fate |-> Fate(row.state)] = entry
      BY DEF Fate
    <3> HIDE DEF row, entry
    <3>2. \A k \in 1..(Len(jobs) + 1) :
            Ledger'[k] = IF k = Len(jobs) + 1 THEN entry ELSE Ledger[k]
      BY <2>1, <2>4, <3>1 DEF Ledger
    <3>3. DOMAIN Ledger' = 1..(Len(jobs) + 1)
      BY <2>4 DEF Ledger
    <3>4. Ledger' = [k \in DOMAIN Ledger' |-> Ledger'[k]]
      BY DEF Ledger
    <3> QED
      BY <3>2, <3>3, <3>4
  <2>6. Ledger' = Append(Ledger, entry)
    <3> DEFINE S == {Ledger[k] : k \in DOMAIN jobs} \cup {entry}
    <3> HIDE DEF entry
    <3>1. /\ Ledger = [k \in 1..Len(jobs) |-> Ledger[k]]
          /\ \A k \in 1..Len(jobs) : Ledger[k] \in S
      BY <2>4 DEF Ledger
    <3>2. Ledger \in [1..Len(jobs) -> S] /\ entry \in S
      <4> HIDE DEF S
      <4>1. Ledger \in [1..Len(jobs) -> S]
        BY <3>1
      <4> QED
        BY <4>1 DEF S
    <3> HIDE DEF S
    <3>3. Ledger \in Seq(S) /\ Len(Ledger) = Len(jobs)
      BY <2>1, <3>2
    <3>4. /\ Append(Ledger, entry) \in Seq(S)
          /\ Len(Append(Ledger, entry)) = Len(jobs) + 1
          /\ \A k \in 1..(Len(jobs) + 1) : Append(Ledger, entry)[k] =
               IF k = Len(jobs) + 1 THEN entry ELSE Ledger[k]
      BY <2>1, <3>2, <3>3
    <3>5. Append(Ledger, entry) =
            [k \in 1..(Len(jobs) + 1) |-> Append(Ledger, entry)[k]]
      <4>1. \A q \in Seq(S) : q = [k \in 1..Len(q) |-> q[k]]
        OBVIOUS
      <4> QED
        BY <3>4, <4>1, Zenon
    <3> QED
      BY <2>5, <3>4, <3>5
  <2>7. \A k \in DOMAIN jobs :
          ~(/\ Ledger[k].pr = d.pr
            /\ Ledger[k].head = d.head
            /\ (Ledger[k].event = "reopened") = (d.event = "reopened"))
    BY <1>3, LedgerFacts DEF Known, DeliveryID
  <2>8. Service!Accept(d)
    BY <1>1, <2>6, <2>7, LedgerFacts
    DEF Service!Accept, Service!Accepted, Ledger, Passes, LastHead
  <2> QED
    BY <2>8 DEF Service!Next
<1> QED
  BY <1>2, <1>3

\* Done and dead are for good, every other end of a try leaves the job pending.
LEMMA FinishMaps ==
  ASSUME TypeOK, QueueInv, [Next]_vars, NEW s \in {"done", "failed", "dead"},
         pc \in {"succeed", "fail"}, Finish(job, s), UNCHANGED historyVars
  PROVE  Service!Next \/ UNCHANGED Service!serviceVars
<1>1. /\ job \in DOMAIN jobs /\ jobs[job] \in JobRow
      /\ jobs[job].state = "running"
  BY JobTypes DEF Idle, QueueInv, HeldJob
<1>2. /\ DOMAIN jobs' = DOMAIN jobs
      /\ \A k \in DOMAIN jobs : k # job => jobs'[k] = jobs[k]
      /\ jobs'[job] = [jobs[job] EXCEPT !.state = s]
  BY <1>1, FinishEffect DEF TypeOK, JobStates
<1>3. jobs'[job].state = s
  BY <1>1, <1>2 DEF JobRow
<1>4. /\ Passes' = Passes /\ LastHead' = LastHead
      /\ resets' = resets /\ spent' = spent
  BY DEF Finish, historyVars, Passes, LastHead
<1>5. CASE s = "failed"
  <2>1. Ledger' = Ledger
    BY <1>1, <1>2, <1>3, <1>5, LedgerSame DEF Fate
  <2> QED
    BY <1>4, <2>1 DEF Service!serviceVars, Ledger, Passes, LastHead
<1>6. CASE s \in {"done", "dead"}
  <2>1. Ledger' = [Ledger EXCEPT ![job].fate = s]
    <3>1. \A id \in DOMAIN jobs : /\ jobs'[id].pr = jobs[id].pr
                                  /\ jobs'[id].head = jobs[id].head
                                  /\ jobs'[id].event = jobs[id].event
      BY RowsKept
    <3>2. \A id \in DOMAIN jobs :
            Ledger'[id] = IF id = job THEN [Ledger[job] EXCEPT !.fate = s] ELSE Ledger[id]
      BY <1>1, <1>2, <1>3, <1>6, <3>1 DEF Ledger, Fate
    <3> QED
      BY <1>2, <3>2 DEF Ledger
  <2>2. Service!Turn(job)
    BY TurnOfJob DEF Idle
  <2>3. Service!Settle(job, s)
    BY <1>4, <2>1, <2>2 DEF Service!Settle, Ledger, Passes, LastHead
  <2> QED
    BY <1>1, <1>6, <2>3, LedgerFacts DEF Service!Next, Ledger
<1> QED
  BY <1>5, <1>6

\* Opening a budget, consuming a pass, or nothing the ledger tells.
LEMMA ReviewMaps ==
  ASSUME TypeOK, QueueInv, BudgetInv, AnswerInv, PassInv, [Next]_vars, jobs' = jobs
  PROVE  Service!Next \/ UNCHANGED Service!serviceVars
<1>1. Ledger' = Ledger
  BY DEF Ledger
<1>2. ASSUME \A p \in PRs : /\ prReviews'[p].cycle = prReviews[p].cycle
                            /\ prReviews'[p].lastReviewedSHA = prReviews[p].lastReviewedSHA,
             UNCHANGED <<resets, spent>>
      PROVE  UNCHANGED Service!serviceVars
  <2>1. Passes' = Passes /\ LastHead' = LastHead
    BY <1>2 DEF Passes, LastHead
  <2> QED
    BY <1>1, <1>2, <2>1 DEF Service!serviceVars, Ledger, Passes, LastHead
<1>3. CASE QuietStep \/ OtherStep \/ OnwardStep \/ ReadState \/ PostInline \/ Record
              \/ PostSummary \/ SummaryLost \/ PostNotice
  <2>1. prReviews' = prReviews
    BY <1>3
    DEF QuietStep, OtherStep, OnwardStep, dataVars, ReadState, storeVars, PostInline,
        Record, RecordFingerprint, PostSummary, SummaryLost, PostNotice
  <2>2. UNCHANGED <<resets, spent>>
    <3>1. CASE QuietStep
      BY <3>1 DEF QuietStep
    <3>2. CASE OtherStep \/ OnwardStep
      BY <3>2, HistoryShapes
      DEF OtherStep, OnwardStep, SaveCycle, StartReview, Return, Goto, Reviewing
    <3>3. CASE ReadState \/ PostInline \/ Record \/ PostSummary \/ SummaryLost
                 \/ PostNotice
      BY <3>3, HistoryShapes
      DEF ReadState, PostInline, Record, PostSummary, SummaryLost, PostNotice, SaveCycle,
          StartReview
    <3> QED
      BY <1>3, <3>1, <3>2, <3>3
  <2> QED
    BY <1>2, <2>1, <2>2
<1>4. CASE pc = "reset" /\ MustReset /\ NewBudget(PR) /\ Goto("readState")
  <2>1. /\ job \in DOMAIN jobs /\ PR \in PRs /\ Ledger[job].pr = PR
        /\ Ledger[job].event = "reopened"
    BY <1>4, JobTypes, LedgerFacts DEF MustReset, PR, Row, Idle
  <2>2. job \notin resets \cup spent
    BY <1>4 DEF MustReset, Row, AnswerInv, TriedBefore
  <2>3. /\ prReviews' = [prReviews EXCEPT ![PR] = ZeroPRState]
        /\ resets' = resets \cup {job} /\ spent' = spent
    BY <1>4 DEF NewBudget, ResetPRState
  <2>4. /\ Passes' = [Passes EXCEPT ![PR] = 0]
        /\ LastHead' = [LastHead EXCEPT ![PR] = NoSHA]
    BY <2>1, <2>3, Types DEF Passes, LastHead, ZeroPRState
  <2>5. Service!Turn(job)
    BY <1>4, TurnOfJob DEF Idle
  <2>6. PICK id \in DOMAIN jobs : id = job
    BY <2>1
  <2>7. Service!OpenBudget(id)
    BY <1>1, <2>1, <2>2, <2>3, <2>4, <2>5, <2>6
    DEF Service!OpenBudget, Service!Turn, Ledger, Passes, LastHead
  <2> QED
    BY <2>7 DEF Service!Next
<1>5. CASE SaveSummary
  <2>1. /\ pc = "saveSummary" /\ PR \in PRs
        /\ prReviews' = [prReviews EXCEPT ![PR] = st]
        /\ st.cycle = prReviews[PR].cycle
        /\ st.lastReviewedSHA = prReviews[PR].lastReviewedSHA
        /\ UNCHANGED <<resets, spent>>
    BY <1>5, Types DEF SaveSummary, SavePRState, Idle, BudgetInv, SnapshotFresh, historyVars
  <2> QED
    BY <1>2, <2>1, Types
<1>6. CASE SaveCycle
  <2> DEFINE row == [st EXCEPT !.cycle = Pass, !.lastReviewedSHA = Row.head]
  <2>1. /\ pc = "saveCycle" /\ job \in DOMAIN jobs /\ PR \in PRs
        /\ Ledger[job].pr = PR /\ Ledger[job].head = Row.head
    BY <1>6, JobTypes, LedgerFacts DEF SaveCycle, PR, Row, Idle
  <2>2. /\ prReviews' = [prReviews EXCEPT ![PR] = row]
        /\ spent' = spent \cup {job} /\ resets' = resets
    BY <1>6 DEF SaveCycle, SavePRState
  <2>3. /\ st = prReviews[PR] /\ st.cycle < MaxCycles
        /\ st.lastReviewedSHA # Row.head /\ job \notin spent
    BY <2>1 DEF BudgetInv, SnapshotFresh, WithinBudget, PassInv, NewHead, Saving
  <2>4. row.cycle = st.cycle + 1 /\ row.lastReviewedSHA = Row.head
    BY Types DEF PRRow, Pass
  <2>5. Passes[PR] = st.cycle /\ LastHead[PR] = st.lastReviewedSHA
    BY <2>1, <2>3 DEF Passes, LastHead
  <2>6. /\ Passes' = [Passes EXCEPT ![PR] = Passes[PR] + 1]
        /\ LastHead' = [LastHead EXCEPT ![PR] = Row.head]
    <3> HIDE DEF row
    <3> QED
      BY <2>1, <2>2, <2>4, <2>5, Types DEF Passes, LastHead
  <2>7. Service!Turn(job)
    BY <2>1, TurnOfJob DEF Idle
  <2>8. PICK id \in DOMAIN jobs : id = job
    BY <2>1
  <2>9. Service!Consume(id)
    BY <1>1, <2>1, <2>2, <2>3, <2>5, <2>6, <2>7, <2>8
    DEF Service!Consume, Service!Turn, Ledger, Passes, LastHead
  <2> QED
    BY <2>9 DEF Service!Next
<1>7. CASE SaveNotice
  <2> DEFINE row == [st EXCEPT !.budgetNoticePosted = TRUE]
  <2>1. /\ pc = "saveNotice" /\ PR \in PRs
        /\ prReviews' = [prReviews EXCEPT ![PR] = row]
        /\ st = prReviews[PR]
        /\ UNCHANGED <<resets, spent>>
    BY <1>7, Types DEF SaveNotice, SavePRState, Idle, BudgetInv, SnapshotFresh, historyVars
  <2>2. row.cycle = st.cycle /\ row.lastReviewedSHA = st.lastReviewedSHA
    BY Types DEF PRRow
  <2> HIDE DEF row
  <2> QED
    BY <1>2, <2>1, <2>2, Types
<1> QED
  BY <1>3, <1>4, <1>5, <1>6, <1>7, DataShapes

LEMMA ServiceStep ==
  ASSUME TypeOK, QueueInv, BudgetInv, AnswerInv, PassInv, [Next]_vars
  PROVE  Service!Next \/ UNCHANGED Service!serviceVars
<1>1. CASE \E d \in Deliveries : Deliver(d)
  BY <1>1, DeliverMaps
<1>2. CASE Claim
  <2>1. PICK id \in DOMAIN jobs : ClaimNext(id)
    BY <1>2 DEF Claim
  <2>2. /\ DOMAIN jobs' = DOMAIN jobs
        /\ \A k \in DOMAIN jobs : k # id => jobs'[k] = jobs[k]
        /\ jobs[id].state \in Runnable
        /\ jobs'[id] = [jobs[id] EXCEPT !.state = "running",
                                        !.attempts = jobs[id].attempts + 1]
        /\ prReviews' = prReviews
    BY <2>1, ClaimEffect DEF TypeOK
  <2>3. jobs'[id].state = "running"
    BY <2>2, JobTypes DEF JobRow
  <2>4. Ledger' = Ledger
    BY <2>2, <2>3, LedgerSame DEF Fate, Runnable
  <2>5. Passes' = Passes /\ LastHead' = LastHead /\ UNCHANGED <<resets, spent>>
    BY <1>2, <2>2 DEF Passes, LastHead, Claim, historyVars
  <2> QED
    BY <2>4, <2>5 DEF Service!serviceVars, Ledger, Passes, LastHead
<1>3. CASE (Succeed \/ Fail) /\ jobs' # jobs
  <2>1. /\ pc \in {"succeed", "fail"} /\ UNCHANGED historyVars
        /\ \E s \in {"done", "failed", "dead"} : Finish(job, s)
    BY <1>3 DEF Succeed, Fail, TryFinish, storeVars
  <2> QED
    BY <2>1, FinishMaps
<1>4. CASE jobs' = jobs
  BY <1>4, ReviewMaps
<1> QED
  BY <1>1, <1>2, <1>3, <1>4, StepShapes
  DEF Stop, Crash, ReviewStep, GiveUpStep, IdleStep, vars, storeVars

\* The worker, its retries, crashes and lost answers included, does nothing the
\* ledger does not allow: jobs settle in the order they were accepted and for
\* good, each opens at most one budget and consumes at most one pass, a pass is
\* for a new head and within the budget.
THEOREM WorkerImplementsService == Spec => ImplementsService
<1>1. Init => Service!Init
  BY ServiceInit
<1>2. /\ TypeOK /\ QueueInv /\ BudgetInv /\ AnswerInv /\ PassInv /\ [Next]_vars
      => [Service!Next]_(Service!serviceVars)
  BY ServiceStep
<1> QED
  BY <1>1, <1>2, TypeCorrect, QueueCorrect, BudgetCorrect, AnswersCorrect,
     PassesCorrect, PTL
  DEF Spec, ImplementsService, Service!Spec
=============================================================================

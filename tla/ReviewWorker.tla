---------------------------- MODULE ReviewWorker ----------------------------
(***************************************************************************)
(* internal/worker: the one goroutine that drains the queue of Store and   *)
(* runs review passes, together with what it leaves on the forge.          *)
(*                                                                         *)
(* One action is the code between two points where the process can lose    *)
(* control: every store statement, every forge call and the engine run is  *)
(* a step of its own, so deliveries, a stop (SIGTERM cancels the context)  *)
(* and a crash fall between any two of them.  A crash keeps the three      *)
(* tables and the forge and forgets every local of the goroutine.          *)
(*                                                                         *)
(* The forge keeps no idempotency key: a comment whose response is lost is *)
(* there all the same.  What is on the forge is recorded since the last    *)
(* reset of the PR's budget.                                               *)
(***************************************************************************)
EXTENDS Store

CONSTANTS
  MaxCycles,     \* PRW_MAX_CYCLES: passes per budget
  MaxAttempts,   \* PRW_MAX_ATTEMPTS: tries per job
  MaxComments,   \* PRW_MAX_COMMENTS: inline comments per pass, negative = no cap
  Announce,      \* PRW_ANNOUNCE_BUDGET_EXHAUSTED
  Served,        \* the PRs whose forge has a token configured
  Deliveries,    \* the jobs webhooks can ask for
  Faults,        \* the kinds of faults that may happen
  MaxFaults      \* bound on the crashes, stops, store errors, lost responses

\* "forge" is a call the forge definitely refused, "engine" a run that failed.
\* Those two are answers the code plans for and spend attempts; the other four
\* are counted in faults.
FaultKinds == {"crash", "stop", "db", "lost", "forge", "engine"}

Delivery == [pr : PRs, head : Heads, event : Events]

ASSUME WorkerAssumption ==
  /\ MaxCycles \in Nat \ {0}
  /\ MaxAttempts \in Nat \ {0}
  /\ MaxComments \in Int \ {0}
  /\ Announce \in BOOLEAN
  /\ Served \subseteq PRs
  /\ Deliveries \subseteq Delivery
  /\ Faults \subseteq FaultKinds
  /\ MaxFaults \in Nat

VARIABLES
  pc,         \* where the goroutine is
  ctx,        \* its context
  job,        \* id of the claimed job, 0 when none is held
  st,         \* the local copy of the PR's row
  found,      \* findings of this attempt at or above the severity bar
  fresh,      \* findings still to be commented inline
  unposted,   \* findings the summary has to list
  cur         \* the finding whose comment was just accepted, as a set

VARIABLES
  inline,     \* [PR -> [fingerprint -> number of inline comments]]
  summaries,  \* [PR -> summary comments]: a comment's id is its index
  notices,    \* [PR -> number of budget notices]
  reported    \* jobs whose failure note is on the forge

VARIABLES
  resets,     \* jobs that reset their PR's budget
  spent,      \* jobs that consumed a pass
  faults      \* faults so far

workerVars == <<pc, ctx, job, st, found, fresh, unposted, cur>>
localVars == <<ctx, job, st, found, fresh, unposted, cur>>
forgeVars == <<inline, summaries, notices, reported>>
historyVars == <<resets, spent, faults>>
vars == <<storeVars, workerVars, forgeVars, historyVars>>

PCs == {"claim", "wait", "reset", "readState", "fetch", "engine", "select",
        "post", "record", "summary", "saveSummary", "saveCycle", "notice",
        "saveNotice", "succeed", "fail", "sleep", "report", "down"}

\* No job is held here.
Idle == {"claim", "wait", "down"}

Summary == [cycle : Nat, head : Heads, listed : SUBSET Fingerprints]

WorkerTypeOK ==
  /\ pc \in PCs
  /\ ctx \in {"live", "cancelled"}
  /\ IF pc \in Idle THEN job = 0 ELSE job \in DOMAIN jobs
  /\ st \in PRRow
  /\ found \in SUBSET Fingerprints
  /\ fresh \in SUBSET Fingerprints
  /\ unposted \in SUBSET Fingerprints
  /\ cur \in SUBSET Fingerprints

ForgeTypeOK ==
  /\ inline \in [PRs -> [Fingerprints -> Nat]]
  /\ summaries \in [PRs -> Seq(Summary)]
  /\ notices \in [PRs -> Nat]
  /\ reported \subseteq DOMAIN jobs

HistoryTypeOK ==
  /\ resets \subseteq DOMAIN jobs
  /\ spent \subseteq DOMAIN jobs
  /\ faults \in 0..MaxFaults

TypeOK == StoreTypeOK /\ WorkerTypeOK /\ ForgeTypeOK /\ HistoryTypeOK

NoLocals ==
  /\ st' = ZeroPRState
  /\ found' = {}
  /\ fresh' = {}
  /\ unposted' = {}
  /\ cur' = {}

Init ==
  /\ StoreInit
  /\ pc = "claim"
  /\ ctx = "live"
  /\ job = 0
  /\ st = ZeroPRState
  /\ found = {} /\ fresh = {} /\ unposted = {} /\ cur = {}
  /\ inline = [p \in PRs |-> [fp \in Fingerprints |-> 0]]
  /\ summaries = [p \in PRs |-> <<>>]
  /\ notices = [p \in PRs |-> 0]
  /\ reported = {} /\ resets = {} /\ spent = {}
  /\ faults = 0

----------------------------------------------------------------------------
(* Faults and the context *)

Live == ctx = "live"

Suffer(kind) ==
  /\ kind \in Faults
  /\ faults < MaxFaults
  /\ faults' = faults + 1
  /\ UNCHANGED <<resets, spent>>

\* With the context cancelled every store statement fails before it runs.
StoreFails ==
  \/ ~Live /\ UNCHANGED historyVars
  \/ Live /\ Suffer("db")

\* The forge refused, or the context was cancelled before the request left.
ForgeRefuses ==
  /\ ~Live \/ "forge" \in Faults
  /\ UNCHANGED historyVars

\* The forge acted but its answer never came back.
ResponseLost == Live /\ Suffer("lost")

----------------------------------------------------------------------------
(* Webhook deliveries: the HTTP handler enqueues in the same process *)

Deliver(d) ==
  /\ pc # "down"
  /\ Enqueue(d)
  /\ UNCHANGED <<workerVars, forgeVars, historyVars>>

----------------------------------------------------------------------------
(* Run *)

Row == jobs[job]
PR == Row.pr

\* The pass this attempt would be.
Pass == st.cycle + 1

Goto(label) == pc' = label /\ UNCHANGED localVars

\* review returns to runJob.
Return(label) == pc' = label /\ NoLocals /\ UNCHANGED <<ctx, job>>

Claim ==
  /\ pc = "claim"
  /\ Live
  /\ \E id \in DOMAIN jobs : ClaimNext(id) /\ job' = id
  /\ pc' = "reset"
  /\ UNCHANGED <<ctx, st, found, fresh, unposted, cur, forgeVars, historyVars>>

\* ErrNoJob, or a claim that failed: both wait for the next poll.
ClaimNothing ==
  /\ pc = "claim"
  /\ \/ Live /\ NoJob /\ UNCHANGED historyVars
     \/ StoreFails
  /\ Goto("wait")
  /\ UNCHANGED <<storeVars, forgeVars>>

\* The timer or a notification.  select may take either of them although the
\* context is cancelled too.
Wake ==
  /\ pc = "wait"
  /\ Goto("claim")
  /\ UNCHANGED <<storeVars, forgeVars, historyVars>>

\* Slip: shutdown does not end the loop.
LeaveNot ==
  /\ pc = "wait"
  /\ ~Live
  /\ Goto("claim")
  /\ UNCHANGED <<storeVars, forgeVars, historyVars>>

Leave ==
  /\ pc = "wait"
  /\ ~Live
  /\ Goto("down")
  /\ UNCHANGED <<storeVars, forgeVars, historyVars>>

\* Slip: the finished job is still held.
EndJobHolding ==
  /\ pc' = IF Live THEN "claim" ELSE "down"
  /\ UNCHANGED localVars

\* runJob returned.
EndJob ==
  /\ pc' = IF Live THEN "claim" ELSE "down"
  /\ job' = 0
  /\ UNCHANGED <<ctx, st, found, fresh, unposted, cur>>

----------------------------------------------------------------------------
(* review *)

\* Wiping the row empties the forge's record of the budget as well.
NewBudget(p) ==
  /\ ResetPRState(p)
  /\ inline' = [inline EXCEPT ![p] = [fp \in Fingerprints |-> 0]]
  /\ summaries' = [summaries EXCEPT ![p] = <<>>]
  /\ notices' = [notices EXCEPT ![p] = 0]
  /\ resets' = resets \cup {job}
  /\ UNCHANGED <<reported, spent, faults>>

MustReset == Row.event = "reopened" /\ Row.attempts = 1

StartReview ==
  /\ pc = "reset"
  /\ \/ /\ PR \notin Served
        /\ Return("fail")
        /\ UNCHANGED <<storeVars, forgeVars, historyVars>>
     \/ /\ PR \in Served
        /\ ~MustReset
        /\ Goto("readState")
        /\ UNCHANGED <<storeVars, forgeVars, historyVars>>
     \/ /\ PR \in Served
        /\ MustReset
        /\ Live
        /\ NewBudget(PR)
        /\ Goto("readState")

\* Slips: one pass too many; the head is not compared.
DecisionOneMore(s) ==
  IF s.cycle > MaxCycles
  THEN IF ~Announce \/ s.budgetNoticePosted THEN "succeed" ELSE "notice"
  ELSE IF s.lastReviewedSHA = Row.head THEN "succeed" ELSE "fetch"

DecisionAnyHead(s) ==
  IF s.cycle >= MaxCycles
  THEN IF ~Announce \/ s.budgetNoticePosted THEN "succeed" ELSE "notice"
  ELSE "fetch"

\* Where review goes on with the row it read.
Decision(s) ==
  IF s.cycle >= MaxCycles
  THEN IF ~Announce \/ s.budgetNoticePosted THEN "succeed" ELSE "notice"
  ELSE IF s.lastReviewedSHA = Row.head THEN "succeed" ELSE "fetch"

ReadState ==
  /\ pc = "readState"
  /\ Live
  /\ LET label == Decision(prReviews[PR]) IN
       IF label = "succeed" THEN Return(label)
       ELSE /\ st' = prReviews[PR]
            /\ pc' = label
            /\ UNCHANGED <<ctx, job, found, fresh, unposted, cur>>
  /\ UNCHANGED <<storeVars, forgeVars, historyVars>>

\* PullRequest and scopedDiff only read; a blank diff ends the review.
FetchDiff ==
  /\ pc = "fetch"
  /\ Live
  /\ Goto("engine") \/ Return("succeed")
  /\ UNCHANGED <<storeVars, forgeVars, historyVars>>

\* Any findings: two runs on one diff need not agree.
EngineReview ==
  /\ pc = "engine"
  /\ Live
  /\ found' \in SUBSET Fingerprints
  /\ pc' = "select"
  /\ UNCHANGED <<ctx, job, st, fresh, unposted, cur>>
  /\ UNCHANGED <<storeVars, forgeVars, historyVars>>

EngineError ==
  /\ pc = "engine"
  /\ ~Live \/ "engine" \in Faults
  /\ Return("fail")
  /\ UNCHANGED <<storeVars, forgeVars, historyVars>>

\* What the cap leaves of the unseen findings: the most severe ones, that is
\* any MaxComments of them.
Capped(fps) ==
  IF MaxComments < 0 \/ Cardinality(fps) <= MaxComments THEN {fps}
  ELSE {kept \in SUBSET fps : Cardinality(kept) = MaxComments}

SelectFresh ==
  /\ pc = "select"
  /\ Live
  /\ LET unseen == UnseenFingerprints(PR, found) IN
       \E kept \in Capped(unseen) : fresh' = kept /\ unposted' = unseen \ kept
  /\ pc' = "post"
  /\ UNCHANGED <<ctx, job, st, found, cur, storeVars, forgeVars, historyVars>>

Comment(fp) ==
  /\ inline' = [inline EXCEPT ![PR][fp] = @ + 1]
  /\ UNCHANGED <<summaries, notices, reported>>

PostAccepted(fp) ==
  /\ Live
  /\ Comment(fp)
  /\ cur' = {fp}
  /\ pc' = "record"
  /\ UNCHANGED <<unposted, historyVars>>

\* Slip: a rejected comment is only logged.
PostRejectedDropped(fp) ==
  /\ \/ ForgeRefuses /\ UNCHANGED forgeVars
     \/ ResponseLost /\ Comment(fp)
  /\ UNCHANGED <<pc, cur, unposted>>

\* An error answer leaves the finding to the summary and is no failure.
PostRejected(fp) ==
  /\ \/ ForgeRefuses /\ UNCHANGED forgeVars
     \/ ResponseLost /\ Comment(fp)
  /\ unposted' = unposted \cup {fp}
  /\ UNCHANGED <<pc, cur>>

PostInline ==
  /\ pc = "post"
  /\ \E fp \in fresh :
       /\ fresh' = fresh \ {fp}
       /\ PostAccepted(fp) \/ PostRejected(fp)
  /\ UNCHANGED <<ctx, job, st, found, storeVars>>

Record ==
  /\ pc = "record"
  /\ Live
  /\ \E fp \in cur : RecordFingerprint(PR, fp)
  /\ cur' = {}
  /\ pc' = "post"
  /\ UNCHANGED <<ctx, job, st, found, fresh, unposted, forgeVars, historyVars>>

PostedAll ==
  /\ pc = "post"
  /\ fresh = {}
  /\ Goto("summary")
  /\ UNCHANGED <<storeVars, forgeVars, historyVars>>

\* Slips: a retry posts anew; a later pass edits the summary of an earlier one.
EditsNever == FALSE
EditsAcrossPasses == st.summaryCommentID # 0

EditsSummary == st.summaryCommentID # 0 /\ st.summaryCycle = Pass

\* Edit the comment of this pass, or append a new one.
WriteSummary ==
  LET text == [cycle |-> Pass, head |-> Row.head, listed |-> unposted] IN
  /\ summaries' =
       IF EditsSummary
       THEN [summaries EXCEPT ![PR][st.summaryCommentID] = text]
       ELSE [summaries EXCEPT ![PR] = Append(@, text)]
  /\ UNCHANGED <<inline, notices, reported>>

\* The id the forge answers with.
SummaryID == IF EditsSummary THEN st.summaryCommentID ELSE Len(summaries[PR]) + 1

PostSummary ==
  /\ pc = "summary"
  /\ Live
  /\ WriteSummary
  /\ st' = [st EXCEPT !.summaryCommentID = SummaryID, !.summaryCycle = Pass]
  /\ pc' = "saveSummary"
  /\ UNCHANGED <<ctx, job, found, fresh, unposted, cur, storeVars, historyVars>>

SummaryLost ==
  /\ pc = "summary"
  /\ ResponseLost
  /\ WriteSummary
  /\ Return("fail")
  /\ UNCHANGED storeVars

\* Slip: the pass is counted with the first save already.
SaveSummaryAndCycle ==
  /\ pc = "saveSummary"
  /\ Live
  /\ SavePRState(PR, [st EXCEPT !.cycle = Pass])
  /\ Goto("saveCycle")
  /\ UNCHANGED <<forgeVars, historyVars>>

SaveSummary ==
  /\ pc = "saveSummary"
  /\ Live
  /\ SavePRState(PR, st)
  /\ Goto("saveCycle")
  /\ UNCHANGED <<forgeVars, historyVars>>

SaveCycle ==
  /\ pc = "saveCycle"
  /\ Live
  /\ SavePRState(PR, [st EXCEPT !.cycle = Pass, !.lastReviewedSHA = Row.head])
  /\ Return("succeed")
  /\ spent' = spent \cup {job}
  /\ UNCHANGED <<forgeVars, resets, faults>>

----------------------------------------------------------------------------
(* handleExhausted *)

Announced ==
  /\ notices' = [notices EXCEPT ![PR] = @ + 1]
  /\ UNCHANGED <<inline, summaries, reported>>

PostNotice ==
  /\ pc = "notice"
  /\ \/ Live /\ Goto("saveNotice") /\ UNCHANGED historyVars
     \/ ResponseLost /\ Return("fail")
  /\ Announced
  /\ UNCHANGED storeVars

\* Slip: the notice is posted and not remembered.
SaveNoticeNot ==
  /\ pc = "saveNotice"
  /\ Live
  /\ SavePRState(PR, st)
  /\ Return("succeed")
  /\ UNCHANGED <<forgeVars, historyVars>>

SaveNotice ==
  /\ pc = "saveNotice"
  /\ Live
  /\ SavePRState(PR, [st EXCEPT !.budgetNoticePosted = TRUE])
  /\ Return("succeed")
  /\ UNCHANGED <<forgeVars, historyVars>>

----------------------------------------------------------------------------
(* review returns an error *)

StoreError ==
  /\ \/ pc \in {"readState", "select", "record", "saveSummary", "saveCycle",
                "saveNotice"}
     \/ pc = "reset" /\ PR \in Served /\ MustReset
  /\ StoreFails
  /\ Return("fail")
  /\ UNCHANGED <<storeVars, forgeVars>>

ForgeError ==
  /\ pc \in {"fetch", "summary", "notice"}
  /\ ForgeRefuses
  /\ Return("fail")
  /\ UNCHANGED <<storeVars, forgeVars>>

----------------------------------------------------------------------------
(* runJob *)

\* An error from Finish is logged and the row keeps its state.
TryFinish(s) ==
  \/ Live /\ Finish(job, s) /\ UNCHANGED historyVars
  \/ StoreFails /\ UNCHANGED storeVars

Succeed ==
  /\ pc = "succeed"
  /\ TryFinish("done")
  /\ EndJob
  /\ UNCHANGED forgeVars

\* Slip: one attempt too many.
FailOneMore ==
  /\ pc = "fail"
  /\ IF Row.attempts <= MaxAttempts
     THEN TryFinish("failed") /\ Goto("sleep")
     ELSE TryFinish("dead") /\ Goto("report")
  /\ UNCHANGED forgeVars

Fail ==
  /\ pc = "fail"
  /\ IF Row.attempts < MaxAttempts
     THEN TryFinish("failed") /\ Goto("sleep")
     ELSE TryFinish("dead") /\ Goto("report")
  /\ UNCHANGED forgeVars

Sleep ==
  /\ pc = "sleep"
  /\ EndJob
  /\ UNCHANGED <<storeVars, forgeVars, historyVars>>

\* reportFailure: an error is logged and nothing comes back to it.
Report ==
  /\ pc = "report"
  /\ \/ /\ PR \in Served
        /\ (Live /\ UNCHANGED historyVars) \/ ResponseLost
        /\ reported' = reported \cup {job}
     \/ /\ PR \notin Served
        /\ UNCHANGED <<reported, historyVars>>
     \/ /\ PR \in Served
        /\ ForgeRefuses
        /\ UNCHANGED reported
  /\ EndJob
  /\ UNCHANGED <<storeVars, inline, summaries, notices>>

----------------------------------------------------------------------------
(* The process *)

\* SIGTERM or SIGINT.
Stop ==
  /\ pc # "down"
  /\ Live
  /\ Suffer("stop")
  /\ ctx' = "cancelled"
  /\ UNCHANGED <<pc, job, st, found, fresh, unposted, cur, storeVars, forgeVars>>

Crash ==
  /\ pc # "down"
  /\ Suffer("crash")
  /\ pc' = "down"
  /\ job' = 0
  /\ NoLocals
  /\ UNCHANGED <<ctx, storeVars, forgeVars>>

Restart ==
  /\ pc = "down"
  /\ pc' = "claim"
  /\ ctx' = "live"
  /\ UNCHANGED <<job, st, found, fresh, unposted, cur>>
  /\ UNCHANGED <<storeVars, forgeVars, historyVars>>

WorkerStep ==
  \/ Claim \/ ClaimNothing \/ Wake \/ Leave
  \/ StartReview \/ ReadState \/ FetchDiff \/ EngineReview \/ EngineError
  \/ SelectFresh \/ PostInline \/ Record \/ PostedAll
  \/ PostSummary \/ SummaryLost \/ SaveSummary \/ SaveCycle
  \/ PostNotice \/ SaveNotice \/ StoreError \/ ForgeError
  \/ Succeed \/ Fail \/ Sleep \/ Report

Next ==
  \/ \E d \in Deliveries : Deliver(d)
  \/ WorkerStep
  \/ Stop \/ Crash \/ Restart

Spec == Init /\ [][Next]_vars

\* Every call of the goroutine returns: HTTP calls have a client timeout, the
\* engine is killed at its own, SQLite has a busy timeout, waits have timers.
\* select takes a ready context sooner or later.  systemd restarts the unit.
Fairness == WF_vars(WorkerStep) /\ SF_vars(Leave) /\ WF_vars(Restart)

FairSpec == Spec /\ Fairness
----------------------------------------------------------------------------
(* Safety *)

\* The queue is first in, first out, retries included: a job is not tried
\* before every job ahead of it is done or dead (ClaimNext, Finish).
SettledInOrder ==
  \A id \in DOMAIN jobs : jobs[id].attempts > 0 =>
    \A k \in 1..(id - 1) : jobs[k].state \in {"done", "dead"}

\* A fingerprint that suppresses a finding stands for a comment the PR shows
\* (PostInline before RecordFingerprint, ResetPRState wiping both tables).
RecordedMeansPosted ==
  \A p \in PRs : \A fp \in postedComments[p] : inline[p][fp] >= 1

\* A consumed pass left its summary, and the last one is about the recorded
\* head (postSummary before the two saves, the edit confined to its pass).
PassesPublished ==
  \A p \in PRs : LET row == prReviews[p] IN
    /\ \A c \in 1..row.cycle :
         \E i \in DOMAIN summaries[p] : summaries[p][i].cycle = c
    /\ row.cycle > 0 =>
         \E i \in DOMAIN summaries[p] : /\ summaries[p][i].cycle = row.cycle
                                       /\ summaries[p][i].head = row.lastReviewedSHA

\* A budget buys at most MaxCycles published passes, also across retries,
\* crashes and racing deliveries, and the notice that it is spent is true.
BudgetHolds ==
  \A p \in PRs :
    /\ prReviews[p].cycle <= MaxCycles
    /\ \A i \in DOMAIN summaries[p] : summaries[p][i].cycle <= MaxCycles
    /\ notices[p] > 0 => prReviews[p].cycle = MaxCycles

\* The whole-row upserts of SavePRState lose nothing: the row read at the start
\* of a review is still the stored one when the review writes it back.
SnapshotFresh ==
  /\ pc \in {"fetch", "engine", "select", "post", "record", "summary",
            "notice", "saveNotice"} => st = prReviews[PR]
  /\ pc = "saveSummary" => /\ st.cycle = prReviews[PR].cycle
                           /\ st.lastReviewedSHA = prReviews[PR].lastReviewedSHA
                           /\ st.budgetNoticePosted = prReviews[PR].budgetNoticePosted
  /\ pc = "saveCycle" => st = prReviews[PR]

\* No finding is silently dropped: once the summary of an attempt is up, every
\* finding of that attempt is commented inline or listed in it, whatever the
\* dedup, the cap and rejected comments did (postFindings, postSummary).
NoFindingDropped ==
  pc \in {"saveSummary", "saveCycle"} =>
    /\ st.summaryCommentID \in DOMAIN summaries[PR]
    /\ \A fp \in found :
         \/ inline[PR][fp] >= 1
         \/ fp \in summaries[PR][st.summaryCommentID].listed

\* Copies beyond the first, as numbered: of inline comments and of notices.
SecondComments(count) ==
  UNION {{<<p, fp, n>> : n \in 2..count[p][fp]} : p \in PRs, fp \in Fingerprints}

SecondNotices(count) == UNION {{<<p, n>> : n \in 2..count[p]} : p \in PRs}

\* Summaries of a pass that had one already.
SecondSummaries ==
  UNION {{<<p, i>> : i \in {i \in DOMAIN summaries[p] :
                              \E k \in 1..(i - 1) :
                                summaries[p][k].cycle = summaries[p][i].cycle}}
           : p \in PRs}

\* Each crash, stop, failed store statement or lost response makes at most one
\* comment appear twice; without them nothing is ever posted twice, however
\* often jobs fail and are retried.
RepeatsBoundedByFaults ==
  Cardinality(SecondComments(inline)) + Cardinality(SecondSummaries)
    + Cardinality(SecondNotices(notices)) <= faults

\* Only a fault buys a try beyond MaxAttempts.
AttemptsBoundedByFaults ==
  \A id \in DOMAIN jobs : jobs[id].attempts <= MaxAttempts + faults

----------------------------------------------------------------------------
(* What makes the queue's invariants inductive *)

\* A held job was claimed, and its row says so until Finish.
HeldJob ==
  pc \notin Idle =>
    /\ jobs[job].attempts > 0
    /\ pc \notin {"sleep", "report"} => jobs[job].state = "running"

\* A job that can still be claimed has an attempt left: only the job in
\* progress may be at the bound.
AttemptsLeft ==
  \A id \in DOMAIN jobs :
    (/\ jobs[id].state \in Runnable
     /\ id # job \/ ctx = "cancelled" \/ pc \in {"sleep", "report"})
      => jobs[id].attempts < MaxAttempts + faults

QueueInv ==
  /\ SettledInOrder
  /\ HeldJob
  /\ AttemptsBoundedByFaults
  /\ AttemptsLeft

----------------------------------------------------------------------------
(* What makes the budget's invariants inductive *)

\* A review goes on below the budget only, a notice is for a spent one.
Reviewing == {"fetch", "engine", "select", "post", "record", "summary"}
Saving == {"saveSummary", "saveCycle"}
Noticing == {"notice", "saveNotice"}

WithinBudget ==
  /\ pc \in Reviewing \cup Saving => st.cycle < MaxCycles
  /\ pc \in Noticing => st.cycle = MaxCycles

\* A stored comment id is the summary of the stored pass.
SummaryTracked ==
  \A p \in PRs : prReviews[p].summaryCommentID # 0 =>
    /\ prReviews[p].summaryCommentID \in DOMAIN summaries[p]
    /\ summaries[p][prReviews[p].summaryCommentID].cycle = prReviews[p].summaryCycle

\* The local row carries the summary of this pass once that is on the forge.
SummaryInHand ==
  pc \in Saving =>
    /\ st.summaryCommentID \in DOMAIN summaries[PR]
    /\ st.summaryCycle = Pass
    /\ summaries[PR][st.summaryCommentID].cycle = Pass
    /\ summaries[PR][st.summaryCommentID].head = Row.head

\* The comment about to be recorded is on the forge.
CommentInHand ==
  pc = "record" => \A fp \in cur : inline[PR][fp] >= 1

BudgetInv ==
  /\ SnapshotFresh
  /\ BudgetHolds
  /\ PassesPublished
  /\ RecordedMeansPosted
  /\ WithinBudget
  /\ SummaryTracked
  /\ SummaryInHand
  /\ CommentInHand

----------------------------------------------------------------------------
(* What makes the properties of the answers inductive *)

\* Every finding of the attempt is still to be posted, to be listed, or on the
\* PR, and the summary lists what it has to.
FindingsPlaced ==
  /\ pc \in {"post", "record", "summary"} \cup Saving =>
       \A fp \in found : fp \in fresh \cup unposted \/ inline[PR][fp] >= 1
  /\ pc \in {"summary"} \cup Saving => fresh = {}
  /\ pc \in Saving => summaries[PR][st.summaryCommentID].listed = unposted

\* The stored summary is that of the last pass or of the one under way, and one
\* of the pass under way is not swapped for another.
SummaryOfPass ==
  /\ \A p \in PRs : prReviews[p].summaryCommentID # 0 =>
       prReviews[p].summaryCycle \in {prReviews[p].cycle, prReviews[p].cycle + 1}
  /\ pc = "saveSummary" /\ prReviews[PR].summaryCommentID # 0 =>
       \/ st.summaryCommentID = prReviews[PR].summaryCommentID
       \/ prReviews[PR].summaryCycle = st.cycle

\* A notice that is remembered, or about to be, is on the PR.
NoticeShown ==
  /\ \A p \in PRs : prReviews[p].budgetNoticePosted => notices[p] > 0
  /\ pc = "saveNotice" => notices[PR] > 0

\* A job that reset its budget or consumed a pass was tried, and is tried again
\* before it comes back to the reset.
TriedBefore ==
  \A id \in resets \cup spent :
    /\ jobs[id].attempts > 0
    /\ pc = "reset" /\ id = job => jobs[id].attempts > 1

AnswerInv ==
  /\ FindingsPlaced
  /\ SummaryOfPass
  /\ NoticeShown
  /\ TriedBefore

----------------------------------------------------------------------------
(* What makes a pass one per job and per new head *)

\* A job that consumed its pass and was not settled finds its head recorded.
HeadRecorded ==
  \A id \in spent : jobs[id].state \in Runnable =>
    prReviews[jobs[id].pr].lastReviewedSHA = jobs[id].head

\* A review goes on for a new head and a job without a pass only.
NewHead ==
  pc \in Reviewing \cup Saving => st.lastReviewedSHA # Row.head /\ job \notin spent

PassInv == HeadRecorded /\ NewHead

----------------------------------------------------------------------------
(* What makes the bound on repeats inductive *)

\* The worker is about to remember what it just put on p.
InHand(label, p) == pc = label /\ Live /\ PR = p

\* What is on the forge and neither remembered nor in hand: the next attempt
\* posts it again.
CommentOwed(p, fp) ==
  /\ inline[p][fp] >= 1
  /\ fp \notin postedComments[p]
  /\ ~(InHand("record", p) /\ fp \in cur)

NoticeOwed(p) ==
  notices[p] >= 1 /\ ~prReviews[p].budgetNoticePosted /\ ~InHand("saveNotice", p)

SummaryOwed(p) ==
  /\ \E i \in DOMAIN summaries[p] : summaries[p][i].cycle = prReviews[p].cycle + 1
  /\ ~(/\ prReviews[p].summaryCommentID # 0
       /\ prReviews[p].summaryCycle = prReviews[p].cycle + 1)
  /\ ~InHand("saveSummary", p)

\* The copies there are and those that are owed.
CommentsDue ==
  [p \in PRs |-> [fp \in Fingerprints |->
     IF CommentOwed(p, fp) THEN inline[p][fp] + 1 ELSE inline[p][fp]]]

NoticesDue == [p \in PRs |-> IF NoticeOwed(p) THEN notices[p] + 1 ELSE notices[p]]

SummariesDue ==
  SecondSummaries
    \cup {<<p, Len(summaries[p]) + 1>> : p \in {p \in PRs : SummaryOwed(p)}}

\* Each fault pays for one copy before it is made.
PaidFor ==
  /\ IsFiniteSet(SecondComments(CommentsDue))
  /\ IsFiniteSet(SummariesDue)
  /\ IsFiniteSet(SecondNotices(NoticesDue))
  /\ Cardinality(SecondComments(CommentsDue)) + Cardinality(SummariesDue)
       + Cardinality(SecondNotices(NoticesDue)) <= faults

\* What is still to be posted was not recorded, and one comment is in hand.
NothingPostedTwice ==
  /\ pc \in {"post", "record"} => fresh \cap postedComments[PR] = {}
  /\ pc = "record" => \E fp \in Fingerprints \ fresh : cur = {fp}
  /\ pc \in Noticing => ~st.budgetNoticePosted
  /\ \A p \in PRs : \A i \in DOMAIN summaries[p] :
       summaries[p][i].cycle <= prReviews[p].cycle + 1

RepeatsInv == PaidFor /\ NothingPostedTwice

----------------------------------------------------------------------------
(* Steps *)

\* Once the id of a pass's summary is stored, no save of the same budget swaps
\* it for another comment of that pass (postSummary edits instead).
SummaryKept ==
  [][\A p \in PRs :
       prReviews[p].summaryCommentID # 0 =>
         \/ prReviews'[p].summaryCommentID = prReviews[p].summaryCommentID
         \/ prReviews'[p].summaryCycle = prReviews[p].summaryCycle + 1
         \/ prReviews'[p] = ZeroPRState /\ resets' # resets]_vars

\* Past the fetch, a review ends well only with its head recorded or, when the
\* budget is spent, with the author told so if the configuration wants that.
SuccessMeansAnswered ==
  [][(pc \notin {"fetch", "succeed"} /\ pc' = "succeed") =>
       \/ prReviews'[PR].lastReviewedSHA = Row.head
       \/ /\ prReviews'[PR].cycle = MaxCycles
          /\ Announce => prReviews'[PR].budgetNoticePosted /\ notices[PR] > 0]_vars

\* The worker implements the ledger of ReviewService: one pass per job and per
\* new head, in order, each job settled once.
Fate(state) == IF state \in {"done", "dead"} THEN state ELSE "pending"

Service == INSTANCE ReviewService WITH
  ledger <- [id \in DOMAIN jobs |->
               [pr |-> jobs[id].pr, head |-> jobs[id].head,
                event |-> jobs[id].event, fate |-> Fate(jobs[id].state)]],
  passes <- [p \in PRs |-> prReviews[p].cycle],
  lastHead <- [p \in PRs |-> prReviews[p].lastReviewedSHA],
  opened <- resets,
  consumed <- spent

ImplementsService == Service!Spec

----------------------------------------------------------------------------
(* Liveness *)

\* Every accepted job is settled, whatever fails: no job blocks the queue for
\* ever and none is forgotten by a crash or a stop.
EveryJobSettled ==
  \A id \in 1..Cardinality(Deliveries) :
    (id \in DOMAIN jobs) ~>
      (id \in DOMAIN jobs /\ jobs[id].state \in {"done", "dead"})

\* A stop always ends: wherever SIGTERM finds the worker, it returns from Run,
\* which is all that run in main.go waits for.
StopEnds == (ctx = "cancelled") ~> (pc = "down")

----------------------------------------------------------------------------
(* What the comments and documents say, and the code does not do *)

\* runJob's comment: dead-lettered with a note on the PR so a silent drop is
\* impossible.
DeadMeansReported ==
  \A id \in DOMAIN jobs :
    (jobs[id].state = "dead" /\ id # job /\ jobs[id].pr \in Served)
      => id \in reported

\* ADR-0004: reopening a PR resets the budget.
ReopeningResets ==
  \A id \in DOMAIN jobs :
    (jobs[id].event = "reopened" /\ jobs[id].state = "done") => id \in resets

=============================================================================

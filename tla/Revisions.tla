----------------------------- MODULE Revisions -----------------------------
(***************************************************************************)
(* One merge request whose branch moves while it is reviewed: which diff a *)
(* pass reads (review and scopedDiff of internal/worker), which head it    *)
(* records, and which revision its comments are anchored to (PostInline    *)
(* and the memo of diff refs in internal/provider/gitlab.go).              *)
(*                                                                         *)
(* The budget row is read where the code uses its copy of it:              *)
(* ReviewWorker shows that the two agree.  Reopened merge requests, the    *)
(* exhausted notice and the text of comments are left to ReviewWorker.     *)
(***************************************************************************)
EXTENDS Store

CONSTANTS
  MR,           \* the merge request
  Changes,      \* what a diff consists of
  Commits,      \* [Heads -> SUBSET Changes]: what each head adds to the target
  MaxCycles,    \* PRW_MAX_CYCLES
  MaxAttempts,  \* PRW_MAX_ATTEMPTS
  MaxFindings,  \* bound on the comments of a pass
  MaxPushes,    \* bound on the revisions of the branch
  MaxCrashes    \* bound on the restarts of the process

ASSUME RevisionsAssumption ==
  /\ MR \in PRs
  /\ Commits \in [Heads -> SUBSET Changes]
  /\ MaxCycles \in Nat \ {0}
  /\ MaxAttempts \in Nat \ {0}
  /\ MaxFindings \in Nat
  /\ MaxPushes \in Nat \ {0}
  /\ MaxCrashes \in Nat

VARIABLES
  tip,          \* the head of the branch
  revision,     \* number of the revision it is at
  firstPushed,  \* [Heads -> revision that brought it first, 0 = none]
  undelivered   \* heads whose webhook is under way

VARIABLES
  pc,           \* where the worker is
  job,          \* the job it holds, 0 for none
  diff,         \* the changes this attempt has been shown
  todo,         \* findings it still has to comment
  memo          \* the memoised diff refs: for which head, of which revision

VARIABLES
  anchors,      \* [Heads -> revisions its comments were anchored to]
  read,         \* changes shown to an engine by recorded passes
  reviewed,     \* heads recorded as reviewed
  forced,       \* a push took changes off the branch
  raced,        \* a pass read the diff of another head than its own
  crashes

branchVars == <<tip, revision, firstPushed, undelivered>>
workerVars == <<pc, job, diff, todo, memo>>
historyVars == <<anchors, read, reviewed, forced, raced, crashes>>
vars == <<storeVars, branchVars, workerVars, historyVars>>

NoMemo == [head |-> NoSHA, revision |-> 0]

Labels == {"idle", "decide", "full", "compare", "engine", "post", "done"}

TypeOK ==
  /\ StoreTypeOK
  /\ tip \in Heads /\ revision \in 1..MaxPushes
  /\ firstPushed \in [Heads -> 0..revision]
  /\ undelivered \subseteq Heads
  /\ pc \in Labels
  /\ IF pc = "idle" THEN job = 0 ELSE job \in DOMAIN jobs
  /\ diff \subseteq Changes
  /\ todo \in 0..MaxFindings
  /\ memo \in [head : Heads \cup {NoSHA}, revision : Nat]
  /\ anchors \in [Heads -> SUBSET Nat]
  /\ read \subseteq Changes /\ reviewed \subseteq Heads
  /\ forced \in BOOLEAN /\ raced \in BOOLEAN
  /\ crashes \in 0..MaxCrashes

NoAnchors == [h \in Heads |-> {}]

\* The merge request is opened at some head.
Init ==
  /\ StoreInit
  /\ tip \in Heads /\ revision = 1 /\ undelivered = {tip}
  /\ firstPushed = [h \in Heads |-> IF h = tip THEN 1 ELSE 0]
  /\ pc = "idle" /\ job = 0 /\ diff = {} /\ todo = 0 /\ memo = NoMemo
  /\ anchors = NoAnchors /\ read = {} /\ reviewed = {}
  /\ forced = FALSE /\ raced = FALSE /\ crashes = 0

----------------------------------------------------------------------------
(* The branch and its webhooks *)

\* Any push, also one that goes back to an earlier head.
Push(h) ==
  /\ revision < MaxPushes
  /\ h # tip
  /\ tip' = h
  /\ revision' = revision + 1
  /\ firstPushed' = [firstPushed EXCEPT ![h] = IF @ = 0 THEN revision' ELSE @]
  /\ undelivered' = undelivered \cup {h}
  /\ forced' = (forced \/ ~(Commits[tip] \subseteq Commits[h]))
  /\ UNCHANGED <<storeVars, workerVars, anchors, read, reviewed, raced, crashes>>

\* Webhooks arrive late and in any order.
Announce(h) ==
  /\ h \in undelivered
  /\ Enqueue([pr |-> MR, head |-> h, event |-> "synchronize"])
  /\ undelivered' = undelivered \ {h}
  /\ UNCHANGED <<tip, revision, firstPushed, workerVars, historyVars>>

----------------------------------------------------------------------------
(* The attempt *)

State == prReviews[MR]
HeadSHA == jobs[job].head

Goto(label) == pc' = label /\ UNCHANGED <<job, diff, todo, memo>>

Claim ==
  /\ pc = "idle"
  /\ \E id \in DOMAIN jobs : ClaimNext(id) /\ job' = id
  /\ pc' = "decide"
  /\ UNCHANGED <<branchVars, diff, todo, memo, historyVars>>

\* scopedDiff: there is nothing to compare with.
FirstPass == State.cycle = 0 \/ State.lastReviewedSHA = NoSHA

\* review up to the choice of the diff.
Decide ==
  /\ pc = "decide"
  /\ Goto(IF State.cycle >= MaxCycles \/ State.lastReviewedSHA = HeadSHA THEN "done"
          ELSE IF FirstPass THEN "full" ELSE "compare")
  /\ UNCHANGED <<storeVars, branchVars, historyVars>>

\* A blank diff ends the review without a pass.
Show(changes) ==
  /\ diff' = changes
  /\ pc' = IF changes = {} THEN "done" ELSE "engine"
  /\ UNCHANGED <<job, todo, memo>>

\* The forge knows one diff of the merge request: that of its head now.
Diff == Commits[tip]

\* What one head has and another had not.
CompareDiff(from, to) == Commits[to] \ Commits[from]

ReadFull ==
  /\ pc = "full"
  /\ Show(Diff)
  /\ raced' = (raced \/ tip # HeadSHA)
  /\ UNCHANGED <<storeVars, branchVars, anchors, read, reviewed, forced, crashes>>

\* Slip: an unresolvable comparison counts as nothing to review.
CompareFailsBlank ==
  /\ pc = "compare"
  /\ \/ Show(CompareDiff(State.lastReviewedSHA, HeadSHA))
     \/ Goto("done")
  /\ UNCHANGED <<storeVars, branchVars, historyVars>>

\* The full diff replaces a comparison the forge cannot resolve.
Compare ==
  /\ pc = "compare"
  /\ \/ Show(CompareDiff(State.lastReviewedSHA, HeadSHA))
     \/ Goto("full")
  /\ UNCHANGED <<storeVars, branchVars, historyVars>>

Engine ==
  /\ pc = "engine"
  /\ todo' \in 0..MaxFindings
  /\ pc' = "post"
  /\ UNCHANGED <<storeVars, branchVars, job, diff, memo, historyVars>>

\* Slips: the memo of one head serves the next; the memo never serves.
MemoOfAnyHead == memo # NoMemo
MemoNeverHits == FALSE

MemoHits == memo.head = HeadSHA

\* The refs the merge request has now, under the key they are memoised with.
MergeRequestRefs == [head |-> HeadSHA, revision |-> revision]

Refs == IF MemoHits THEN memo ELSE MergeRequestRefs

\* PostInline.  If the refs cannot be read they are not memoised; whether the
\* comment is accepted is up to the forge.
Comment ==
  /\ pc = "post"
  /\ todo > 0
  /\ todo' = todo - 1
  /\ \/ memo' = Refs /\ anchors' = [anchors EXCEPT ![HeadSHA] = @ \cup {Refs.revision}]
     \/ memo' \in {memo, Refs} /\ UNCHANGED anchors
  /\ UNCHANGED <<storeVars, branchVars, pc, job, diff>>
  /\ UNCHANGED <<read, reviewed, forced, raced, crashes>>

\* Slip: the head the merge request has now is recorded.
RecordTip ==
  /\ pc = "post"
  /\ todo = 0
  /\ SavePRState(MR, [State EXCEPT !.cycle = @ + 1, !.lastReviewedSHA = tip])
  /\ read' = read \cup diff
  /\ reviewed' = reviewed \cup {HeadSHA}
  /\ Goto("done")
  /\ UNCHANGED <<branchVars, anchors, forced, raced, crashes>>

\* The summary is up and the row is saved.
Record ==
  /\ pc = "post"
  /\ todo = 0
  /\ SavePRState(MR, [State EXCEPT !.cycle = @ + 1, !.lastReviewedSHA = HeadSHA])
  /\ read' = read \cup diff
  /\ reviewed' = reviewed \cup {HeadSHA}
  /\ Goto("done")
  /\ UNCHANGED <<branchVars, anchors, forced, raced, crashes>>

\* The attempt's locals go; the memo belongs to the provider and stays.
Rest == pc' = "idle" /\ job' = 0 /\ diff' = {} /\ todo' = 0

\* Slip: the job is still held.
EndHolding ==
  /\ pc = "done"
  /\ Finish(job, "done")
  /\ pc' = "idle" /\ UNCHANGED <<job, diff, todo>>
  /\ UNCHANGED <<branchVars, memo, historyVars>>

End ==
  /\ pc = "done"
  /\ Finish(job, "done")
  /\ Rest
  /\ UNCHANGED <<branchVars, memo, historyVars>>

\* A call failed: metadata, full diff, engine, a store statement or the summary.
Fail ==
  /\ pc \in {"decide", "full", "engine", "post"}
  /\ Finish(job, IF jobs[job].attempts < MaxAttempts THEN "failed" ELSE "dead")
  /\ Rest
  /\ UNCHANGED <<branchVars, memo, historyVars>>

\* The process restarts with an empty memo; anchors are counted per process.
Crash ==
  /\ crashes < MaxCrashes
  /\ crashes' = crashes + 1
  /\ Rest
  /\ memo' = NoMemo /\ anchors' = NoAnchors
  /\ UNCHANGED <<storeVars, branchVars, read, reviewed, forced, raced>>

Attempt ==
  \/ Claim \/ Decide \/ ReadFull \/ Compare \/ Engine \/ Comment \/ Record
  \/ End \/ Fail

Next ==
  \/ \E h \in Heads : Push(h) \/ Announce(h)
  \/ Attempt
  \/ Crash

Spec == Init /\ [][Next]_vars

----------------------------------------------------------------------------
(* Properties *)

\* Both happen: a branch that lost changes, and a pass that was shown the diff
\* of another head than the one it recorded.
Strayed == forced /\ raced

\* A pass that compares with the recorded head may leave out what that head had:
\* every change of it has been shown to an engine, although the first pass reads
\* the diff the branch has by then and webhooks come late and out of order
\* (scopedDiff, SavePRState).
ReviewedMeansRead ==
  (State.lastReviewedSHA # NoSHA /\ ~Strayed) =>
    Commits[State.lastReviewedSHA] \subseteq read

\* A job that ended well, be it by a pass, a blank diff or because its head is
\* the recorded one, leaves none of its changes unread while budget is left.
DoneMeansRead ==
  ~Strayed =>
    \A id \in DOMAIN jobs : jobs[id].state = "done" =>
      Commits[jobs[id].head] \subseteq read \/ State.cycle >= MaxCycles

\* All comments a process makes for one head are anchored alike, over all tries
\* and however often the branch moves meanwhile (the memo).
OneTriplePerHead == \A h \in Heads : Cardinality(anchors[h]) <= 1

\* and never to a revision older than the head they are for (its key).
RefsNotOlder == \A h \in Heads : \A r \in anchors[h] : r >= firstPushed[h]

----------------------------------------------------------------------------
(* What makes the first two inductive *)

\* While nothing is taken off the branch, it has whatever was announced.
BranchGrows ==
  ~forced =>
    /\ \A h \in undelivered : Commits[h] \subseteq Commits[tip]
    /\ \A id \in DOMAIN jobs : Commits[jobs[id].head] \subseteq Commits[tip]

\* What an attempt has been shown makes up for what was not read before.
ShownInHand ==
  ~Strayed =>
    /\ pc \in {"engine", "post"} => Commits[HeadSHA] \subseteq read \cup diff
    /\ pc = "done" => Commits[HeadSHA] \subseteq read \/ State.cycle >= MaxCycles

ReadInv ==
  /\ ReviewedMeansRead
  /\ DoneMeansRead
  /\ BranchGrows
  /\ ShownInHand
  /\ pc = "compare" => State.lastReviewedSHA # NoSHA

----------------------------------------------------------------------------
(* What a document says, and the code does not do *)

\* ADR-0005: a force push back to a reviewed head is treated as already
\* reviewed, and correctly, for the tree under review is identical.
ReviewedTreeRead ==
  (tip \in reviewed /\ undelivered = {} /\ NoJob /\ pc = "idle") =>
    Commits[tip] \subseteq read
=============================================================================

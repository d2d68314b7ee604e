# A formal model of go-pr-review-worker

TLA+ modules that model the review worker, TLC configurations that check them
on small instances, and TLAPS proofs that carry the most important results over
to every instance. Paths and line numbers refer to this repository.

## The system

One process serves forge webhooks and reviews pull requests one at a time.

| Part | State it keeps | Operations | Interacts through |
| --- | --- | --- | --- |
| `internal/store` | SQLite tables `jobs`, `pr_reviews`, `posted_comments` | `Enqueue`, `ClaimNext`, `Finish`, `PRState`, `SavePRState`, `ResetPRState`, `UnseenFingerprints`, `RecordFingerprint`, `PendingCount` | one connection, so statements are serialised |
| `internal/webhook` | none of its own; one goroutine per request | read, verify, parse, enqueue, wake, answer | `Store.Enqueue`; the one-slot `notify` channel |
| `internal/worker` | locals of one goroutine: the claimed job, its copy of the PR's row, the findings in hand | `Run`, `wait`, `runJob`, `review`, `postFindings`, `postSummary`, `handleExhausted`, `reportFailure` | the store; the engine; the forge; the context that SIGTERM cancels |
| `internal/reviewer` | a child process per run; the places of the scan through its output | `Chain.Review`, `CLI.Review`, `run`, `kill`, `parseResult`, `extractJSON` | called by the worker; the child may start helpers that outlive it |
| `internal/provider` | GitLab: a memo of one merge request's diff refs | six REST calls per forge | called by the worker; comments stay on the forge, and the branch moves there |
| `cmd/pr-review-worker` | the context, the listener | start, stop, health | owns everything above; systemd restarts it |
| `internal/config` | none | load and validate the environment | values for all parts |

What is hard here: the store and the forge are updated by separate calls, and a
crash, a stop, a failed statement or a lost response can fall between any two of
them; jobs are retried on top of what earlier attempts left; several requests
race for one key; a worker about to sleep races with a handler about to wake it;
the budget row is read at the start of a review that takes minutes and is
written back whole, twice; a reopened PR starts over while comments of the
earlier budget exist; the branch moves between the webhook, the reading of the
diff and the comments; an engine may hang, ignore signals, leave helpers behind
and print anything around its answer. `PROJECT.json` lists these under `hazards`, each at its
line.

What makes each part correct:

- **store** — one row per key; strict order of first tries; a reset that takes
  fingerprints and row together.
- **worker** — a budget of passes that no retry or crash exceeds; a pass counted
  only when its summary is on the PR; no finding lost between inline comments,
  cap, dedup and summary; a retry that edits and does not repeat; every job
  settled in the end; a stop that ends.
- **webhook and main** — an acknowledged job is kept; no wake-up is lost; racing
  requests make one job.
- **reviewer** — every run ends and leaves nobody of its process group behind;
  the parser finds the review in the output, whatever surrounds it; a review
  that was delivered is used and not taken for a rate limit.
- **findings** — each one at or above the bar has exactly one place: posted
  earlier, posted now, or in the summary; the severe ones come first.
- **diff and anchors** — what an incremental pass leaves out has been read;
  comments of one head are anchored alike and never to an older revision.

## Modules

| Module | Models |
| --- | --- |
| `Store` | the three tables and one action per statement |
| `ReviewWorker` | the worker goroutine on top of `Store`, the forge it writes to, and the faults around it |
| `ReviewService` | the abstract promise: an ordered ledger of jobs and a budget per PR |
| `Intake` | concurrent webhook handlers, the notify channel, the waiting worker, startup and shutdown on top of `Store` |
| `EngineOutput` | the captured output, the scan for the review in it, and what JSON accepts |
| `Selection` | the way of the findings from the decoded list to the comments and the summary |
| `EngineRun` | the chain, the child process and its helpers, timeout and kill, on top of the two |
| `Revisions` | a branch that moves while it is reviewed: the diff, the recorded head, the memo of diff refs, on top of `Store` |
| `MCReviewWorker`, `MCIntake`, `MCEngineRun`, `MCRevisions` | instances for TLC |
| `StoreProofs` | lemmas on the statements of `Store`, for the proofs about the modules on top of it |
| `ReviewWorkerProofs` | theorems: types, queue, budget |
| `ServiceProofs` | theorems on top of it: what a review answers, and that the worker implements `ReviewService` |
| `RepeatsProofs` | theorems on top of both: how often a PR is told the same thing |
| `IntakeProofs`, `RevisionsProofs` | theorems about `Intake` and `Revisions` |
| `OutputProofs` | lemmas for every text about the reader and the scan of `EngineOutput`, and the inductions they need |
| `EngineRunProofs` | theorems about `EngineRun`, and the lemmas on lists behind `Selection` |

`ReviewWorker` is the whole loop with the rest drawn as one step each: a
delivery is one atomic `Enqueue`, an engine run fails or returns any findings, a
diff is blank or not. The other modules open these up: `Intake` the delivery,
`EngineRun` the engine run and the selection, `Revisions` the diff. Each in turn
simplifies what `ReviewWorker` has in full: `Intake` sees a review as one step
with any outcome, `Revisions` leaves out resets, notices and the dedup.
`ReviewWorker` and `Intake` both implement `ReviewService`. Three of them extend
`Store`, so its definitions are shared and a slip in one of them is seen by all.

Definitions whose comment starts with *Slip* are plausible bugs: each stands
before the definition it would replace, nothing refers to it, and `PROJECT.json`
pairs it with the property it breaks. They show that the properties depend on
the code and not on the shape of the model.

### Store

`jobs` is a sequence because rows are never deleted and ids are AUTOINCREMENT; a
job's id is its index. `prReviews` is a total function because an absent row is
read as the zero value. A PR is a value, standing for `provider:repo#number`;
heads and fingerprints are values. The summary comment's id is a number, 0 for
the empty string. Timestamps, `last_error` and `base_sha` decide nothing and are
left out. `DeliveryID` is the key both parsers compose: PR, head and whether it
is a reopening.

### ReviewWorker

`pc` is the place of the goroutine, one label for each store statement, forge
call and engine run. A step is the code between two of them, so a delivery, a
stop or a crash falls between any two.

| Labels | Code in `internal/worker/worker.go` |
| --- | --- |
| `claim`, `wait` | `Run`, `wait` (93-139) |
| `reset`, `readState`, `fetch`, `engine` | `review` (190-255) |
| `select`, `post`, `record` | `postFindings` (318-406) |
| `summary`, `saveSummary`, `saveCycle` | `postSummary` and the two saves (257-283, 408-427) |
| `notice`, `saveNotice` | `handleExhausted` (429-459) |
| `succeed`, `fail`, `sleep`, `report` | `runJob`, `sleep`, `reportFailure` (141-188, 461-480) |
| `down` | no process |

The forge is `inline` (how often each finding is commented), `summaries` (what
each summary comment says: pass, head, findings listed), `notices` and
`reported`. The first three are counted since the PR's last reset: what an
earlier budget left on the PR stays there in reality and is no longer counted.
`resets` and `spent` are history variables: the jobs that reset a budget and
that consumed a pass.

Faults. `crash` ends the process anywhere; `stop` cancels the context, after
which every store statement and forge call fails before it takes effect; `db` is
a statement that fails without effect; `lost` is a forge call that is carried
out while its caller gets an error; `forge` is a call that is refused; `engine`
is a run that fails. The first four are counted in `faults`, bounded by
`MaxFaults`; the last two are unbounded where enabled. A stop that cuts a call
short after the forge acted on it is a `lost` followed by a `stop`. Comments go
out in any order where the code sorts by severity, and the cap keeps any
`MaxComments` of them: a superset of what the code does.

### Intake

`Requests` are the events the forge announces; each may be delivered again at
any time. `Payload` says what each looks like: forge, body, signature, header,
action, the places a head can be in. `Verdict` is the chain of early returns of
`serve` and the parsers. They check the head and not what names the PR: a
payload without a repository or a number makes a key like any other, which
`PRs` may contain. A handler then inserts, wakes the worker and answers, a
step each. The insert runs under the context of the request: in `InsertUnheard`
the client hangs up around the commit, so that the row stands while the handler
sees an error and wakes nobody. Such rows are remembered in the history variable
`unheard`; they wait for the next hint or the poll interval, and `NoLostWakeup`
is about the others. The worker waits in two steps, since a job may arrive after
`ErrNoJob` and before the `select`. Shutdown follows `main`: the listener closes,
`main` waits for the worker and not for the handlers, closes the store, and the
process ends under whatever requests are left.

### EngineOutput, Selection, EngineRun

A text is a sequence of tokens: the characters the scan looks at, the two words
of the contract, and what else JSON is made of. `Scan` is `extractJSON` with
`balancedObject`, one step per token of either loop. `Moves` is the grammar
`json.Valid` checks, with the stack of objects and arrays the reader is within,
since an array may end only where it began. Two notions of a payload are kept
apart: `IsPayload` is what the code tests, the quoted word anywhere in the
object; `IsReview` is what the documents promise, a field of the outermost
object (`HasField`). `Review`, the reference, is declarative and knows the second
one only: the last object with such a field among the objects that stand on
their own, or else the last of these. `Misleading` are the objects behind every
review that quote a word without having the field, the one case in which code
and reference part.

`Selection` has the loops of `parseResult` and `postFindings` one after another,
from a `Finding` with any severity to a `Graded` one, a candidate, an unseen one,
and the two parts the cap makes of the sorted rest.

`rpc` is the place of the worker goroutine:

| `rpc` | Code in `internal/reviewer` and `internal/worker` |
| --- | --- |
| `start`, `running` | `run` (`cli.go:94-133`), the classification in `CLI.Review` (64-93) |
| `grace`, `reap` | `kill` and the wait after it (`cli.go:125-149`) |
| `parse` | `parseResult`, `extractJSON`, `balancedObject` (`reviewer.go:135-251`) |
| `chain` | `Chain.Review` (`reviewer.go:101-125`) |
| `select` | `postFindings` up to the first comment (`worker.go:323-362`) |

The child and its helper act on their own: they exit or not, heed SIGTERM or
not, hold the inherited pipes or not, and a helper may have left the process
group. `cmd.Wait` returns when the child has exited and everyone has closed the
pipes. The timer, the stop and the exit race, and `select` picks any ready case.
Which words count as a rate-limit signal is a free choice per run, since they
are looked for in stderr too. A helper stands for all descendants of a run.

### Revisions

A branch is its `tip` and the number of its `revision`; `Commits` says what
changes a head adds to the target, so a push that loses some is a force push.
Webhooks are delivered late and in any order. The forge knows one diff of a
merge request, that of its head now, whatever head the job is about; a
comparison of two heads is about these heads or fails. `read` is what engines
were shown by recorded passes and `anchors` the revisions the comments of a head
were attached to; `forced` and `raced` remember that changes were taken off the
branch and that a pass was shown the diff of another head than its own. There is
one merge request and it is not reopened: another one could only replace the
memo between two jobs, and a reopening adds a job that may anchor the comments
of a known head anew.

## What is checked

All runs check for deadlock but `revisions` and `unread_head`, where the
branch stays as it is and the queue is empty in the end.

| Run | Instance | Shows |
| --- | --- | --- |
| `faults` | one PR opened, pushed to, reopened; two findings, cap 1; one counted fault, any refusals | types, FIFO, budget, publication, no finding dropped, no stale write, repeats and tries bounded by faults, summary ids kept, success means answered; the inductive invariant of the answers |
| `two_prs` | two PRs, one without credentials and one reopened at another head, no cap, two counted faults, fairness | the inductive invariants with interleaved PRs; through a fault during the recovery from another, summary ids are kept, a job consumes one pass, the account of repeats balances and `ReviewWorker` implements `ReviewService`; every job is settled; every stop ends |
| `intake` | three GitLab requests, two for one head and one without a head, two faults | types, one job per head, acknowledged jobs kept, no lost wake-up, and the job in work stays the oldest; handlers and worker implement the ledger of `ReviewService` |
| `hints` | two GitHub requests, a stop or a crash, fairness without the timer | wake-ups serve the queue |
| `engine` | two engines, two helpers at most, every output of two pieces and some tangled ones, cap of one comment, fairness without the child | the review in an output is found and used, a timed-out group is gone, findings are placed and ordered, every review ends |
| `revisions` | three heads on two branches, three revisions, two comments, one restart | incremental passes leave out what was read only; a job that ended well was read; one anchor per head and none too old |

Properties worth reading first: `NoFindingDropped`, `PassesPublished`,
`RepeatsBoundedByFaults`, `SnapshotFresh` and `ImplementsService` in
`ReviewWorker`, `NoLostWakeup` in `Intake`, `ExtractsLastPayload` and
`ReviewReturns` in `EngineRun`, `ReviewedMeansRead` in `Revisions`.

**Bounds.** In `faults`, two heads and the reopening at the second, delivered in
any order, reach a second pass, a push past the budget, a reset and a pass after
it. `two_prs` has room for two passes of a budget and a reset, but not for a push
past the budget, and its forge loses responses but refuses nothing: refusals and
notices meet a second fault in the proofs only.
`MaxAttempts = 2` has a last and a non-last try. Two findings
with a cap of one make capped, rejected, seen and posted findings meet in one
pass. Each counted fault can strike at every label, so one covers every single
crash window and two cover a fault in the recovery. Every invariant, every
action property and both refinements are also proved for every value of the
constants, so their bounds only matter for finding mistakes early; for liveness
TLC is the evidence. Findings are interchangeable, which justifies the symmetry of
`faults`; no liveness property is checked under symmetry.

`engine` reads every concatenation of two of twelve pieces (prose, lone braces
and quotes, an empty object, payloads, status objects, one that wraps a payload,
one that is no JSON, braces and escaped quotes within strings), a payload between
any two of them, and nine tangled texts: a string that begins an object reaching
past its own, a status object that quotes a key before and instead of a review,
findings in an array, arrays of objects, one left open and one that ends within
an object. `MaxOutput = 17` cuts the longer ones off at many places. Lists of up to three findings of two fingerprints (two,
if one of them has no file or title), with a bar and a cap of one, make repeated,
unanchored, degraded, seen and capped findings meet. Two engines are a fallback and its end. `revisions` has the
shortest history in which a branch is pushed, forced and pushed back while an
attempt is under way; with two comments the memo can be filled, missed and hit
within a pass and between tries.

**Fairness.** `ReviewWorker`: weak fairness of the goroutine, because every call
it makes returns: HTTP clients have a 30 s timeout, the engine is killed at its
own, SQLite has a busy timeout, waits have timers. Strong fairness of `Leave`,
because `select` picks among ready cases at random and takes a ready context
sooner or later. Weak fairness of `Restart`, because the unit has
`Restart=always`. Faults and deliveries are never fair. That an engine run
returns is not taken for granted: `EngineRun` shows it with weak fairness of the
worker's own steps, of the kernel reporting an exit once the pipes are closed,
and of the clock, and nothing asked of the child and its helpers. The one case
in which it does not hold, a descendant that left the process group and keeps
the output open, is left out of `Helpers` there and is the run `stuck_reap`.
`Intake` adds weak fairness of each handler and of shutdown, and deliberately
none of the timer as long as no store statement fails and no client hangs up.

## Where the code and its documents differ

Each is a run that expects a violation, with the quotation in `PROJECT.json`.

| Run | Promise | What happens |
| --- | --- | --- |
| `silent_drop` | no silent drop | the failure note is refused after the row is dead; nobody posts it again |
| `lost_reset` | reopening resets the budget | a crash between claim and reset loses the reset |
| `second_reopen` | a reopening reaches the worker | a second one at the same head collapses into the first |
| `stuck_reap` | a hung CLI cannot block the queue | a descendant outside the process group holds the pipes; the reap waits for it, and a shutdown waits with it |
| `misread_key` | the object with a `findings` or `summary` key is picked | the scan looks for the quoted word anywhere in an object: a status object behind the review that quotes it is decoded instead, as a review without findings |
| `unread_head` | the tree of a reviewed head was reviewed | the first pass reads the diff of the head the forge has by then and records its own |

Met on the way, without a run of their own:

- `worker.go:161`: a try that ends the process is never compared with
  `MaxAttempts`; `AttemptsBoundedByFaults` says how far this goes.
- `worker.go:368-386`: a crash between a comment and its fingerprint repeats the
  comment, and one between a summary and the save of its id (265-272) leaves two
  summaries of a pass; `RepeatsBoundedByFaults` bounds both.
- `worker.go:152`: a job whose `Finish` was lost runs again after its pass, and
  can end with a note that no review will arrive, or with the exhausted notice
  (213) though nothing was pushed since.
- `webhook.go:104-105`: a duplicate is "already queued or already reviewed"; it
  can also be a job that was given up.
- ADR-0003 says a second worker could not take the same job twice. `ClaimNext`
  takes running rows too, which recovery after a crash needs; a second process
  would take what the first is working on.
- ADR-0007: output that ignores the schema fails the job. An object without the
  keys of the contract, or one that wraps the payload, is decoded as a review
  without findings and counts as a pass; `DecodedIsObject` is what does hold.
  `misread_key` is the case in which the output has a proper review as well.
- ADR-0009: a timeout is an ordinary failure. A timed-out run, or one cut short
  by a stop, that printed a rate-limit signal falls back to the next engine; and
  what is printed within the grace period is looked at for signals only.
- The first mention of a fingerprint at or above the bar decides its severity,
  also if a later mention is more severe (`worker.go:333-345`).
- `gitlab.go:176`: the refs are those of "a merge request at headSHA". They are
  those of its head at the time of the first comment; `RefsNotOlder` is what
  does hold.

## What is proved

The proofs assume `StoreAssumption` (the empty SHA is no head) and
`WorkerAssumption`, `IntakeAssumption`, `RevisionsAssumption`,
`EngineAssumption` and `SelectionAssumption` (types of the constants, positive
limits, a comment cap other than zero), and nothing about sizes.

`StoreProofs`: what `Enqueue`, `ClaimNext` and `Finish` do to the table and its
type.

`ReviewWorkerProofs`, in this order:

1. `TypeCorrect`. The held job is a row of the table because rows are never
   deleted; one lemma per group of steps.
2. `FirstInFirstOut` and `TriesBounded` from `QueueInv`. `SettledInOrder` alone
   is not inductive: `HeldJob` adds that the job in progress was claimed and is
   marked running until its outcome, and `AttemptsLeft` that a job which can
   still be claimed has an attempt left, counting faults. `StepShapes` reduces
   every step of a review to one of a few effects on the table.
3. `BudgetKept`, `ConsumedMeansPublished`, `SuppressedMeansShown` and
   `NoLostUpdate` from `BudgetInv`. The budget bound needs `SnapshotFresh` (the
   local row is still the stored one, since only the one worker writes it) and
   `WithinBudget` (a review goes on below the budget only). Publication needs
   `SummaryTracked` (a stored id is the summary of the stored pass, so an edit
   cannot hit another pass) and `SummaryInHand` (the id about to be stored is the
   one just written). The fingerprints need `CommentInHand`.

`ServiceProofs`:

1. `FindingsKept`, `SummariesKept` and `SuccessAnswered` from `AnswerInv`. That
   no finding is dropped is a matter of the whole pass: `FindingsPlaced` follows
   each from the engine's answer to a comment or to the list in the summary.
   `SummaryOfPass` relates the stored id to the stored pass and to the local
   copy, `NoticeShown` the flag to the forge, and `TriedBefore` says that a job
   with a history is never back at its first try.
2. `PassesCorrect`: `HeadRecorded` carries the recorded head from a consumed pass
   to the retries of its job, whatever jobs of the PR come between (none does,
   by `QueueInv`), and `NewHead` keeps a second pass from being entered.
3. `WorkerImplementsService`: with `TypeOK`, `QueueInv`, `BudgetInv`, `AnswerInv`
   and `PassInv`, each action is mapped to the step of the ledger it is (`Accept`,
   `OpenBudget`, `Consume`, `Settle`) or to a stutter.

`RepeatsProofs`: `RepeatsBoundedByFaults` is not inductive, as a copy is made long
after the fault that causes it. `RepeatsInv` counts a copy when it becomes
unavoidable: what is on the forge and neither remembered nor in the hands of a
live worker is owed, and copies made and owed are at most the faults (`PaidFor`).
One lemma for each thing that is posted says that making an owed copy costs
nothing more; `NothingPostedTwice` says that nothing else is copied.

`IntakeProofs`: `OneJobPerHead`, `AcknowledgedIsKept` and `NoLostWakeup` are
inductive together with `PromiseHeld`: a handler about to insert has a valid job,
and a status about to be answered is already true. `DeliveriesDeduplicated`,
`AcknowledgedJobsKept`, `WakeupsNotLost` and a `TypeCorrect` follow. For
`IntakeImplementsService` the ledger's order has to survive handlers that insert
while a review runs: `JobInTurn` says that the job in work stays the oldest that
is unsettled.

`RevisionsProofs`: `ReviewedMeansRead` and `DoneMeansRead` are inductive together
with `BranchGrows` (until something is taken off, the branch has whatever was
announced, so a first pass that races a push reads more than its head and not
less) and `ShownInHand` (what the attempt in progress was shown makes up for what
is still unread). `RefsNotOlder` needs `RefsInv`: a head with a job was pushed
before, and the memo is no older than the head it is kept for.
`OneTriplePerHead` needs `AnchorInv`: one job at a time, in the order of the
table, and one for each head, so that a comment for another head, which fills
the memo anew, is made only when the last try for the first head is over.

`OutputProofs` and `EngineRunProofs`:

1. `ReviewFound`: for every text the scan decodes the review, the object the
   documents promise, but for a misleading object behind it. `OutputInv` has
   `ScanInv` (where the scan can be, and that what it took are objects of the
   text), `InReader` (within a candidate the scan's depth and quotes agree with
   the JSON reader, which has seen no object end yet: `StepsAgree`) and `Passed`
   (of the objects that begin behind the scan all have ended, and it remembers
   the last one and the last payload: `AllPassed`). `OutermostStands` says that
   the reference is well defined: of objects that overlap, exactly the outermost
   stand on their own. A field is a quoted word, so a review is a payload and
   none is passed over; if the last payload is not the last review, it comes
   after it and is misleading.
2. `DeliveredIsUsed` from `ReportInv`: what a run is reported as agrees with how
   its child ended, with what it printed and with where its scan ended. With
   nothing misleading `ReviewFound` makes the object in hand the review;
   `QuotedInSpan` carries a word of it to the whole text, where the
   classification looks for it.
3. `NoGroupLeft` from `GroupInv`: after a timeout nobody of the group is left,
   and a run in progress took no case yet.
4. `SevereCommentedFirst` and `FindingsPlaced` from `SelectionInv`: what is tried
   and cut off is the selection from what the engine delivered. `Draws` relates a
   list to the one it was made from (same elements, same order), `FirstStands`
   and `CandidatesDrawn` say that the dedup loop keeps exactly the first mention
   of each fingerprint above the bar, `BySeveritySorted` that the four ranks in a
   row are a stable sort, and `CutByCap` that the cap loses nothing.

Both need induction, over the length of a text or of a list. The library's
induction theorems take an operator, so `SetInduction` states it for a set of
numbers, from the well-foundedness of `<`, and each use defines the set of the
lengths for which the claim holds. For the same reason `ReadAll`, `ElementsAt` and
`Candidates` are recursive functions and no folds; `Iteration` shows that such
functions exist, so that what TLC computes is what the proofs are about.

Only model-checked: what depends on fairness (`EveryJobSettled`, `StopEnds`,
`JobsStarted`, `ReviewReturns`), which the prover does not handle.

## Not modelled, and why

- The wording of comments and prompts (`render.go`, `prompt.go`), logs,
  `healthz`, environment parsing, scripts and CI: no state, or text only. `config`
  enters as the constants of the modules and their assumptions.
- The request and response formats of the two forges: each call is one step that
  is carried out, refused, or carried out with its response lost. GitHub's client
  keeps nothing between calls.
- What a forge does on its own: diff refs it has not computed yet, diffs it cuts
  short. `Revisions` assumes that what it returns belongs to the head the merge
  request has at that moment.
- Which words are a rate-limit signal: a free choice per run.
- Zero limits: `worker.New` turns them into defaults, so the constants are
  positive. A negative `MaxComments` is kept and means no cap (`worker.go:358`);
  `two_prs` has one.
- Several processes on one database file, and an operator editing rows.

## Plan

Done: everything under *Modules*, with the runs and theorems above. Left, in
this order:

1. `TwoWorkers`: a second process on one database, for the claim of ADR-0003, and
   an operator's manual requeue.
2. Reopened merge requests and a second one in `Revisions`.

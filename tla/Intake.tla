------------------------------- MODULE Intake -------------------------------
(***************************************************************************)
(* internal/webhook, and the process around it: concurrent HTTP handlers   *)
(* that put jobs into Store and wake the worker, a worker seen from the    *)
(* queue only, and the start and shutdown of cmd/pr-review-worker.         *)
(*                                                                         *)
(* A handler's own work (read, verify, parse) touches nothing shared and   *)
(* is one step; the INSERT, the wake-up and the answer are a step each.    *)
(* The forge may send every request again at any time.                     *)
(***************************************************************************)
EXTENDS Store

CONSTANTS
  Requests,     \* the events the forge announces, one value per occurrence
  Payload,      \* [Requests -> Payloads]: what each of them looks like
  Configured,   \* the endpoints that have a webhook secret
  MaxAttempts,  \* PRW_MAX_ATTEMPTS
  Faults,       \* the kinds of faults that may happen
  MaxFaults     \* bound on their number

Endpoints == {"github", "gitlab"}

Actions == {"opened", "ready_for_review", "reopened", "synchronize",
            "open", "reopen", "update", "labeled"}

\* "matches": the HMAC or the token is right.  "hook": the header names a
\* pull request event.  GitLab has two places for the head.  Of what names the
\* PR nothing is checked: a payload without a repository or a number makes a key
\* like any other, so PRs may have such keys too.
Payloads == [endpoint : Endpoints, body : {"whole", "oversized", "broken"},
             matches : BOOLEAN, hook : BOOLEAN, json : BOOLEAN,
             action : Actions, oldrev : BOOLEAN, pr : PRs,
             head : Heads \cup {NoSHA}, lastCommit : Heads \cup {NoSHA}]

\* "gone": the client hung up before its answer.
FaultKinds == {"crash", "stop", "db", "gone"}

ASSUME IntakeAssumption ==
  /\ Payload \in [Requests -> Payloads]
  /\ Configured \subseteq Endpoints
  /\ MaxAttempts \in Nat \ {0}
  /\ Faults \subseteq FaultKinds
  /\ MaxFaults \in Nat

VARIABLES
  hpc,      \* [Requests -> where its handler is]
  code,     \* [Requests -> status its handler will answer, 0 = undecided]
  answer,   \* [Requests -> last status the forge received, 0 = none]
  origin,   \* the request behind each job row, in id order
  unheard   \* the rows whose insert was reported as failed to its handler

VARIABLES
  wpc,        \* where the worker goroutine is
  job,        \* the job it runs, 0 for none
  token,      \* the one-slot notify channel is full
  ctx,        \* the context SIGTERM cancels
  listening,  \* the server accepts requests
  proc,       \* the process
  faults      \* faults so far

handlerVars == <<hpc, code, answer, origin, unheard>>
workerVars == <<wpc, job, token>>
processVars == <<ctx, listening, proc>>
vars == <<storeVars, handlerVars, workerVars, processVars, faults>>

Statuses == {200, 202, 204, 400, 401, 413, 500}

HandlerTypeOK ==
  /\ hpc \in [Requests -> {"out", "enqueue", "notify", "reply"}]
  /\ code \in [Requests -> Statuses \cup {0}]
  /\ answer \in [Requests -> Statuses \cup {0}]
  /\ origin \in Seq(Requests) /\ Len(origin) = Len(jobs)
  /\ unheard \subseteq DOMAIN jobs

LoopTypeOK ==
  /\ wpc \in {"claim", "empty", "wait", "failed", "busy", "returned"}
  /\ IF wpc = "busy" THEN job \in DOMAIN jobs ELSE job = 0
  /\ token \in BOOLEAN
  /\ ctx \in {"live", "cancelled"}
  /\ listening \in BOOLEAN
  /\ proc \in {"up", "closing", "down"}
  /\ faults \in 0..MaxFaults

TypeOK == StoreTypeOK /\ HandlerTypeOK /\ LoopTypeOK

Init ==
  /\ StoreInit
  /\ hpc = [r \in Requests |-> "out"]
  /\ code = [r \in Requests |-> 0]
  /\ answer = [r \in Requests |-> 0]
  /\ origin = <<>> /\ unheard = {}
  /\ wpc = "claim" /\ job = 0 /\ token = FALSE
  /\ ctx = "live" /\ listening = TRUE /\ proc = "up"
  /\ faults = 0

Suffer(kind) ==
  /\ kind \in Faults
  /\ faults < MaxFaults
  /\ faults' = faults + 1

----------------------------------------------------------------------------
(* Reading a request *)

Verified(d) == d.endpoint \in Configured /\ d.matches

\* The events each forge's parser knows; every other one is ignored.
GitHubEvent == [opened |-> "opened", ready_for_review |-> "opened",
                reopened |-> "reopened", synchronize |-> "synchronize"]
GitLabEvent == [open |-> "opened", reopen |-> "reopened",
                update |-> "synchronize"]

EventOf == [github |-> GitHubEvent, gitlab |-> GitLabEvent]

\* A GitLab update is a push only if it names the old revision.
Wanted(d) ==
  /\ d.action \in DOMAIN EventOf[d.endpoint]
  /\ d.endpoint = "gitlab" /\ d.action = "update" => d.oldrev

HeadOf(d) ==
  IF d.endpoint = "gitlab" /\ d.head = NoSHA THEN d.lastCommit ELSE d.head

JobOf(d) == [pr |-> d.pr, head |-> HeadOf(d),
             event |-> EventOf[d.endpoint][d.action]]

\* Slip: a payload without a head passes.
VerdictAnyHead(d) ==
  CASE d.body = "broken" -> 400
    [] d.body = "oversized" -> 413
    [] d.body = "whole" ->
         IF ~Verified(d) THEN 401
         ELSE IF ~d.hook THEN 204
         ELSE IF ~d.json THEN 400
         ELSE IF ~Wanted(d) THEN 204
         ELSE 0

\* The early returns of serve and the two parsers, in their order; 0 goes on.
Verdict(d) ==
  CASE d.body = "broken" -> 400
    [] d.body = "oversized" -> 413
    [] d.body = "whole" ->
         IF ~Verified(d) THEN 401
         ELSE IF ~d.hook THEN 204
         ELSE IF ~d.json THEN 400
         ELSE IF ~Wanted(d) THEN 204
         ELSE IF HeadOf(d) = NoSHA THEN 400
         ELSE 0

JobRequested(r) == JobOf(Payload[r])

----------------------------------------------------------------------------
(* A handler *)

At(r, label, status) ==
  /\ hpc' = [hpc EXCEPT ![r] = label]
  /\ code' = [code EXCEPT ![r] = status]

\* First delivery or redelivery.
Receive(r) ==
  /\ proc = "up" /\ listening
  /\ hpc[r] = "out"
  /\ LET status == Verdict(Payload[r]) IN
       At(r, IF status = 0 THEN "enqueue" ELSE "reply", status)
  /\ UNCHANGED <<storeVars, answer, origin, unheard, workerVars, processVars, faults>>

\* The row of a new job, and whose it is.
Enter(r) ==
  /\ Enqueue(JobRequested(r))
  /\ origin' = IF Known(JobRequested(r)) THEN origin ELSE Append(origin, r)

Insert(r) ==
  /\ hpc[r] = "enqueue"
  /\ proc = "up"
  /\ Enter(r)
  /\ IF Known(JobRequested(r)) THEN At(r, "reply", 200) ELSE At(r, "notify", 202)
  /\ UNCHANGED <<answer, unheard, workerVars, processVars, faults>>

\* The client hung up around the commit: the statement runs under the context
\* of the request, so the row may stand while the handler sees an error and
\* neither wakes the worker nor has anyone to answer.
InsertUnheard(r) ==
  /\ hpc[r] = "enqueue"
  /\ proc = "up"
  /\ Suffer("gone")
  /\ Enter(r)
  /\ unheard' = unheard \cup (DOMAIN jobs' \ DOMAIN jobs)
  /\ At(r, "out", 0)
  /\ UNCHANGED <<answer, workerVars, processVars>>

\* Slip: an insert that failed is acknowledged.
InsertFailsSilently(r) ==
  /\ hpc[r] = "enqueue"
  /\ \/ proc = "closing" /\ UNCHANGED faults
     \/ proc = "up" /\ Suffer("db")
  /\ At(r, "reply", 202)
  /\ UNCHANGED <<storeVars, answer, origin, unheard, workerVars, processVars>>

\* The statement failed, or main has closed the database under the handler.
InsertFails(r) ==
  /\ hpc[r] = "enqueue"
  /\ \/ proc = "closing" /\ UNCHANGED faults
     \/ proc = "up" /\ Suffer("db")
  /\ At(r, "reply", 500)
  /\ UNCHANGED <<storeVars, answer, origin, unheard, workerVars, processVars>>

\* Slip: the channel has no buffer, so only a waiting worker hears it.
NotifyUnbuffered(r) ==
  /\ hpc[r] = "notify"
  /\ token' = (token \/ wpc \in {"wait", "failed"})
  /\ At(r, "reply", code[r])
  /\ UNCHANGED <<storeVars, answer, origin, unheard, wpc, job, processVars, faults>>

\* A full channel is left alone; the send never blocks.
Notify(r) ==
  /\ hpc[r] = "notify"
  /\ token' = TRUE
  /\ At(r, "reply", code[r])
  /\ UNCHANGED <<storeVars, answer, origin, unheard, wpc, job, processVars, faults>>

Reply(r) ==
  /\ hpc[r] = "reply"
  /\ \/ answer' = [answer EXCEPT ![r] = code[r]] /\ UNCHANGED faults
     \/ Suffer("gone") /\ UNCHANGED answer
  /\ At(r, "out", 0)
  /\ UNCHANGED <<storeVars, origin, unheard, workerVars, processVars>>

----------------------------------------------------------------------------
(* The worker *)

Live == ctx = "live"
Waiting == wpc \in {"wait", "failed"}

Claim ==
  /\ wpc = "claim"
  /\ Live
  /\ \E id \in DOMAIN jobs : ClaimNext(id) /\ job' = id
  /\ wpc' = "busy"
  /\ UNCHANGED <<token, handlerVars, processVars, faults>>

\* ErrNoJob: the worker is about to wait.
ClaimNothing ==
  /\ wpc = "claim"
  /\ Live
  /\ NoJob
  /\ wpc' = "empty"
  /\ UNCHANGED <<storeVars, job, token, handlerVars, processVars, faults>>

ClaimFails ==
  /\ wpc = "claim"
  /\ \/ ~Live /\ UNCHANGED faults
     \/ Live /\ Suffer("db")
  /\ wpc' = "failed"
  /\ UNCHANGED <<storeVars, job, token, handlerVars, processVars>>

\* Slip: stale hints are drained first.
StartWaitingDrained ==
  /\ wpc = "empty"
  /\ wpc' = "wait"
  /\ token' = FALSE
  /\ UNCHANGED <<storeVars, job, handlerVars, processVars, faults>>

StartWaiting ==
  /\ wpc = "empty"
  /\ wpc' = "wait"
  /\ UNCHANGED <<storeVars, job, token, handlerVars, processVars, faults>>

Hint ==
  /\ Waiting
  /\ token
  /\ token' = FALSE
  /\ wpc' = "claim"
  /\ UNCHANGED <<storeVars, job, handlerVars, processVars, faults>>

Timer ==
  /\ Waiting
  /\ wpc' = "claim"
  /\ UNCHANGED <<storeVars, job, token, handlerVars, processVars, faults>>

Leave ==
  /\ Waiting
  /\ ~Live
  /\ wpc' = "returned"
  /\ UNCHANGED <<storeVars, job, token, handlerVars, processVars, faults>>

\* runJob with whatever outcome the review had; Finish may fail.
RunJob ==
  /\ wpc = "busy"
  /\ \/ /\ Live
        /\ Finish(job, "done") \/ Finish(job, IF jobs[job].attempts < MaxAttempts
                                              THEN "failed" ELSE "dead")
        /\ UNCHANGED faults
     \/ Live /\ Suffer("db") /\ UNCHANGED storeVars
     \/ ~Live /\ UNCHANGED <<storeVars, faults>>
  /\ wpc' = IF Live THEN "claim" ELSE "returned"
  /\ job' = 0
  /\ UNCHANGED <<token, handlerVars, processVars>>

----------------------------------------------------------------------------
(* The process *)

Stop ==
  /\ proc = "up"
  /\ Live
  /\ Suffer("stop")
  /\ ctx' = "cancelled"
  /\ UNCHANGED <<storeVars, handlerVars, workerVars, listening, proc>>

\* Shutdown closes the listener and ListenAndServe returns at once.
CloseListener ==
  /\ proc = "up"
  /\ ~Live
  /\ listening
  /\ listening' = FALSE
  /\ UNCHANGED <<storeVars, handlerVars, workerVars, ctx, proc, faults>>

\* run waits for the worker, not for the handlers, and closes the store.
CloseStore ==
  /\ proc = "up"
  /\ ~listening
  /\ wpc = "returned"
  /\ proc' = "closing"
  /\ UNCHANGED <<storeVars, handlerVars, workerVars, ctx, listening, faults>>

\* The process is gone, and with it every handler and the channel.
Vanish ==
  /\ proc' = "down" /\ listening' = FALSE
  /\ hpc' = [r \in Requests |-> "out"] /\ code' = [r \in Requests |-> 0]
  /\ wpc' = "returned" /\ job' = 0 /\ token' = FALSE
  /\ UNCHANGED <<storeVars, answer, origin, unheard, ctx>>

Exit == proc = "closing" /\ Vanish /\ UNCHANGED faults

Crash == proc # "down" /\ Vanish /\ Suffer("crash")

Restart ==
  /\ proc = "down"
  /\ wpc' = "claim"
  /\ job' = 0 /\ token' = FALSE
  /\ ctx' = "live" /\ listening' = TRUE /\ proc' = "up"
  /\ UNCHANGED <<storeVars, handlerVars, faults>>

HandlerStep ==
  \E r \in Requests :
    Insert(r) \/ InsertUnheard(r) \/ InsertFails(r) \/ Notify(r) \/ Reply(r)

\* Everything the worker does of its own accord; the timer is kept apart.
WorkerStep ==
  Claim \/ ClaimNothing \/ ClaimFails \/ StartWaiting \/ Hint \/ Leave \/ RunJob

ProcessStep == CloseListener \/ CloseStore \/ Exit \/ Restart

Next ==
  \/ \E r \in Requests : Receive(r)
  \/ HandlerStep \/ WorkerStep \/ Timer
  \/ ProcessStep \/ Stop \/ Crash

Spec == Init /\ [][Next]_vars

\* Handlers and the worker run on, shutdown and systemd do their part, and the
\* timer is not asked for.  The last conjunct: with failing store statements, or
\* clients that hang up, a queue may be served by the poll interval only.
HintFairness ==
  /\ \A r \in Requests :
       WF_vars(Insert(r) \/ InsertFails(r) \/ Notify(r) \/ Reply(r))
  /\ WF_vars(WorkerStep) /\ SF_vars(Leave) /\ WF_vars(ProcessStep)
  /\ Faults \cap {"db", "gone"} # {} => WF_vars(Timer)

FairSpec == Spec /\ HintFairness
----------------------------------------------------------------------------
(* Properties *)

\* However often and in whichever words the forge announces a head, and however
\* its requests race, the queue holds one job for it and one more if the PR was
\* reopened there (Enqueue, the delivery ids of the two parsers).
OneJobPerHead ==
  \A i, k \in DOMAIN jobs :
    (/\ jobs[i].pr = jobs[k].pr
     /\ jobs[i].head = jobs[k].head
     /\ (jobs[i].event = "reopened") = (jobs[k].event = "reopened")) => i = k

\* What the forge was told is queued is in the table, with its own PR, head and
\* kind, whatever crashed, failed or was closed in between; and a 202 is given
\* to the request that made the row (Enqueue before the answer).
AcknowledgedIsKept ==
  \A r \in Requests :
    /\ answer[r] \in {200, 202} => Known(JobRequested(r))
    /\ answer[r] = 202 => \E k \in DOMAIN origin : origin[k] = r

\* No lost wake-up: a worker that found the queue empty and is about to wait,
\* or waits, with a job in the queue has a hint in the channel or a handler
\* about to put one there (the INSERT before the send, the buffer of one).  A
\* job whose handler was told that the insert failed waits for the timer.
NoLostWakeup ==
  (/\ wpc \in {"empty", "wait"}
   /\ \E id \in DOMAIN jobs \ unheard : jobs[id].state \in Runnable) =>
    token \/ \E r \in Requests : hpc[r] = "notify"

\* What makes them inductive: a handler about to insert has a job to insert, and
\* a status it is about to answer is already true.
PromiseHeld ==
  \A r \in Requests :
    /\ hpc[r] = "enqueue" => Verdict(Payload[r]) = 0
    /\ code[r] \in {200, 202} => Known(JobRequested(r))
    /\ code[r] = 202 => \E k \in DOMAIN origin : origin[k] = r

\* No handler gets in front of the job the worker runs: it stays the oldest
\* unsettled one until its outcome is written.
JobInTurn == wpc = "busy" => Oldest(job)

IntakeInv ==
  /\ OneJobPerHead
  /\ AcknowledgedIsKept
  /\ NoLostWakeup
  /\ PromiseHeld
  /\ JobInTurn

\* Handlers and worker together implement the ledger of ReviewService as far as
\* jobs go: however requests race, are repeated and fail, each valid delivery is
\* accepted once and the jobs are settled one by one in the order of the table.
\* What a review does to the budget is not seen here.
Service == INSTANCE ReviewService WITH
  MaxCycles <- 0,
  Deliveries <- {JobRequested(r) : r \in {q \in Requests : Verdict(Payload[q]) = 0}},
  ledger <- [id \in DOMAIN jobs |->
               [pr |-> jobs[id].pr, head |-> jobs[id].head, event |-> jobs[id].event,
                fate |-> IF jobs[id].state \in Runnable THEN "pending"
                         ELSE jobs[id].state]],
  passes <- [p \in PRs |-> 0],
  lastHead <- [p \in PRs |-> NoSHA],
  opened <- {},
  consumed <- {}

ImplementsService == Service!Spec

\* The hint alone serves the queue: every job is tried although the poll
\* interval never elapses, as long as no store statement fails and no client
\* hangs up.
JobsStarted ==
  \A id \in 1..Cardinality(Requests) :
    (id \in DOMAIN jobs) ~> (id \in DOMAIN jobs /\ jobs[id].attempts > 0)

\* githubJob's comment and ADR-0005: a reopen must not collapse into an earlier
\* delivery, or the review that resets the budget is never enqueued.
EveryReopenQueued ==
  \A r \in Requests :
    (answer[r] = 200 /\ JobRequested(r).event = "reopened") =>
      \E k \in DOMAIN origin : origin[k] = r
=============================================================================

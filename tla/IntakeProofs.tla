---------------------------- MODULE IntakeProofs ----------------------------
(***************************************************************************)
(* Theorems about Intake, for every set of requests, whatever they ask     *)
(* for, and every mix and number of faults.                                *)
(***************************************************************************)
EXTENDS Intake, StoreProofs

----------------------------------------------------------------------------
(* Type correctness *)

\* A payload that passes every check of serve names a head and a known event.
LEMMA WantedJob ==
  ASSUME NEW d \in Payloads, Verdict(d) = 0
  PROVE  JobOf(d) \in [pr : PRs, head : Heads, event : Events]
<1>1. Wanted(d) /\ HeadOf(d) # NoSHA
  BY DEF Verdict, Payloads
<1>2. HeadOf(d) \in Heads
  BY <1>1 DEF HeadOf, Payloads
<1>3. EventOf[d.endpoint][d.action] \in Events
  <2>1. CASE d.endpoint = "github"
    BY <1>1, <2>1 DEF Wanted, EventOf, GitHubEvent, Events
  <2>2. CASE d.endpoint = "gitlab"
    BY <1>1, <2>2 DEF Wanted, EventOf, GitLabEvent, Events
  <2> QED
    BY <2>1, <2>2 DEF Payloads, Endpoints
<1> QED
  BY <1>2, <1>3 DEF JobOf, Payloads

LEMMA VerdictType ==
  ASSUME NEW d \in Payloads
  PROVE  Verdict(d) \in {0, 204, 400, 401, 413}
  BY DEF Verdict, Payloads

LEMMA InitType == Init => TypeOK
<1> SUFFICES ASSUME Init PROVE TypeOK
  OBVIOUS
<1>1. ZeroPRState \in PRRow
  BY DEF ZeroPRState, PRRow
<1>2. StoreTypeOK
  BY <1>1 DEF Init, StoreInit, StoreTypeOK
<1>3. jobs = <<>> /\ origin = <<>>
  BY DEF Init, StoreInit
<1>4. origin \in Seq(Requests) /\ Len(origin) = Len(jobs)
  BY <1>3
<1>5. HandlerTypeOK
  BY <1>4 DEF Init, HandlerTypeOK, Statuses
<1>6. LoopTypeOK
  <2>1. token \in BOOLEAN /\ listening \in BOOLEAN
    BY ZenonT(20) DEF Init
  <2>2. faults \in 0..MaxFaults
    BY IntakeAssumption DEF Init
  <2> QED
    BY <2>1, <2>2 DEF Init, LoopTypeOK
<1> QED
  BY <1>2, <1>5, <1>6 DEF TypeOK

LEMMA SufferType ==
  ASSUME TypeOK, NEW kind, Suffer(kind)
  PROVE  faults' \in 0..MaxFaults
  BY IntakeAssumption DEF TypeOK, LoopTypeOK, Suffer

\* The request a handler inserts for.
LEMMA RequestType ==
  ASSUME NEW r \in Requests
  PROVE  Payload[r] \in Payloads
  BY IntakeAssumption

\* INSERT OR IGNORE, whether or not the handler hears of its outcome.
LEMMA EnterEffect ==
  ASSUME TypeOK, PromiseHeld, NEW r \in Requests, hpc[r] = "enqueue", Enter(r)
  PROVE  /\ StoreTypeOK'
         /\ origin' \in Seq(Requests) /\ Len(origin') = Len(jobs')
         /\ JobRequested(r) \in [pr : PRs, head : Heads, event : Events]
         /\ \A k \in DOMAIN jobs : k \in DOMAIN jobs' /\ jobs'[k] = jobs[k]
         /\ IF Known(JobRequested(r))
            THEN jobs' = jobs /\ origin' = origin
            ELSE /\ DOMAIN jobs' = DOMAIN jobs \cup {Len(jobs) + 1}
                 /\ DeliveryID(jobs'[Len(jobs) + 1]) = DeliveryID(JobRequested(r))
                 /\ origin'[Len(jobs) + 1] = r
                 /\ DOMAIN origin' = DOMAIN jobs'
         /\ \A k \in DOMAIN origin : k \in DOMAIN origin' /\ origin'[k] = origin[k]
<1> DEFINE d == JobRequested(r)
<1> DEFINE row == [pr |-> d.pr, head |-> d.head, event |-> d.event,
                   state |-> "queued", attempts |-> 0]
<1>1. d \in [pr : PRs, head : Heads, event : Events]
  BY WantedJob, RequestType DEF PromiseHeld, JobRequested
<1>2. Enqueue(d)
  BY DEF Enter
<1> HIDE DEF d
<1>3. /\ StoreTypeOK'
      /\ DOMAIN jobs \subseteq DOMAIN jobs'
      /\ \A k \in DOMAIN jobs : jobs'[k] = jobs[k]
  BY <1>1, <1>2, EnqueueEffect DEF TypeOK
<1>4. row \in JobRow
  BY <1>1 DEF JobRow, JobStates
<1>5. /\ jobs \in Seq(JobRow) /\ origin \in Seq(Requests)
      /\ Len(origin) = Len(jobs) /\ Len(jobs) \in Nat
      /\ DOMAIN jobs = 1..Len(jobs) /\ DOMAIN origin = 1..Len(jobs)
  BY DEF TypeOK, StoreTypeOK, HandlerTypeOK
<1>6. CASE Known(d)
  <2>1. jobs' = jobs /\ origin' = origin
    BY <1>6 DEF Enter, Enqueue, d
  <2> QED
    BY <1>1, <1>3, <1>5, <1>6, <2>1 DEF d
<1>7. CASE ~Known(d)
  <2>1. jobs' = Append(jobs, row) /\ origin' = Append(origin, r)
    BY <1>7 DEF Enter, Enqueue, d
  <2> HIDE DEF row
  <2>2. /\ Len(jobs') = Len(jobs) + 1 /\ DOMAIN jobs' = 1..(Len(jobs) + 1)
        /\ jobs'[Len(jobs) + 1] = row
    BY <1>4, <1>5, <2>1
  <2>3. /\ origin' \in Seq(Requests)
        /\ Len(origin') = Len(jobs) + 1 /\ DOMAIN origin' = 1..(Len(jobs) + 1)
        /\ origin'[Len(jobs) + 1] = r
        /\ \A k \in 1..Len(jobs) : origin'[k] = origin[k]
    BY <1>5, <2>1
  <2>4. DeliveryID(row) = DeliveryID(d)
    BY DEF DeliveryID, row
  <2> QED
    BY <1>1, <1>3, <1>5, <1>7, <2>2, <2>3, <2>4 DEF d
<1> QED
  BY <1>6, <1>7

\* Steps that leave the keys of the table alone.
LEMMA SameKeys ==
  ASSUME DOMAIN jobs' = DOMAIN jobs,
         \A k \in DOMAIN jobs : /\ jobs'[k].pr = jobs[k].pr
                                /\ jobs'[k].head = jobs[k].head
                                /\ jobs'[k].event = jobs[k].event
  PROVE  /\ \A k \in DOMAIN jobs : DeliveryID(jobs'[k]) = DeliveryID(jobs[k])
         /\ \A d : Known(d)' <=> Known(d)
         /\ OneJobPerHead => OneJobPerHead'
  BY DEF DeliveryID, Known, OneJobPerHead

\* Claims and outcomes are such steps.
LEMMA WorkerKeys ==
  ASSUME StoreTypeOK, NEW id \in DOMAIN jobs,
         ClaimNext(id) \/ \E s \in JobStates : Finish(id, s)
  PROVE  /\ StoreTypeOK'
         /\ DOMAIN jobs' = DOMAIN jobs
         /\ Len(jobs') = Len(jobs)
         /\ \A k \in DOMAIN jobs : /\ jobs'[k].pr = jobs[k].pr
                                   /\ jobs'[k].head = jobs[k].head
                                   /\ jobs'[k].event = jobs[k].event
<1>1. CASE ClaimNext(id)
  <2>1. jobs' = [jobs EXCEPT ![id].state = "running", ![id].attempts = @ + 1]
    BY <1>1 DEF ClaimNext
  <2>2. StoreTypeOK'
    BY <1>1, ClaimEffect
  <2> QED
    BY <2>1, <2>2 DEF StoreTypeOK, JobRow
<1>2. ASSUME NEW s \in JobStates, Finish(id, s)
      PROVE  /\ StoreTypeOK'
             /\ DOMAIN jobs' = DOMAIN jobs
             /\ Len(jobs') = Len(jobs)
             /\ \A k \in DOMAIN jobs : /\ jobs'[k].pr = jobs[k].pr
                                       /\ jobs'[k].head = jobs[k].head
                                       /\ jobs'[k].event = jobs[k].event
  <2>1. jobs' = [jobs EXCEPT ![id].state = s]
    BY <1>2 DEF Finish
  <2>2. StoreTypeOK'
    BY <1>2, FinishEffect
  <2> QED
    BY <2>1, <2>2 DEF StoreTypeOK, JobRow
<1> QED
  BY <1>1, <1>2

----------------------------------------------------------------------------
(* Every step keeps the invariant *)

\* The invariants of the requests and the table.
RequestsInv ==
  /\ OneJobPerHead
  /\ AcknowledgedIsKept
  /\ NoLostWakeup
  /\ PromiseHeld

Inv == TypeOK /\ RequestsInv

\* A new row repeats no key and takes no job away.
LEMMA EnterKeeps ==
  ASSUME Inv, NEW r \in Requests, hpc[r] = "enqueue", Enter(r)
  PROVE  /\ OneJobPerHead'
         /\ \A e : Known(e) => Known(e)'
         /\ Known(JobRequested(r))'
<1> DEFINE d == JobRequested(r)
<1>1. /\ \A k \in DOMAIN jobs : k \in DOMAIN jobs' /\ jobs'[k] = jobs[k]
      /\ IF Known(d)
         THEN jobs' = jobs
         ELSE /\ DOMAIN jobs' = DOMAIN jobs \cup {Len(jobs) + 1}
              /\ DeliveryID(jobs'[Len(jobs) + 1]) = DeliveryID(d)
  BY EnterEffect DEF Inv, RequestsInv
<1>2. \A e : Known(e) => Known(e)'
  BY <1>1 DEF Known
<1>3. Known(d)'
  BY <1>1, <1>2 DEF Known
<1>4. OneJobPerHead'
  <2>1. CASE Known(d)
    BY <1>1, <2>1 DEF Inv, RequestsInv, OneJobPerHead
  <2>2. CASE ~Known(d)
    <3>1. \A k \in DOMAIN jobs : DeliveryID(jobs[k]) # DeliveryID(jobs'[Len(jobs) + 1])
      BY <1>1, <2>2 DEF Known
    <3>2. \A k \in DOMAIN jobs :
            LET new == jobs'[Len(jobs) + 1] IN
            ~ /\ jobs[k].pr = new.pr
              /\ jobs[k].head = new.head
              /\ (jobs[k].event = "reopened") = (new.event = "reopened")
      BY <3>1, Zenon DEF DeliveryID
    <3> QED
      BY <1>1, <2>2, <3>2 DEF Inv, RequestsInv, OneJobPerHead
  <2> QED
    BY <2>1, <2>2
<1> QED
  BY <1>2, <1>3, <1>4

\* Promises stay true and a handler that made a row owes the wake-up, unless it
\* does not know that it made one.
LEMMA InsertStep ==
  ASSUME Inv, NEW r \in Requests, Insert(r) \/ InsertUnheard(r)
  PROVE  Inv'
<1> DEFINE d == JobRequested(r)
<1>1. hpc[r] = "enqueue" /\ Enter(r) /\ UNCHANGED <<workerVars, processVars, answer>>
  BY DEF Insert, InsertUnheard
<1>2. /\ StoreTypeOK'
      /\ origin' \in Seq(Requests) /\ Len(origin') = Len(jobs')
      /\ \A k \in DOMAIN jobs : k \in DOMAIN jobs' /\ jobs'[k] = jobs[k]
      /\ IF Known(d)
         THEN jobs' = jobs
         ELSE origin'[Len(jobs) + 1] = r /\ Len(jobs) + 1 \in DOMAIN origin'
      /\ \A k \in DOMAIN origin : k \in DOMAIN origin' /\ origin'[k] = origin[k]
  BY <1>1, EnterEffect DEF Inv, RequestsInv
<1>3. OneJobPerHead' /\ Known(d)' /\ \A e : Known(e) => Known(e)'
  BY <1>1, EnterKeeps
<1>4. /\ \A q \in Requests \ {r} : hpc'[q] = hpc[q] /\ code'[q] = code[q]
      /\ hpc'[r] # "enqueue"
      /\ code'[r] = 202 => ~Known(d)
      /\ \/ ~Known(d) => hpc'[r] = "notify"
         \/ unheard' = unheard \cup (DOMAIN jobs' \ DOMAIN jobs)
      /\ unheard \subseteq unheard'
  BY DEF Insert, InsertUnheard, At, Inv, TypeOK, HandlerTypeOK
<1>5. TypeOK'
  <2>1. faults' \in 0..MaxFaults
    BY SufferType DEF Insert, InsertUnheard, Inv, TypeOK, LoopTypeOK
  <2>2. LoopTypeOK'
    BY <1>1, <1>2, <2>1 DEF Inv, TypeOK, LoopTypeOK, workerVars, processVars
  <2>3. unheard' \subseteq DOMAIN jobs'
    BY <1>2 DEF Insert, InsertUnheard, Inv, TypeOK, HandlerTypeOK
  <2>4. /\ hpc' \in [Requests -> {"out", "enqueue", "notify", "reply"}]
        /\ code' \in [Requests -> Statuses \cup {0}]
    BY DEF Insert, InsertUnheard, At, Inv, TypeOK, HandlerTypeOK, Statuses
  <2>5. HandlerTypeOK'
    BY <1>1, <1>2, <2>3, <2>4 DEF Inv, TypeOK, HandlerTypeOK
  <2> QED
    BY <1>2, <2>2, <2>5 DEF TypeOK
<1>6. AcknowledgedIsKept'
  BY <1>1, <1>2, <1>3 DEF Inv, RequestsInv, AcknowledgedIsKept, JobRequested
<1>7. NoLostWakeup'
  <2> SUFFICES ASSUME ~ \E q \in Requests : hpc'[q] = "notify",
                      wpc' \in {"empty", "wait"},
                      NEW id \in DOMAIN jobs' \ unheard', jobs'[id].state \in Runnable
               PROVE  token'
    BY DEF NoLostWakeup
  <2>1. wpc' = wpc /\ token' = token
    BY <1>1 DEF workerVars
  <2>2. \A q \in Requests : hpc[q] # "notify"
    BY <1>1, <1>4
  <2>3. id \in DOMAIN jobs \ unheard /\ jobs[id].state \in Runnable
    BY <1>2, <1>4
  <2> QED
    BY <2>1, <2>2, <2>3 DEF Inv, RequestsInv, NoLostWakeup
<1>8. PromiseHeld'
  <2> SUFFICES ASSUME NEW q \in Requests
               PROVE  /\ hpc'[q] = "enqueue" => Verdict(Payload[q]) = 0
                      /\ code'[q] \in {200, 202} => Known(JobRequested(q))'
                      /\ code'[q] = 202 => \E k \in DOMAIN origin' : origin'[k] = q
    BY DEF PromiseHeld, JobRequested
  <2>1. CASE q = r
    BY <1>2, <1>3, <1>4, <2>1
  <2>2. CASE q # r
    BY <1>2, <1>3, <1>4, <2>2 DEF Inv, RequestsInv, PromiseHeld
  <2> QED
    BY <2>1, <2>2
<1> QED
  BY <1>3, <1>5, <1>6, <1>7, <1>8 DEF Inv, RequestsInv

\* The other steps of a handler add no job; a handler that is past the INSERT
\* leaves "notify" only by sending.
LEMMA HandlerSteps ==
  ASSUME Inv, NEW r \in Requests,
         Receive(r) \/ InsertFails(r) \/ Notify(r) \/ Reply(r)
  PROVE  Inv'
<1>1. /\ UNCHANGED storeVars /\ UNCHANGED <<origin, unheard>> /\ wpc' = wpc /\ job' = job
      /\ UNCHANGED processVars
  BY DEF Receive, InsertFails, Notify, Reply, workerVars
<1>2. Verdict(Payload[r]) \in {0, 204, 400, 401, 413}
  BY VerdictType, RequestType
<1>3. faults' \in 0..MaxFaults
  BY SufferType DEF Inv, TypeOK, LoopTypeOK, Receive, InsertFails, Notify, Reply
<1>4. token' \in BOOLEAN /\ (token => token')
  <2>1. CASE Notify(r)
    BY <2>1, Zenon DEF Notify
  <2>2. CASE UNCHANGED token
    BY <2>2, Zenon DEF Inv, TypeOK, LoopTypeOK
  <2> QED
    BY <2>1, <2>2 DEF Receive, InsertFails, Reply, workerVars
<1>5. HandlerTypeOK'
  <2>1. \E label \in {"out", "enqueue", "notify", "reply"} :
          \E status \in Statuses \cup {0} : At(r, label, status)
    BY <1>2 DEF Receive, InsertFails, Notify, Reply, Inv, TypeOK, HandlerTypeOK, Statuses
  <2>2. answer' \in [Requests -> Statuses \cup {0}]
    BY DEF Receive, InsertFails, Notify, Reply, Inv, TypeOK, HandlerTypeOK
  <2> QED
    BY <1>1, <2>1, <2>2 DEF At, Inv, TypeOK, HandlerTypeOK, storeVars
<1>6. TypeOK'
  BY <1>1, <1>3, <1>4, <1>5
  DEF Inv, TypeOK, StoreTypeOK, LoopTypeOK, storeVars, processVars
<1>7. OneJobPerHead'
  BY <1>1 DEF Inv, RequestsInv, OneJobPerHead, storeVars
<1>8. PromiseHeld'
  BY <1>1, <1>2 DEF Receive, InsertFails, Notify, Reply, At, Inv, RequestsInv, TypeOK,
                    HandlerTypeOK, PromiseHeld, Known, JobRequested, storeVars
<1>9. AcknowledgedIsKept'
  <2>1. \A q \in Requests : answer'[q] = answer[q] \/ answer'[q] = code[q]
    BY DEF Receive, InsertFails, Notify, Reply, Inv, TypeOK, HandlerTypeOK
  <2> QED
    BY <1>1, <2>1 DEF Inv, RequestsInv, PromiseHeld, AcknowledgedIsKept, Known, storeVars
<1>10. NoLostWakeup'
  <2>1. CASE Notify(r)
    BY <2>1 DEF Notify, NoLostWakeup
  <2>2. CASE ~Notify(r)
    <3>1. \A q \in Requests : hpc[q] = "notify" => hpc'[q] = "notify"
      BY <2>2 DEF Receive, InsertFails, Reply, At, Inv, TypeOK, HandlerTypeOK
    <3> QED
      BY <1>1, <1>4, <3>1 DEF Inv, RequestsInv, NoLostWakeup, NoJob, storeVars
  <2> QED
    BY <2>1, <2>2
<1> QED
  BY <1>6, <1>7, <1>8, <1>9, <1>10 DEF Inv, RequestsInv

\* Steps of the worker and the process that touch neither the table nor a
\* handler.  A worker never starts to wait with a job in the queue.
LEMMA QuietSteps ==
  ASSUME Inv, UNCHANGED <<storeVars, handlerVars>>, LoopTypeOK',
         token => token' \/ wpc' = "claim",
         wpc' \in {"empty", "wait"} => wpc \in {"empty", "wait"} \/ NoJob
  PROVE  Inv'
<1>1. TypeOK'
  BY DEF Inv, TypeOK, StoreTypeOK, HandlerTypeOK, storeVars, handlerVars
<1>2. OneJobPerHead' /\ AcknowledgedIsKept' /\ PromiseHeld'
  BY DEF Inv, RequestsInv, OneJobPerHead, AcknowledgedIsKept, PromiseHeld, Known,
         JobRequested, storeVars, handlerVars
<1>3. NoLostWakeup'
  BY DEF Inv, RequestsInv, NoLostWakeup, NoJob, storeVars, handlerVars
<1> QED
  BY <1>1, <1>2, <1>3 DEF Inv, RequestsInv

\* Claims and outcomes leave the keys alone and lead away from waiting.
LEMMA BusySteps ==
  ASSUME Inv, NEW id \in DOMAIN jobs,
         ClaimNext(id) \/ \E s \in JobStates : Finish(id, s),
         UNCHANGED handlerVars, wpc' \notin {"empty", "wait"},
         DOMAIN jobs' = DOMAIN jobs => LoopTypeOK'
  PROVE  Inv'
<1>1. /\ StoreTypeOK' /\ DOMAIN jobs' = DOMAIN jobs /\ Len(jobs') = Len(jobs)
      /\ \A k \in DOMAIN jobs : /\ jobs'[k].pr = jobs[k].pr
                                /\ jobs'[k].head = jobs[k].head
                                /\ jobs'[k].event = jobs[k].event
  BY WorkerKeys DEF Inv, TypeOK
<1>2. OneJobPerHead' /\ \A d : Known(d)' <=> Known(d)
  BY <1>1, SameKeys DEF Inv, RequestsInv
<1>3. TypeOK'
  BY <1>1 DEF Inv, TypeOK, HandlerTypeOK, handlerVars
<1>4. AcknowledgedIsKept' /\ PromiseHeld'
  BY <1>2 DEF Inv, RequestsInv, AcknowledgedIsKept, PromiseHeld, JobRequested, handlerVars
<1>5. NoLostWakeup'
  BY DEF NoLostWakeup
<1> QED
  BY <1>2, <1>3, <1>4, <1>5 DEF Inv, RequestsInv

\* A process that is gone takes its handlers, its channel and its worker along.
LEMMA VanishStep ==
  ASSUME Inv, Vanish, faults' \in 0..MaxFaults
  PROVE  Inv'
<1>1. HandlerTypeOK'
  BY DEF Vanish, Inv, TypeOK, HandlerTypeOK, storeVars
<1>2. LoopTypeOK'
  <2>1. token' \in BOOLEAN /\ listening' \in BOOLEAN
    BY ZenonT(20) DEF Vanish
  <2> QED
    BY <2>1 DEF Vanish, Inv, TypeOK, LoopTypeOK
<1>3. TypeOK'
  BY <1>1, <1>2 DEF Vanish, Inv, TypeOK, StoreTypeOK, storeVars
<1>4. OneJobPerHead' /\ AcknowledgedIsKept'
  BY DEF Vanish, Inv, RequestsInv, OneJobPerHead, AcknowledgedIsKept, Known,
         JobRequested, storeVars
<1>5. NoLostWakeup'
  BY DEF Vanish, NoLostWakeup
<1>6. PromiseHeld'
  BY DEF Vanish, PromiseHeld
<1> QED
  BY <1>3, <1>4, <1>5, <1>6 DEF Inv, RequestsInv

LEMMA InvNext == Inv /\ [Next]_vars => Inv'
<1> SUFFICES ASSUME Inv, [Next]_vars PROVE Inv'
  OBVIOUS
<1> USE DEF Inv, TypeOK, LoopTypeOK
<1>1. CASE (\E r \in Requests : Receive(r)) \/ HandlerStep
  BY <1>1, InsertStep, HandlerSteps DEF HandlerStep
<1>2. CASE Claim
  <2>1. PICK id \in DOMAIN jobs : ClaimNext(id) /\ job' = id
    BY <1>2 DEF Claim
  <2>2. DOMAIN jobs' = DOMAIN jobs => LoopTypeOK'
    BY <1>2, <2>1 DEF Claim, processVars
  <2> QED
    BY <1>2, <2>1, <2>2, BusySteps DEF Claim
<1>3. CASE ClaimNothing \/ ClaimFails \/ StartWaiting \/ Timer \/ Leave
  <2>1. faults' \in 0..MaxFaults
    BY <1>3, SufferType DEF ClaimNothing, ClaimFails, StartWaiting, Timer, Leave
  <2>2. /\ UNCHANGED <<storeVars, handlerVars, processVars, token>>
        /\ wpc \in {"claim", "empty", "wait", "failed"}
        /\ wpc' \in {"claim", "empty", "wait", "failed", "returned"}
        /\ job' = job
        /\ wpc' = "empty" => NoJob
        /\ wpc' = "wait" => wpc = "empty"
    BY <1>3 DEF ClaimNothing, ClaimFails, StartWaiting, Timer, Leave, Waiting
  <2>3. LoopTypeOK'
    BY <2>1, <2>2 DEF processVars
  <2> QED
    BY <2>2, <2>3, QuietSteps
<1>4. CASE Hint
  <2>1. LoopTypeOK'
    <3>1. token' \in BOOLEAN
      BY <1>4, Zenon DEF Hint
    <3> QED
      BY <1>4, <3>1 DEF Hint, Waiting, processVars
  <2> QED
    BY <1>4, <2>1, QuietSteps DEF Hint
<1>5. CASE RunJob
  <2>1. faults' \in 0..MaxFaults
    BY <1>5, SufferType DEF RunJob
  <2>2. job \in DOMAIN jobs
    BY <1>5 DEF RunJob
  <2>3. LoopTypeOK'
    BY <1>5, <2>1 DEF RunJob, processVars
  <2>4. CASE \E s \in JobStates : Finish(job, s)
    BY <1>5, <2>2, <2>3, <2>4, BusySteps DEF RunJob
  <2>5. CASE UNCHANGED storeVars
    BY <1>5, <2>3, <2>5, QuietSteps DEF RunJob
  <2> QED
    BY <1>5, <2>4, <2>5 DEF RunJob, JobStates
<1>6. CASE Stop \/ CloseListener \/ CloseStore
  <2>1. faults' \in 0..MaxFaults
    BY <1>6, SufferType DEF Stop, CloseListener, CloseStore
  <2>2. listening' \in BOOLEAN
    BY <1>6, Zenon DEF Stop, CloseListener, CloseStore
  <2>3. LoopTypeOK'
    BY <1>6, <2>1, <2>2 DEF Stop, CloseListener, CloseStore, workerVars, storeVars
  <2> QED
    BY <1>6, <2>3, QuietSteps DEF Stop, CloseListener, CloseStore, workerVars
<1>7. CASE Exit \/ Crash
  <2>1. faults' \in 0..MaxFaults
    BY <1>7, SufferType DEF Exit, Crash
  <2> QED
    BY <1>7, <2>1, VanishStep DEF Exit, Crash
<1>8. CASE Restart
  <2>1. listening' \in BOOLEAN /\ token' \in BOOLEAN
    BY <1>8, Zenon DEF Restart
  <2>2. LoopTypeOK'
    BY <1>8, <2>1 DEF Restart, storeVars
  <2> QED
    BY <1>8, <2>2, QuietSteps DEF Restart
<1>9. CASE UNCHANGED vars
  <2>1. LoopTypeOK'
    BY <1>9 DEF vars, workerVars, processVars, storeVars
  <2> QED
    BY <1>9, <2>1, QuietSteps DEF vars, workerVars
<1> QED
  BY <1>1, <1>2, <1>3, <1>4, <1>5, <1>6, <1>7, <1>8, <1>9
  DEF Next, WorkerStep, ProcessStep

LEMMA InvInit == Init => Inv
<1> SUFFICES ASSUME Init PROVE Inv
  OBVIOUS
<1>1. TypeOK
  BY InitType
<1>2. OneJobPerHead
  BY DEF Init, StoreInit, OneJobPerHead
<1>3. AcknowledgedIsKept /\ PromiseHeld
  BY DEF Init, AcknowledgedIsKept, PromiseHeld
<1>4. NoLostWakeup
  BY DEF Init, NoLostWakeup
<1> QED
  BY <1>1, <1>2, <1>3, <1>4 DEF Inv, RequestsInv

LEMMA InvHolds == Spec => []Inv
  BY InvInit, InvNext, PTL DEF Spec

----------------------------------------------------------------------------
(* The job in work *)

LEMMA TurnStep ==
  ASSUME Inv, JobInTurn, [Next]_vars
  PROVE  JobInTurn'
<1>1. \A k \in DOMAIN jobs : jobs[k] \in JobRow /\ k \in Nat \ {0} /\ 1..(k - 1) \subseteq DOMAIN jobs
  BY DEF Inv, TypeOK, StoreTypeOK
<1>2. ASSUME \A k \in DOMAIN jobs : k \in DOMAIN jobs' /\ jobs'[k] = jobs[k],
             wpc' = wpc /\ job' = job
      PROVE  JobInTurn'
  BY <1>1, <1>2 DEF JobInTurn, Oldest
<1>3. wpc' # "busy" => JobInTurn'
  BY DEF JobInTurn
<1>4. ASSUME NEW r \in Requests, Insert(r) \/ InsertUnheard(r) PROVE JobInTurn'
  <2>1. hpc[r] = "enqueue" /\ Enter(r) /\ UNCHANGED workerVars
    BY <1>4 DEF Insert, InsertUnheard
  <2>2. \A k \in DOMAIN jobs : k \in DOMAIN jobs' /\ jobs'[k] = jobs[k]
    BY <2>1, EnterEffect DEF Inv, RequestsInv
  <2> QED
    BY <1>2, <2>1, <2>2 DEF workerVars
<1>5. ASSUME NEW r \in Requests, Receive(r) \/ InsertFails(r) \/ Notify(r) \/ Reply(r)
      PROVE  JobInTurn'
  BY <1>2, <1>5 DEF Receive, InsertFails, Notify, Reply, storeVars, workerVars
<1>6. CASE Claim
  <2>1. PICK id \in DOMAIN jobs : ClaimNext(id) /\ job' = id
    BY <1>6 DEF Claim
  <2>2. /\ DOMAIN jobs' = DOMAIN jobs
        /\ \A k \in DOMAIN jobs : k # id => jobs'[k] = jobs[k]
        /\ jobs'[id] = [jobs[id] EXCEPT !.state = "running",
                                        !.attempts = jobs[id].attempts + 1]
        /\ \A k \in 1..(id - 1) : jobs[k].state \notin Runnable
    BY <2>1, ClaimEffect DEF Inv, TypeOK
  <2>3. jobs'[id].state \in Runnable
    BY <1>1, <2>2 DEF JobRow, Runnable
  <2>4. \A k \in 1..(id - 1) : jobs'[k] = jobs[k]
    BY <1>1, <2>2
  <2> QED
    BY <2>1, <2>2, <2>3, <2>4 DEF JobInTurn, Oldest
<1>7. CASE Stop \/ CloseListener \/ CloseStore \/ UNCHANGED vars
  BY <1>2, <1>7
  DEF Stop, CloseListener, CloseStore, vars, storeVars, workerVars
<1>8. CASE \/ ClaimNothing \/ ClaimFails \/ StartWaiting \/ Hint \/ Timer \/ Leave
           \/ RunJob \/ Exit \/ Crash \/ Restart
  BY <1>3, <1>8
  DEF ClaimNothing, ClaimFails, StartWaiting, Hint, Timer, Leave, RunJob, Exit, Crash,
      Vanish, Restart
<1> QED
  BY <1>4, <1>5, <1>6, <1>7, <1>8 DEF Next, HandlerStep, WorkerStep, ProcessStep

\* The invariants of the intake hold together, and no step leads out of them.
THEOREM IntakeCorrect == Spec => []IntakeInv
<1>1. Init => JobInTurn
  BY DEF Init, JobInTurn
<1>2. Inv /\ JobInTurn /\ [Next]_vars => JobInTurn'
  BY TurnStep
<1>3. Inv /\ JobInTurn => IntakeInv
  BY DEF Inv, RequestsInv, IntakeInv
<1> QED
  BY <1>1, <1>2, <1>3, InvHolds, PTL DEF Spec

\* Every variable keeps its type: no job without a head or for an unknown event
\* is ever queued, whatever the payloads.  (What names the PR is not checked by
\* the parsers: PRs are whatever keys the payloads make.)
THEOREM TypeCorrect == Spec => []TypeOK
<1>1. Inv => TypeOK
  BY DEF Inv
<1> QED
  BY <1>1, InvHolds, PTL

\* One queued job per head, and one more for a reopening, whatever requests race
\* (Enqueue and the delivery ids).
THEOREM DeliveriesDeduplicated == Spec => []OneJobPerHead
<1>1. Inv => OneJobPerHead
  BY DEF Inv, RequestsInv
<1> QED
  BY <1>1, InvHolds, PTL

\* A job whose request was answered 200 or 202 is never lost (serve, main).
THEOREM AcknowledgedJobsKept == Spec => []AcknowledgedIsKept
<1>1. Inv => AcknowledgedIsKept
  BY DEF Inv, RequestsInv
<1> QED
  BY <1>1, InvHolds, PTL

\* A worker that waits on an empty queue is never left with a queued job and no
\* wake-up under way (serve, Run, wait).
THEOREM WakeupsNotLost == Spec => []NoLostWakeup
<1>1. Inv => NoLostWakeup
  BY DEF Inv, RequestsInv
<1> QED
  BY <1>1, InvHolds, PTL

----------------------------------------------------------------------------
(* The ledger *)

\* The ledger that ImplementsService maps to.
FateOf(state) == IF state \in Runnable THEN "pending" ELSE state

Ledger == [id \in DOMAIN jobs |->
             [pr |-> jobs[id].pr, head |-> jobs[id].head, event |-> jobs[id].event,
              fate |-> FateOf(jobs[id].state)]]

LEMMA LedgerFacts ==
  /\ DOMAIN Ledger = DOMAIN jobs
  /\ \A id \in DOMAIN jobs :
       /\ Ledger[id].pr = jobs[id].pr
       /\ Ledger[id].head = jobs[id].head
       /\ Ledger[id].event = jobs[id].event
       /\ Ledger[id].fate = FateOf(jobs[id].state)
  BY DEF Ledger

\* Appending to the table appends to the ledger.
LEMMA LedgerAppend ==
  ASSUME NEW row \in JobRow, jobs \in Seq(JobRow), jobs' = Append(jobs, row),
         row.state = "queued"
  PROVE  Ledger' = Append(Ledger, [pr |-> row.pr, head |-> row.head, event |-> row.event,
                                   fate |-> "pending"])
<1> DEFINE entry == [pr |-> row.pr, head |-> row.head, event |-> row.event,
                     fate |-> "pending"]
<1>1. /\ Len(jobs) \in Nat
      /\ DOMAIN jobs' = 1..(Len(jobs) + 1) /\ DOMAIN jobs = 1..Len(jobs)
      /\ \A k \in 1..Len(jobs) : jobs'[k] = jobs[k]
      /\ jobs'[Len(jobs) + 1] = row
  OBVIOUS
<1>2. Ledger' = [k \in 1..(Len(jobs) + 1) |->
                   IF k = Len(jobs) + 1 THEN entry ELSE Ledger[k]]
  <2>1. [pr |-> row.pr, head |-> row.head, event |-> row.event,
         fate |-> FateOf(row.state)] = entry
    BY DEF FateOf, Runnable
  <2> HIDE DEF entry
  <2>2. \A k \in 1..(Len(jobs) + 1) :
          Ledger'[k] = IF k = Len(jobs) + 1 THEN entry ELSE Ledger[k]
    BY <1>1, <2>1 DEF Ledger
  <2>3. DOMAIN Ledger' = 1..(Len(jobs) + 1)
    BY <1>1 DEF Ledger
  <2>4. Ledger' = [k \in DOMAIN Ledger' |-> Ledger'[k]]
    BY DEF Ledger
  <2> QED
    BY <2>2, <2>3, <2>4
<1> DEFINE S == {Ledger[k] : k \in DOMAIN jobs} \cup {entry}
<1> HIDE DEF entry
<1>3. /\ Ledger = [k \in 1..Len(jobs) |-> Ledger[k]]
      /\ \A k \in 1..Len(jobs) : Ledger[k] \in S
  BY <1>1 DEF Ledger
<1>4. Ledger \in [1..Len(jobs) -> S] /\ entry \in S
  <2> HIDE DEF S
  <2>1. Ledger \in [1..Len(jobs) -> S]
    BY <1>3
  <2> QED
    BY <2>1 DEF S
<1> HIDE DEF S
<1>5. Ledger \in Seq(S) /\ Len(Ledger) = Len(jobs)
  BY <1>1, <1>4
<1>6. /\ Append(Ledger, entry) \in Seq(S)
      /\ Len(Append(Ledger, entry)) = Len(jobs) + 1
      /\ \A k \in 1..(Len(jobs) + 1) : Append(Ledger, entry)[k] =
           IF k = Len(jobs) + 1 THEN entry ELSE Ledger[k]
  BY <1>1, <1>4, <1>5
<1>7. Append(Ledger, entry) = [k \in 1..(Len(jobs) + 1) |-> Append(Ledger, entry)[k]]
  <2>1. \A q \in Seq(S) : q = [k \in 1..Len(q) |-> q[k]]
    OBVIOUS
  <2> QED
    BY <1>6, <2>1, Zenon
<1>8. Ledger' = Append(Ledger, entry)
  BY <1>2, <1>6, <1>7
<1> QED
  BY <1>8 DEF entry

\* An INSERT is an acceptance, heard of or not, or the delivery is a repeated one.
LEMMA InsertMaps ==
  ASSUME Inv, NEW r \in Requests, hpc[r] = "enqueue", Enter(r)
  PROVE  Service!Next \/ UNCHANGED Service!serviceVars
<1> DEFINE d == JobRequested(r)
           row == [pr |-> d.pr, head |-> d.head, event |-> d.event,
                   state |-> "queued", attempts |-> 0]
<1>1. /\ Verdict(Payload[r]) = 0 /\ d \in [pr : PRs, head : Heads, event : Events]
      /\ jobs \in Seq(JobRow)
  BY EnterEffect DEF Inv, TypeOK, StoreTypeOK, RequestsInv, PromiseHeld
<1>2. CASE Known(d)
  <2>1. Ledger' = Ledger
    BY <1>2 DEF Enter, Enqueue, Ledger
  <2> QED
    BY <2>1 DEF Service!serviceVars, Ledger, FateOf
<1>3. CASE ~Known(d)
  <2>1. jobs' = Append(jobs, row) /\ row \in JobRow /\ row.state = "queued"
    BY <1>1, <1>3 DEF Enter, Enqueue, JobRow, JobStates
  <2>2. /\ row.pr = d.pr /\ row.head = d.head /\ row.event = d.event
    OBVIOUS
  <2>3. Ledger' = Append(Ledger, [pr |-> d.pr, head |-> d.head, event |-> d.event,
                                  fate |-> "pending"])
    <3> HIDE DEF row
    <3> QED
      BY <1>1, <2>1, <2>2, LedgerAppend
  <2>4. \A k \in DOMAIN jobs :
          ~(/\ Ledger[k].pr = d.pr
            /\ Ledger[k].head = d.head
            /\ (Ledger[k].event = "reopened") = (d.event = "reopened"))
    BY <1>3, LedgerFacts DEF Known, DeliveryID
  <2>5. PICK e \in {JobRequested(q) : q \in {q \in Requests : Verdict(Payload[q]) = 0}} :
          e = d
    BY <1>1
  <2> HIDE DEF d
  <2>6. Service!Accept(e)
    BY <2>3, <2>4, <2>5, LedgerFacts
    DEF Service!Accept, Service!Accepted, Ledger, FateOf
  <2> QED
    BY <2>6 DEF Service!Next
<1> QED
  BY <1>2, <1>3

\* Claims and failed tries leave a job pending, done and dead settle it.
LEMMA JobMaps ==
  ASSUME Inv, JobInTurn, NEW id \in DOMAIN jobs,
         \/ ClaimNext(id)
         \/ id = job /\ wpc = "busy" /\ \E s \in {"done", "failed", "dead"} : Finish(id, s)
  PROVE  Service!Next \/ UNCHANGED Service!serviceVars
<1>1. jobs[id] \in JobRow
  BY DEF Inv, TypeOK, StoreTypeOK
<1>2. Oldest(id) /\ \A k \in 1..(id - 1) : k \in DOMAIN jobs
  BY DEF JobInTurn, ClaimNext, Inv, TypeOK, StoreTypeOK
<1>3. PICK s \in {"running", "done", "failed", "dead"} :
        /\ DOMAIN jobs' = DOMAIN jobs
        /\ \A k \in DOMAIN jobs : k # id => jobs'[k] = jobs[k]
        /\ jobs'[id].state = s /\ jobs'[id].pr = jobs[id].pr
        /\ jobs'[id].head = jobs[id].head /\ jobs'[id].event = jobs[id].event
  <2>1. CASE ClaimNext(id)
    <3>1. /\ DOMAIN jobs' = DOMAIN jobs
          /\ \A k \in DOMAIN jobs : k # id => jobs'[k] = jobs[k]
          /\ jobs'[id] = [jobs[id] EXCEPT !.state = "running",
                                          !.attempts = jobs[id].attempts + 1]
      BY <2>1, ClaimEffect DEF Inv, TypeOK
    <3>2. /\ jobs'[id].state = "running" /\ jobs'[id].pr = jobs[id].pr
          /\ jobs'[id].head = jobs[id].head /\ jobs'[id].event = jobs[id].event
      BY <1>1, <3>1 DEF JobRow
    <3> QED
      BY <3>1, <3>2
  <2>2. ASSUME NEW s \in {"done", "failed", "dead"}, Finish(id, s)
        PROVE  /\ DOMAIN jobs' = DOMAIN jobs
               /\ \A k \in DOMAIN jobs : k # id => jobs'[k] = jobs[k]
               /\ jobs'[id].state = s /\ jobs'[id].pr = jobs[id].pr
               /\ jobs'[id].head = jobs[id].head /\ jobs'[id].event = jobs[id].event
    <3>1. /\ DOMAIN jobs' = DOMAIN jobs
          /\ \A k \in DOMAIN jobs : k # id => jobs'[k] = jobs[k]
          /\ jobs'[id] = [jobs[id] EXCEPT !.state = s]
      BY <2>2, FinishEffect DEF Inv, TypeOK, JobStates
    <3>2. /\ jobs'[id].state = s /\ jobs'[id].pr = jobs[id].pr
          /\ jobs'[id].head = jobs[id].head /\ jobs'[id].event = jobs[id].event
      BY <1>1, <3>1 DEF JobRow
    <3> QED
      BY <3>1, <3>2
  <2> QED
    BY <2>1, <2>2
<1>4. CASE s \in Runnable
  <2>1. Ledger' = Ledger
    BY <1>2, <1>3, <1>4 DEF Ledger, FateOf, Oldest
  <2> QED
    BY <2>1 DEF Service!serviceVars, Ledger, FateOf
<1>5. CASE s \in {"done", "dead"}
  <2>1. \A k \in DOMAIN jobs :
          Ledger'[k] = IF k = id THEN [Ledger[id] EXCEPT !.fate = s] ELSE Ledger[k]
    BY <1>3, <1>5 DEF Ledger, FateOf, Runnable
  <2>2. Ledger' = [Ledger EXCEPT ![id].fate = s]
    BY <1>3, <2>1 DEF Ledger
  <2>3. /\ Ledger[id].fate = "pending"
        /\ \A k \in 1..(id - 1) : Ledger[k].fate # "pending"
    <3>1. \A k \in 1..(id - 1) : jobs[k].state # "pending"
      <4>1. \A k \in DOMAIN jobs : jobs[k] \in JobRow
        BY DEF Inv, TypeOK, StoreTypeOK
      <4> QED
        BY <1>2, <4>1 DEF JobRow, JobStates
    <3> QED
      BY <1>2, <3>1, LedgerFacts DEF FateOf, Oldest
  <2>4. Service!Settle(id, s)
    BY <2>2, <2>3, LedgerFacts DEF Service!Settle, Service!Turn, Ledger, FateOf
  <2> QED
    BY <1>5, <2>4, LedgerFacts DEF Service!Next, Ledger
<1> QED
  BY <1>3, <1>4, <1>5 DEF Runnable

LEMMA ServiceStep ==
  ASSUME Inv, JobInTurn, [Next]_vars
  PROVE  Service!Next \/ UNCHANGED Service!serviceVars
<1>1. CASE \E r \in Requests : Insert(r) \/ InsertUnheard(r)
  BY <1>1, InsertMaps DEF Insert, InsertUnheard
<1>2. CASE Claim
  BY <1>2, JobMaps DEF Claim
<1>3. CASE RunJob /\ jobs' # jobs
  <2>1. wpc = "busy" /\ job \in DOMAIN jobs
    BY <1>3 DEF RunJob, Inv, TypeOK, LoopTypeOK
  <2>2. PICK id \in DOMAIN jobs : id = job
    BY <2>1
  <2>3. \E s \in {"done", "failed", "dead"} : Finish(id, s)
    BY <1>3, <2>2 DEF RunJob, storeVars
  <2> QED
    BY <2>1, <2>2, <2>3, JobMaps
<1>4. CASE jobs' = jobs
  BY <1>4 DEF Service!serviceVars
<1> QED
  BY <1>1, <1>2, <1>3, <1>4
  DEF Next, HandlerStep, WorkerStep, ProcessStep, Receive, InsertFails, Notify, Reply,
      ClaimNothing, ClaimFails, StartWaiting, Hint, Timer, Leave, Stop, CloseListener,
      CloseStore, Exit, Crash, Vanish, Restart, vars, storeVars

\* However requests race, are repeated, fail or are cut off by a crash, handlers
\* and worker do nothing the ledger does not allow: a valid delivery is accepted
\* once, and jobs are settled one by one, in order and for good.
THEOREM IntakeImplementsService == Spec => ImplementsService
<1>1. Init => Service!Init
  BY DEF Init, StoreInit, Service!Init
<1>2. Inv /\ JobInTurn /\ [Next]_vars => [Service!Next]_(Service!serviceVars)
  BY ServiceStep
<1>3. IntakeInv => JobInTurn
  BY DEF IntakeInv
<1> QED
  BY <1>1, <1>2, <1>3, InvHolds, IntakeCorrect, PTL
  DEF Spec, ImplementsService, Service!Spec
=============================================================================

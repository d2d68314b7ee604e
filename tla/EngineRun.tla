----------------------------- MODULE EngineRun -----------------------------
(***************************************************************************)
(* One review by internal/reviewer: the chain of engines, the child        *)
(* process of each with the helpers it may start, the timeout and the      *)
(* kill, how the outcome is classified, the parser of EngineOutput, and    *)
(* what Selection makes of the findings.                                   *)
(*                                                                         *)
(* The child and its helpers do as they like: they may exit at any time,   *)
(* ignore SIGTERM, hold the pipes open or never end.                       *)
(***************************************************************************)
EXTENDS EngineOutput, Selection

CONSTANTS
  Engines,    \* length of the chain
  Outputs,    \* what a child may print before it exits with 0
  MaxOutput,  \* MaxOutputBytes, in tokens
  Helpers,    \* the processes a child may start
  Lists,      \* the finding lists a payload may hold
  Seen        \* sets of fingerprints already posted for the PR

\* A helper is in the child's process group or has left it, and keeps the
\* inherited pipes open or has closed them.
Helper == [where : {"group", "escaped"}, holds : BOOLEAN]
NoHelper == [where |-> "none", holds |-> FALSE]

ASSUME EngineAssumption ==
  /\ Engines \in Nat \ {0}
  /\ Outputs \subseteq Seq(Tokens)
  /\ MaxOutput \in Nat
  /\ Helpers \subseteq Helper
  /\ Lists \subseteq Seq(Finding)
  /\ Seen \subseteq SUBSET Fingerprints

VARIABLES
  rpc,       \* where the worker goroutine is in the review
  engine,    \* the engine it runs
  child,     \* the engine's process
  helper,    \* a descendant of the child
  waited,    \* cmd.Wait has returned
  ctx,       \* the worker's context
  expired,   \* the timeout of this run
  took,      \* the case the select of run took
  outcome    \* what became of this engine's run

VARIABLES
  findings,  \* res.Findings
  seen,      \* the fingerprints recorded for the PR
  tried,     \* findings to be commented inline, in order
  overCap    \* findings left to the summary

processVars == <<child, helper, waited, expired>>
resultVars == <<findings, seen, tried, overCap>>
vars == <<scanVars, rpc, engine, processVars, ctx, took, outcome, resultVars>>

TypeOK ==
  /\ ScanTypeOK
  /\ rpc \in {"start", "running", "grace", "reap", "parse", "chain", "select",
              "returned"}
  /\ engine \in 1..Engines
  /\ child \in {"none", "alive", "exit0", "exit1"}
  /\ helper \in Helpers \cup {NoHelper}
  /\ waited \in BOOLEAN
  /\ ctx \in {"live", "cancelled"}
  /\ expired \in BOOLEAN
  /\ took \in {"none", "exit", "timeout"}
  /\ outcome \in {"none", "ok", "limited", "failed", "undecodable"}
  /\ findings \in Seq(Graded) /\ tried \in Seq(Graded) /\ overCap \in Seq(Graded)
  /\ seen \subseteq Fingerprints

NoProcess == child = "none" /\ helper = NoHelper /\ waited = FALSE /\ expired = FALSE
NoResult == findings = <<>> /\ seen = {} /\ tried = <<>> /\ overCap = <<>>

Init ==
  /\ ScanOff /\ NoProcess /\ NoResult
  /\ rpc = "start" /\ engine = 1 /\ ctx = "live"
  /\ took = "none" /\ outcome = "none"

----------------------------------------------------------------------------
(* The child, its helpers and the clock *)

\* What happens to processes and timers while the worker does nothing.
Elsewhere ==
  UNCHANGED <<scanVars, rpc, engine, took, outcome, resultVars>>

ChildExits ==
  /\ child = "alive"
  /\ child' \in {"exit0", "exit1"}
  /\ UNCHANGED <<helper, waited, ctx, expired>>
  /\ Elsewhere

ChildSpawns ==
  /\ child = "alive"
  /\ helper = NoHelper
  /\ helper' \in Helpers
  /\ UNCHANGED <<child, waited, ctx, expired>>
  /\ Elsewhere

HelperExits ==
  /\ helper # NoHelper
  /\ helper' = NoHelper
  /\ UNCHANGED <<child, waited, ctx, expired>>
  /\ Elsewhere

\* cmd.Wait reaps the child and waits for its pipes to be closed by everyone.
WaitReturns ==
  /\ child \in {"exit0", "exit1"}
  /\ ~helper.holds
  /\ ~waited
  /\ waited' = TRUE
  /\ UNCHANGED <<child, helper, ctx, expired>>
  /\ Elsewhere

Timer ==
  /\ rpc = "running"
  /\ ~expired
  /\ expired' = TRUE
  /\ UNCHANGED <<child, helper, waited, ctx>>
  /\ Elsewhere

\* SIGTERM to the worker.  Later than this it is noticed by the next run only.
Cancel ==
  /\ rpc \in {"start", "running"}
  /\ ctx = "live"
  /\ ctx' = "cancelled"
  /\ UNCHANGED <<child, helper, waited, expired>>
  /\ Elsewhere

----------------------------------------------------------------------------
(* CLI.run and kill *)

Start ==
  /\ rpc = "start"
  /\ \/ rpc' = "running" /\ child' = "alive" /\ UNCHANGED outcome
     \/ rpc' = "chain" /\ outcome' = "failed" /\ UNCHANGED child
  /\ UNCHANGED <<scanVars, engine, helper, waited, ctx, expired, took, resultVars>>

\* limitedWriter: what is past the cap is thrown away.
Captured(t) == IF Len(t) <= MaxOutput THEN t ELSE SubSeq(t, 1, MaxOutput)

\* Slip: a rate-limit notice beats a review.
ClassifyBySignal(t, signal) ==
  IF child = "exit1"
  THEN /\ rpc' = "chain" /\ outcome' = (IF signal THEN "limited" ELSE "failed")
       /\ ResetScan(<<>>, "off", 0)
  ELSE IF signal
  THEN rpc' = "chain" /\ outcome' = "limited" /\ ResetScan(t, "off", 0)
  ELSE rpc' = "parse" /\ BeginScan(t) /\ UNCHANGED outcome

\* CLI.Review: a failed run is a rate limit if it printed one of the signals, a
\* successful one only if it printed no findings.
Classify(t, signal) ==
  IF child = "exit1"
  THEN /\ rpc' = "chain" /\ outcome' = (IF signal THEN "limited" ELSE "failed")
       /\ ResetScan(<<>>, "off", 0)
  ELSE IF signal /\ ~HasQuoted(t, "findings")
  THEN rpc' = "chain" /\ outcome' = "limited" /\ ResetScan(t, "off", 0)
  ELSE rpc' = "parse" /\ BeginScan(t) /\ UNCHANGED outcome

\* The signals are looked for in stderr too, so any text may come with one.
SelectExit ==
  /\ rpc = "running"
  /\ waited
  /\ took' = "exit"
  /\ \E t \in Outputs, signal \in BOOLEAN : Classify(Captured(t), signal)
  /\ UNCHANGED <<engine, processVars, ctx, resultVars>>

\* Ready together with the exit, and then as good a choice.  SIGTERM has no
\* effect of its own here: who heeds it exits.
SelectTimeout ==
  /\ rpc = "running"
  /\ expired \/ ctx = "cancelled"
  /\ took' = "timeout"
  /\ rpc' = "grace"
  /\ UNCHANGED <<scanVars, engine, processVars, ctx, outcome, resultVars>>

\* Slips: the signal goes to the child, not to its group; SIGTERM has to do.
KillChildOnly ==
  /\ rpc = "grace"
  /\ child' = IF child = "alive" THEN "exit1" ELSE child
  /\ rpc' = "reap"
  /\ UNCHANGED <<scanVars, engine, helper, waited, ctx, expired, took, outcome,
                 resultVars>>

KillPolitely ==
  /\ rpc = "grace"
  /\ rpc' = "reap"
  /\ UNCHANGED <<scanVars, engine, processVars, ctx, took, outcome, resultVars>>

\* SIGKILL to the group, after two seconds and whoever is left of it.
Kill ==
  /\ rpc = "grace"
  /\ child' = IF child = "alive" THEN "exit1" ELSE child
  /\ helper' = IF helper.where = "group" THEN NoHelper ELSE helper
  /\ rpc' = "reap"
  /\ UNCHANGED <<scanVars, engine, waited, ctx, expired, took, outcome, resultVars>>

\* Whatever was printed is looked at for signals only.
Reap ==
  /\ rpc = "reap"
  /\ waited
  /\ rpc' = "chain"
  /\ outcome' \in {"limited", "failed"}
  /\ UNCHANGED <<scanVars, engine, processVars, ctx, took, resultVars>>

----------------------------------------------------------------------------
(* parseResult *)

ParseStep ==
  /\ rpc = "parse"
  /\ Scan
  /\ UNCHANGED <<rpc, engine, processVars, ctx, took, outcome, resultVars>>

\* Only a field of the contract can have the wrong type.
Decode ==
  /\ rpc = "parse"
  /\ \/ spc = "error" /\ outcome' = "undecodable"
     \/ spc = "decode" /\ outcome' = "ok"
     \/ /\ spc = "decode" /\ outcome' = "undecodable"
        /\ LET object == Span(text, Extracted) IN
             HasField(object, "findings") \/ HasField(object, "summary")
  /\ rpc' = "chain"
  /\ UNCHANGED <<scanVars, engine, processVars, ctx, took, resultVars>>

----------------------------------------------------------------------------
(* Chain.Review *)

\* Slip: one engine past the end.
NextEnginePastEnd ==
  /\ rpc = "chain"
  /\ outcome = "limited"
  /\ engine' = engine + 1
  /\ rpc' = "start" /\ took' = "none" /\ outcome' = "none"
  /\ child' = "none" /\ helper' = NoHelper /\ waited' = FALSE /\ expired' = FALSE
  /\ ResetScan(<<>>, "off", 0)
  /\ UNCHANGED <<ctx, resultVars>>

NextEngine ==
  /\ rpc = "chain"
  /\ outcome = "limited"
  /\ engine < Engines
  /\ engine' = engine + 1
  /\ rpc' = "start" /\ took' = "none" /\ outcome' = "none"
  /\ child' = "none" /\ helper' = NoHelper /\ waited' = FALSE /\ expired' = FALSE
  /\ ResetScan(<<>>, "off", 0)
  /\ UNCHANGED <<ctx, resultVars>>

GiveUp ==
  /\ rpc = "chain"
  /\ outcome = "limited" => engine = Engines
  /\ outcome # "ok"
  /\ rpc' = "returned"
  /\ UNCHANGED <<scanVars, engine, processVars, ctx, took, outcome, resultVars>>

\* The decoded findings go to the worker; the text and the processes of the run
\* are of no more interest.
Succeed ==
  /\ rpc = "chain"
  /\ outcome = "ok"
  /\ \E list \in IF HasField(Span(text, Extracted), "findings") THEN Lists
                 ELSE {<<>>} :
       findings' = Parsed(list)
  /\ rpc' = "select"
  /\ child' = "none" /\ helper' = NoHelper /\ waited' = FALSE /\ expired' = FALSE
  /\ took' = "none" /\ engine' = 1
  /\ ResetScan(<<>>, "off", 0)
  /\ UNCHANGED <<ctx, outcome, seen, tried, overCap>>

----------------------------------------------------------------------------
(* postFindings, up to the first comment *)

Select ==
  /\ rpc = "select"
  /\ seen' \in Seen
  /\ tried' = Tried(findings, seen')
  /\ overCap' = OverCap(findings, seen')
  /\ rpc' = "returned"
  /\ UNCHANGED <<scanVars, engine, processVars, ctx, took, outcome, findings>>

\* The next review, by a restarted process after a stop.
Again ==
  /\ rpc = "returned"
  /\ rpc' = "start" /\ engine' = 1 /\ ctx' = "live"
  /\ took' = "none" /\ outcome' = "none"
  /\ child' = "none" /\ helper' = NoHelper /\ waited' = FALSE /\ expired' = FALSE
  /\ ResetScan(<<>>, "off", 0)
  /\ findings' = <<>> /\ seen' = {} /\ tried' = <<>> /\ overCap' = <<>>

ReviewStep ==
  \/ Start \/ SelectExit \/ SelectTimeout \/ Kill \/ Reap
  \/ ParseStep \/ Decode \/ NextEngine \/ GiveUp \/ Succeed \/ Select

Next ==
  \/ ChildExits \/ ChildSpawns \/ HelperExits \/ WaitReturns \/ Timer \/ Cancel
  \/ ReviewStep \/ Again

Spec == Init /\ [][Next]_vars

\* The worker runs on, the kernel reports an exit once the pipes are closed, the
\* clock runs.  Nothing is asked of the child and its helpers.
FairSpec == Spec /\ WF_vars(ReviewStep) /\ WF_vars(WaitReturns) /\ WF_vars(Timer)

----------------------------------------------------------------------------
(* Properties *)

\* A review an engine delivered in time is used: if a run whose child exited
\* well, and was seen to, captured a review with findings in it, and no object
\* behind that quotes a key it does not have, then the scan ends with exactly this
\* review in hand, whatever else was printed, and the run is neither a failure nor
\* a rate limit, whatever signals were printed, so that no fallback is asked
\* (CLI.Review, Chain.Review).  Only a field of the wrong type makes it unusable.
AnswerUsed ==
  (/\ rpc = "chain" /\ took = "exit" /\ child = "exit0"
   /\ Review(text) # NoSpan
   /\ HasField(Span(text, Review(text)), "findings")
   /\ Misleading(text) = {})
     => /\ spc = "decode" /\ Extracted = Review(text)
        /\ outcome \in {"ok", "undecodable"}

\* After a timeout the whole process group is gone before anything else is
\* done, whoever ignored SIGTERM and whoever had exited already (kill).
TimedOutGroupDead ==
  (took = "timeout" /\ rpc # "grace") =>
    child # "alive" /\ helper.where # "group"

Qualifies(f) == AtLeast(f.severity)

\* The finding that stands for a fingerprint: its first mention above the bar.
Place(fp) ==
  CHOOSE k \in DOMAIN findings :
    /\ findings[k].fp = fp /\ Qualifies(findings[k])
    /\ \A j \in 1..(k - 1) : findings[j].fp = fp => ~Qualifies(findings[j])

\* The most severe findings are commented first, in the engine's order among
\* equals, and none that is cut off is more severe than one that is not (the
\* stable sort before the cap).
SevereFirst ==
  rpc = "returned" =>
    LET all == tried \o overCap IN
    \A j, k \in DOMAIN all : j < k =>
      \/ Rank[all[j].severity] > Rank[all[k].severity]
      \/ /\ all[j].severity = all[k].severity
         /\ Place(all[j].fp) < Place(all[k].fp)

\* Each fingerprint mentioned at or above the bar is in exactly one place: posted
\* earlier, tried now, or left to the summary; and earlier posts do not use up
\* the cap (filter, dedup, unseen and cap, in this order).
EveryFindingPlaced ==
  (rpc = "returned" /\ outcome = "ok") =>
    LET mentioned == {findings[k].fp : k \in {j \in DOMAIN findings :
                                                Qualifies(findings[j])}}
        all == tried \o overCap IN
    /\ {all[k].fp : k \in DOMAIN all} = mentioned \ seen
    /\ \A j, k \in DOMAIN all : all[j].fp = all[k].fp => j = k
    /\ \A k \in DOMAIN all : all[k] = findings[Place(all[k].fp)]
    /\ overCap # <<>> => Len(tried) = MaxComments

\* A review ends, whatever the child and its helpers do: the queue is not held
\* up by a hung CLI.
ReviewReturns == (rpc = "start") ~> (rpc = "returned")
=============================================================================

--------------------------- MODULE ReviewService ---------------------------
(***************************************************************************)
(* What the worker and its store promise together, with no worker, no      *)
(* retries and no faults in sight: an ordered ledger of accepted jobs and, *)
(* per PR, the passes its budget has consumed.                             *)
(*                                                                         *)
(* Only the oldest unsettled job does anything.  It may open a new budget  *)
(* (a reopened PR), may consume one pass for its head, and is then settled *)
(* for good.  ReviewWorker implements this specification.                  *)
(***************************************************************************)
EXTENDS Integers, Sequences

CONSTANTS PRs, Heads, NoSHA, MaxCycles, Deliveries

VARIABLES
  ledger,    \* accepted jobs, in order: [pr, head, event, fate]
  passes,    \* [PR -> passes consumed since its budget was opened]
  lastHead,  \* [PR -> head of the last pass, NoSHA before the first]
  opened,    \* jobs that opened a new budget
  consumed   \* jobs that consumed a pass

serviceVars == <<ledger, passes, lastHead, opened, consumed>>

Init ==
  /\ ledger = <<>>
  /\ passes = [p \in PRs |-> 0]
  /\ lastHead = [p \in PRs |-> NoSHA]
  /\ opened = {}
  /\ consumed = {}

\* A repeated delivery is not accepted again.  Reopening a PR is a delivery of
\* its own, everything else at one head is the same one.
Accepted(d) ==
  \E k \in DOMAIN ledger :
    /\ ledger[k].pr = d.pr
    /\ ledger[k].head = d.head
    /\ (ledger[k].event = "reopened") = (d.event = "reopened")

Accept(d) ==
  /\ ~Accepted(d)
  /\ ledger' = Append(ledger, [pr |-> d.pr, head |-> d.head, event |-> d.event,
                               fate |-> "pending"])
  /\ UNCHANGED <<passes, lastHead, opened, consumed>>

Turn(id) ==
  /\ id \in DOMAIN ledger
  /\ ledger[id].fate = "pending"
  /\ \A k \in 1..(id - 1) : ledger[k].fate # "pending"

\* Once per reopened job, and before its own pass.
OpenBudget(id) ==
  /\ Turn(id)
  /\ ledger[id].event = "reopened"
  /\ id \notin opened \cup consumed
  /\ passes' = [passes EXCEPT ![ledger[id].pr] = 0]
  /\ lastHead' = [lastHead EXCEPT ![ledger[id].pr] = NoSHA]
  /\ opened' = opened \cup {id}
  /\ UNCHANGED <<ledger, consumed>>

\* A pass is consumed for a new head only, within the budget, once per job.
Consume(id) ==
  LET p == ledger[id].pr IN
  /\ Turn(id)
  /\ id \notin consumed
  /\ passes[p] < MaxCycles
  /\ lastHead[p] # ledger[id].head
  /\ passes' = [passes EXCEPT ![p] = @ + 1]
  /\ lastHead' = [lastHead EXCEPT ![p] = ledger[id].head]
  /\ consumed' = consumed \cup {id}
  /\ UNCHANGED <<ledger, opened>>

Settle(id, fate) ==
  /\ Turn(id)
  /\ ledger' = [ledger EXCEPT ![id].fate = fate]
  /\ UNCHANGED <<passes, lastHead, opened, consumed>>

Next ==
  \/ \E d \in Deliveries : Accept(d)
  \/ \E id \in DOMAIN ledger :
       \/ OpenBudget(id)
       \/ Consume(id)
       \/ \E fate \in {"done", "dead"} : Settle(id, fate)

Spec == Init /\ [][Next]_serviceVars
=============================================================================

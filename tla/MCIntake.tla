------------------------------ MODULE MCIntake ------------------------------
(***************************************************************************)
(* Instances of Intake small enough for TLC.                               *)
(***************************************************************************)
EXTENDS Intake

CONSTANTS p1, h1, h2

Hook(p, h, a) ==
  [endpoint |-> "github", body |-> "whole", matches |-> TRUE, hook |-> TRUE,
   json |-> TRUE, action |-> a, oldrev |-> FALSE, pr |-> p, head |-> h,
   lastCommit |-> NoSHA]

LabHook(p, h, a) == [Hook(p, h, a) EXCEPT !.endpoint = "gitlab"]

\* One head announced in two of GitLab's ways, and a request without a head.
MergeRequest == <<[LabHook(p1, NoSHA, "update") EXCEPT !.oldrev = TRUE,
                                                       !.lastCommit = h1],
                  LabHook(p1, h1, "open"), LabHook(p1, NoSHA, "open")>>
Three == 1..3

\* A PR reopened twice at one head.
ReopenedTwice == <<Hook(p1, h1, "reopened"), Hook(p1, h1, "reopened")>>
Two == 1..2

\* A PR reopened at one head and pushed to another.
ReopenedThenPushed == <<Hook(p1, h1, "reopened"), Hook(p1, h2, "synchronize")>>
=============================================================================

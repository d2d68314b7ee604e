-------------------------- MODULE MCReviewWorker ---------------------------
(***************************************************************************)
(* Instances of ReviewWorker small enough for TLC.                         *)
(***************************************************************************)
EXTENDS ReviewWorker, TLC

CONSTANTS p1, p2, h1, h2

Ask(p, h, e) == [pr |-> p, head |-> h, event |-> e]

\* A PR opened, pushed to and reopened.  Delivered in another order, one of them
\* is a push after the budget of two is spent.
OneLife == {Ask(p1, h1, "opened"), Ask(p1, h2, "synchronize"),
            Ask(p1, h2, "reopened")}

\* Two PRs, one of them reopened at another head.
TwoPRs == {Ask(p1, h1, "opened"), Ask(p2, h1, "opened"),
           Ask(p1, h2, "reopened")}

\* A PR whose only delivery is that it was reopened.
Reopened == {Ask(p1, h1, "reopened")}

\* Every finding gets a comment.
NoCap == -1

\* Nothing tells one finding from another.
FingerprintSymmetry == Permutations(Fingerprints)

=============================================================================

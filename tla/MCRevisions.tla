---------------------------- MODULE MCRevisions ----------------------------
(***************************************************************************)
(* Instances of Revisions small enough for TLC.                            *)
(***************************************************************************)
EXTENDS Revisions, TLC

CONSTANTS h1, h2, h3, x, y, z

\* h2 and h3 follow h1 on two branches: pushing one over the other, or h1 over
\* either, takes changes off.
Forked == (h1 :> {x}) @@ (h2 :> {x, y}) @@ (h3 :> {x, z})

\* h2 is h1 rewritten.
Rewritten == (h1 :> {x}) @@ (h2 :> {y})

=============================================================================

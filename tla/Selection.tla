----------------------------- MODULE Selection -----------------------------
(***************************************************************************)
(* What happens to the findings between the decoded object and the first   *)
(* comment: parseResult's filter, then the severity bar, the dedup, the    *)
(* order and the cap of postFindings.                                      *)
(*                                                                         *)
(* A finding is its fingerprint (file and title), the severity the engine  *)
(* gave it, and whether it has both a file and a title to be anchored at.  *)
(* The loops over a list are functions of the place they have reached.     *)
(***************************************************************************)
EXTENDS Integers, Sequences

CONSTANTS
  Fingerprints,  \* of file and title
  MinSeverity,   \* PRW_MIN_SEVERITY
  MaxComments    \* PRW_MAX_COMMENTS, negative = no cap

Rank == [nit |-> 0, minor |-> 1, major |-> 2, critical |-> 3]
Severities == DOMAIN Rank

\* worker.New has replaced a missing bar and a cap of 0.
ASSUME SelectionAssumption == MinSeverity \in Severities /\ MaxComments \in Int \ {0}

\* An engine may write any severity.
Finding == [fp : Fingerprints, severity : STRING, anchored : BOOLEAN]

\* As parseResult leaves it.
Graded == [fp : Fingerprints, severity : Severities, anchored : BOOLEAN]

AtLeast(severity) == Rank[severity] >= Rank[MinSeverity]

\* What a list has at the given places, in its order.
ElementsAt(list, places) ==
  LET taken[n \in 0..Len(list)] ==
        IF n = 0 THEN <<>>
        ELSE IF n \in places THEN Append(taken[n - 1], list[n]) ELSE taken[n - 1]
  IN taken[Len(list)]

Degraded(f) ==
  IF f.severity \in Severities THEN f ELSE [f EXCEPT !.severity = "minor"]

\* What parseResult keeps of the decoded list.
Parsed(list) ==
  LET kept == ElementsAt(list, {k \in DOMAIN list : list[k].anchored}) IN
  [k \in DOMAIN kept |-> Degraded(kept[k])]

Mentions(list, fp) == \E k \in DOMAIN list : list[k].fp = fp

\* The first mention at or above the bar stands for its fingerprint.
Candidates(list) ==
  LET kept[n \in 0..Len(list)] ==
        IF n = 0 THEN <<>>
        ELSE LET before == kept[n - 1] IN
             IF AtLeast(list[n].severity) /\ ~Mentions(before, list[n].fp)
             THEN Append(before, list[n]) ELSE before
  IN kept[Len(list)]

Unseen(list, seen) == ElementsAt(list, {k \in DOMAIN list : list[k].fp \notin seen})

\* sort.SliceStable by descending rank.
BySeverity(list) ==
  LET Ranked(severity) ==
        ElementsAt(list, {k \in DOMAIN list : list[k].severity = severity}) IN
  Ranked("critical") \o Ranked("major") \o Ranked("minor") \o Ranked("nit")

\* Slip: the order of the engine.
FreshUnsorted(list, seen) == Unseen(Candidates(list), seen)

Fresh(list, seen) == BySeverity(Unseen(Candidates(list), seen))

Cap(n) == IF MaxComments > 0 /\ n > MaxComments THEN MaxComments ELSE n

\* Slip: the cap is applied before what was posted earlier is taken out.
TriedCapFirst(list, seen) ==
  LET all == BySeverity(Candidates(list)) IN
  Unseen(SubSeq(all, 1, Cap(Len(all))), seen)

\* The findings that get an inline comment, in this order, and those cut off.
Tried(list, seen) ==
  LET fresh == Fresh(list, seen) IN SubSeq(fresh, 1, Cap(Len(fresh)))

OverCap(list, seen) ==
  LET fresh == Fresh(list, seen) IN SubSeq(fresh, Cap(Len(fresh)) + 1, Len(fresh))
=============================================================================

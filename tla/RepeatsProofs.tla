--------------------------- MODULE RepeatsProofs ---------------------------
(***************************************************************************)
(* How often a PR is told the same thing, for every instance of            *)
(* ReviewWorker.  The invariant counts a copy when it becomes unavoidable: *)
(* a comment that is on the forge and neither remembered nor in the hands  *)
(* of a live worker will be posted again.  A comment gets into that state  *)
(* by a fault only, and posting it again then costs nothing more.          *)
(***************************************************************************)
EXTENDS ServiceProofs, FiniteSetTheorems

----------------------------------------------------------------------------
(* Sets of copies *)

\* S grew by one element at most.
LEMMA GrownByOne ==
  ASSUME NEW S, IsFiniteSet(S), NEW T, NEW x, T \subseteq S \cup {x}
  PROVE  /\ IsFiniteSet(T)
         /\ Cardinality(T) \in Nat /\ Cardinality(S) \in Nat
         /\ Cardinality(T) <= Cardinality(S) + 1
<1>1. /\ IsFiniteSet(S \cup {x})
      /\ Cardinality(S \cup {x}) <= Cardinality(S) + 1
      /\ Cardinality(S) \in Nat
  BY FS_AddElement, FS_CardinalityType
<1>2. IsFiniteSet(T) /\ Cardinality(T) <= Cardinality(S \cup {x})
  BY <1>1, FS_Subset
<1>3. Cardinality(T) \in Nat /\ Cardinality(S \cup {x}) \in Nat
  BY <1>1, <1>2, FS_CardinalityType
<1> QED
  BY <1>1, <1>2, <1>3

LEMMA NotGrown ==
  ASSUME NEW S, IsFiniteSet(S), NEW T, T \subseteq S
  PROVE  /\ IsFiniteSet(T)
         /\ Cardinality(T) \in Nat /\ Cardinality(S) \in Nat
         /\ Cardinality(T) <= Cardinality(S)
  BY FS_Subset, FS_CardinalityType

LEMMA SecondCommentsIn ==
  ASSUME NEW f, NEW x
  PROVE  x \in SecondComments(f) <=>
           \E q \in PRs, h \in Fingerprints : \E n \in 2..f[q][h] : x = <<q, h, n>>
<1> DEFINE Part(q, h) == {<<q, h, n>> : n \in 2..f[q][h]}
<1>1. x \in SecondComments(f) <=> \E q \in PRs, h \in Fingerprints : x \in Part(q, h)
  <2>1. SecondComments(f) = UNION {Part(q, h) : q \in PRs, h \in Fingerprints}
    BY DEF SecondComments
  <2> HIDE DEF Part
  <2> QED
    BY <2>1
<1>2. \A q \in PRs, h \in Fingerprints :
        x \in Part(q, h) <=> \E n \in 2..f[q][h] : x = <<q, h, n>>
  OBVIOUS
<1> HIDE DEF Part
<1> QED
  BY <1>1, <1>2

\* Counting one more copy of one comment adds one element at most, and none
\* when that copy is the first.
LEMMA CommentsMore ==
  ASSUME NEW f, NEW g, NEW p \in PRs, NEW fp \in Fingerprints,
         f \in [PRs -> [Fingerprints -> Nat]], g \in [PRs -> [Fingerprints -> Nat]],
         \A q \in PRs, h \in Fingerprints :
           q # p \/ h # fp => g[q][h] <= f[q][h],
         g[p][fp] <= f[p][fp] + 1 \/ g[p][fp] <= 2
  PROVE  SecondComments(g) \subseteq SecondComments(f) \cup {<<p, fp, g[p][fp]>>}
<1> SUFFICES ASSUME NEW q \in PRs, NEW h \in Fingerprints, NEW n \in 2..g[q][h]
             PROVE  <<q, h, n>> \in SecondComments(f) \cup {<<p, fp, g[p][fp]>>}
  BY SecondCommentsIn
<1>1. g[q][h] \in Nat /\ f[q][h] \in Nat
  OBVIOUS
<1>2. CASE n \in 2..f[q][h]
  BY <1>2, SecondCommentsIn
<1>3. CASE n \notin 2..f[q][h]
  <2>1. q = p /\ h = fp
    BY <1>1, <1>3
  <2>2. n = g[p][fp]
    <3>1. /\ g[p][fp] \in Nat /\ f[p][fp] \in Nat /\ n \in 2..g[p][fp]
          /\ n \notin 2..f[p][fp]
          /\ g[p][fp] <= f[p][fp] + 1 \/ g[p][fp] <= 2
      BY <1>1, <1>3, <2>1
    <3>2. \A a, b, m \in Nat :
            m \in 2..a /\ m \notin 2..b /\ (a <= b + 1 \/ a <= 2) => m = a
      OBVIOUS
    <3>3. n \in Nat
      OBVIOUS
    <3> QED
      BY <3>1, <3>2, <3>3
  <2> QED
    BY <2>1, <2>2
<1> QED
  BY <1>2, <1>3

LEMMA CommentsLess ==
  ASSUME NEW f, NEW g,
         f \in [PRs -> [Fingerprints -> Nat]], g \in [PRs -> [Fingerprints -> Nat]],
         \A q \in PRs, h \in Fingerprints : g[q][h] <= f[q][h] \/ g[q][h] <= 1
  PROVE  SecondComments(g) \subseteq SecondComments(f)
<1> SUFFICES ASSUME NEW q \in PRs, NEW h \in Fingerprints, NEW n \in 2..g[q][h]
             PROVE  <<q, h, n>> \in SecondComments(f)
  BY SecondCommentsIn
<1>1. n \in 2..f[q][h]
  <2>1. g[q][h] \in Nat /\ f[q][h] \in Nat /\ (g[q][h] <= f[q][h] \/ g[q][h] <= 1)
    OBVIOUS
  <2> QED
    BY <2>1
<1> QED
  BY <1>1, SecondCommentsIn

LEMMA NoticesMore ==
  ASSUME NEW f, NEW g, NEW p \in PRs,
         f \in [PRs -> Nat], g \in [PRs -> Nat],
         \A q \in PRs : q # p => g[q] <= f[q],
         g[p] <= f[p] + 1 \/ g[p] <= 2
  PROVE  SecondNotices(g) \subseteq SecondNotices(f) \cup {<<p, g[p]>>}
<1> SUFFICES ASSUME NEW q \in PRs, NEW n \in 2..g[q]
             PROVE  <<q, n>> \in SecondNotices(f) \cup {<<p, g[p]>>}
  BY DEF SecondNotices
<1>1. g[q] \in Nat /\ f[q] \in Nat
  OBVIOUS
<1>2. CASE n \in 2..f[q]
  BY <1>2 DEF SecondNotices
<1>3. CASE n \notin 2..f[q]
  <2>1. q = p
    BY <1>1, <1>3
  <2>2. n = g[p]
    BY <1>1, <1>3, <2>1
  <2> QED
    BY <2>1, <2>2
<1> QED
  BY <1>2, <1>3

LEMMA NoticesLess ==
  ASSUME NEW f, NEW g, f \in [PRs -> Nat], g \in [PRs -> Nat],
         \A q \in PRs : g[q] <= f[q] \/ g[q] <= 1
  PROVE  SecondNotices(g) \subseteq SecondNotices(f)
<1> SUFFICES ASSUME NEW q \in PRs, NEW n \in 2..g[q]
             PROVE  <<q, n>> \in SecondNotices(f)
  BY DEF SecondNotices
<1>1. n \in 2..f[q]
  <2>1. g[q] \in Nat /\ f[q] \in Nat /\ (g[q] <= f[q] \/ g[q] <= 1)
    OBVIOUS
  <2> QED
    BY <2>1
<1> QED
  BY <1>1 DEF SecondNotices

----------------------------------------------------------------------------
(* What is due *)

DueComments == SecondComments(CommentsDue)
DueNotices == SecondNotices(NoticesDue)

DueShape ==
  /\ CommentsDue \in [PRs -> [Fingerprints -> Nat]]
  /\ \A p \in PRs, fp \in Fingerprints :
       /\ inline[p][fp] \in Nat
       /\ CommentsDue[p][fp] = IF CommentOwed(p, fp) THEN inline[p][fp] + 1
                                                     ELSE inline[p][fp]
  /\ NoticesDue \in [PRs -> Nat]
  /\ \A p \in PRs :
       /\ notices[p] \in Nat
       /\ NoticesDue[p] = IF NoticeOwed(p) THEN notices[p] + 1 ELSE notices[p]

LEMMA DueTypes == TypeOK => DueShape
<1> SUFFICES ASSUME TypeOK PROVE DueShape
  OBVIOUS
<1>1. /\ inline \in [PRs -> [Fingerprints -> Nat]] /\ notices \in [PRs -> Nat]
  BY Types
<1>2. \A p \in PRs : inline[p] \in [Fingerprints -> Nat]
  BY <1>1
<1>3. \A p \in PRs, fp \in Fingerprints : inline[p][fp] \in Nat
  BY <1>2
<1>4. \A p \in PRs, fp \in Fingerprints :
        CommentsDue[p][fp] = IF CommentOwed(p, fp) THEN inline[p][fp] + 1
                                                   ELSE inline[p][fp]
  BY DEF CommentsDue
<1>5. CommentsDue \in [PRs -> [Fingerprints -> Nat]]
  BY <1>3 DEF CommentsDue
<1>6. \A p \in PRs : notices[p] \in Nat
  BY <1>1
<1>7. /\ NoticesDue \in [PRs -> Nat]
      /\ \A p \in PRs : NoticesDue[p] = IF NoticeOwed(p) THEN notices[p] + 1 ELSE notices[p]
  BY <1>6 DEF NoticesDue
<1> QED
  BY <1>3, <1>4, <1>5, <1>6, <1>7 DEF DueShape

LEMMA DueTypesNext == TypeOK' => DueShape'
  BY DueTypes, PTL

\* One fault pays for one copy; without one nothing may be added.
LEMMA Paid ==
  ASSUME PaidFor, faults \in Nat,
         \/ /\ DueComments' \subseteq DueComments
            /\ SummariesDue' \subseteq SummariesDue
            /\ DueNotices' \subseteq DueNotices
            /\ faults' \in {faults, faults + 1}
         \/ /\ \E x : DueComments' \subseteq DueComments \cup {x}
            /\ SummariesDue' \subseteq SummariesDue
            /\ DueNotices' \subseteq DueNotices
            /\ faults' = faults + 1
         \/ /\ DueComments' \subseteq DueComments
            /\ \E x : SummariesDue' \subseteq SummariesDue \cup {x}
            /\ DueNotices' \subseteq DueNotices
            /\ faults' = faults + 1
         \/ /\ DueComments' \subseteq DueComments
            /\ SummariesDue' \subseteq SummariesDue
            /\ \E x : DueNotices' \subseteq DueNotices \cup {x}
            /\ faults' = faults + 1
  PROVE  PaidFor'
<1>1. /\ IsFiniteSet(DueComments) /\ IsFiniteSet(SummariesDue) /\ IsFiniteSet(DueNotices)
      /\ Cardinality(DueComments) + Cardinality(SummariesDue)
           + Cardinality(DueNotices) <= faults
  BY DEF PaidFor, DueComments, DueNotices
<1>2. SUFFICES /\ IsFiniteSet(DueComments') /\ IsFiniteSet(SummariesDue')
               /\ IsFiniteSet(DueNotices')
               /\ Cardinality(DueComments') + Cardinality(SummariesDue')
                    + Cardinality(DueNotices') <= faults'
  BY DEF PaidFor, DueComments, DueNotices
<1>3. CASE /\ DueComments' \subseteq DueComments
           /\ SummariesDue' \subseteq SummariesDue
           /\ DueNotices' \subseteq DueNotices
           /\ faults' \in {faults, faults + 1}
  BY <1>1, <1>3, NotGrown
<1>4. CASE /\ \E x : DueComments' \subseteq DueComments \cup {x}
           /\ SummariesDue' \subseteq SummariesDue
           /\ DueNotices' \subseteq DueNotices
           /\ faults' = faults + 1
  <2>1. /\ IsFiniteSet(DueComments')
        /\ Cardinality(DueComments') \in Nat /\ Cardinality(DueComments) \in Nat
        /\ Cardinality(DueComments') <= Cardinality(DueComments) + 1
    <3>1. PICK x : DueComments' \subseteq DueComments \cup {x}
      BY <1>4
    <3> QED
      BY <1>1, <3>1, GrownByOne
  <2>2. /\ IsFiniteSet(SummariesDue')
        /\ Cardinality(SummariesDue') \in Nat /\ Cardinality(SummariesDue) \in Nat
        /\ Cardinality(SummariesDue') <= Cardinality(SummariesDue)
    BY <1>1, <1>4, NotGrown
  <2>3. /\ IsFiniteSet(DueNotices')
        /\ Cardinality(DueNotices') \in Nat /\ Cardinality(DueNotices) \in Nat
        /\ Cardinality(DueNotices') <= Cardinality(DueNotices)
    BY <1>1, <1>4, NotGrown
  <2> QED
    BY <1>1, <1>4, <2>1, <2>2, <2>3
<1>5. CASE /\ DueComments' \subseteq DueComments
           /\ \E x : SummariesDue' \subseteq SummariesDue \cup {x}
           /\ DueNotices' \subseteq DueNotices
           /\ faults' = faults + 1
  <2>1. /\ IsFiniteSet(SummariesDue')
        /\ Cardinality(SummariesDue') \in Nat /\ Cardinality(SummariesDue) \in Nat
        /\ Cardinality(SummariesDue') <= Cardinality(SummariesDue) + 1
    <3>1. PICK x : SummariesDue' \subseteq SummariesDue \cup {x}
      BY <1>5
    <3> QED
      BY <1>1, <3>1, GrownByOne
  <2>2. /\ IsFiniteSet(DueComments')
        /\ Cardinality(DueComments') \in Nat /\ Cardinality(DueComments) \in Nat
        /\ Cardinality(DueComments') <= Cardinality(DueComments)
    BY <1>1, <1>5, NotGrown
  <2>3. /\ IsFiniteSet(DueNotices')
        /\ Cardinality(DueNotices') \in Nat /\ Cardinality(DueNotices) \in Nat
        /\ Cardinality(DueNotices') <= Cardinality(DueNotices)
    BY <1>1, <1>5, NotGrown
  <2> QED
    BY <1>1, <1>5, <2>1, <2>2, <2>3
<1>6. CASE /\ DueComments' \subseteq DueComments
           /\ SummariesDue' \subseteq SummariesDue
           /\ \E x : DueNotices' \subseteq DueNotices \cup {x}
           /\ faults' = faults + 1
  <2>1. /\ IsFiniteSet(DueNotices')
        /\ Cardinality(DueNotices') \in Nat /\ Cardinality(DueNotices) \in Nat
        /\ Cardinality(DueNotices') <= Cardinality(DueNotices) + 1
    <3>1. PICK x : DueNotices' \subseteq DueNotices \cup {x}
      BY <1>6
    <3> QED
      BY <1>1, <3>1, GrownByOne
  <2>2. /\ IsFiniteSet(DueComments')
        /\ Cardinality(DueComments') \in Nat /\ Cardinality(DueComments) \in Nat
        /\ Cardinality(DueComments') <= Cardinality(DueComments)
    BY <1>1, <1>6, NotGrown
  <2>3. /\ IsFiniteSet(SummariesDue')
        /\ Cardinality(SummariesDue') \in Nat /\ Cardinality(SummariesDue) \in Nat
        /\ Cardinality(SummariesDue') <= Cardinality(SummariesDue)
    BY <1>1, <1>6, NotGrown
  <2> QED
    BY <1>1, <1>6, <2>1, <2>2, <2>3
<1> QED
  BY <1>3, <1>4, <1>5, <1>6

\* A copy is made or becomes unavoidable: one at most is added to what is due, and
\* none when it was due already.
OneMore(count, owed, next, owing) ==
  \/ next <= count /\ (owing => owed)
  \/ next = 0
  \/ next <= count + 1 /\ ~owing /\ (owed \/ count = 0)

LEMMA DueNumbers ==
  ASSUME NEW count \in Nat, NEW next \in Nat, NEW owed, NEW owing,
         NEW due, due = IF owed THEN count + 1 ELSE count,
         NEW dueNext, dueNext = IF owing THEN next + 1 ELSE next
  PROVE  /\ OneMore(count, owed, next, owing) => dueNext <= due \/ dueNext <= 1
         /\ next <= count => dueNext <= due + 1
         /\ next <= count + 1 /\ (owed \/ count = 0) => dueNext <= due + 1 \/ dueNext <= 2
  BY DEF OneMore

\* Comparing what is due in two states, one place at a time.
LEMMA CommentsKept ==
  ASSUME TypeOK, TypeOK',
         \A p \in PRs, fp \in Fingerprints :
           OneMore(inline[p][fp], CommentOwed(p, fp), inline'[p][fp], CommentOwed(p, fp)')
  PROVE  DueComments' \subseteq DueComments
<1>1. DueShape /\ DueShape'
  BY DueTypes, DueTypesNext
<1>2. \A p \in PRs, fp \in Fingerprints :
        CommentsDue'[p][fp] <= CommentsDue[p][fp] \/ CommentsDue'[p][fp] <= 1
  <2> SUFFICES ASSUME NEW p \in PRs, NEW fp \in Fingerprints
               PROVE  CommentsDue'[p][fp] <= CommentsDue[p][fp] \/ CommentsDue'[p][fp] <= 1
    OBVIOUS
  <2>1. /\ inline'[p][fp] \in Nat /\ inline[p][fp] \in Nat
        /\ CommentsDue[p][fp] = IF CommentOwed(p, fp) THEN inline[p][fp] + 1
                                                      ELSE inline[p][fp]
        /\ CommentsDue'[p][fp] = IF CommentOwed(p, fp)' THEN inline'[p][fp] + 1
                                                        ELSE inline'[p][fp]
    BY <1>1 DEF DueShape
  <2> QED
    BY <2>1, DueNumbers
<1>3. SecondComments(CommentsDue') \subseteq SecondComments(CommentsDue)
  BY <1>1, <1>2, CommentsLess DEF DueShape
<1> QED
  BY <1>3 DEF DueComments

LEMMA CommentsOneMore ==
  ASSUME TypeOK, TypeOK', NEW q \in PRs, NEW h \in Fingerprints,
         \A p \in PRs, fp \in Fingerprints :
           p # q \/ fp # h =>
             inline'[p][fp] <= inline[p][fp] /\ (CommentOwed(p, fp)' => CommentOwed(p, fp)),
         \/ inline'[q][h] <= inline[q][h]
         \/ /\ inline'[q][h] <= inline[q][h] + 1
            /\ CommentOwed(q, h) \/ inline[q][h] = 0
  PROVE  \E x : DueComments' \subseteq DueComments \cup {x}
<1>1. DueShape /\ DueShape'
  BY DueTypes, DueTypesNext
<1>2. \A p \in PRs, fp \in Fingerprints :
        /\ inline'[p][fp] \in Nat /\ inline[p][fp] \in Nat
        /\ CommentsDue[p][fp] = IF CommentOwed(p, fp) THEN inline[p][fp] + 1
                                                      ELSE inline[p][fp]
        /\ CommentsDue'[p][fp] = IF CommentOwed(p, fp)' THEN inline'[p][fp] + 1
                                                        ELSE inline'[p][fp]
  BY <1>1 DEF DueShape
<1>3. \A p \in PRs, fp \in Fingerprints :
        p # q \/ fp # h => CommentsDue'[p][fp] <= CommentsDue[p][fp]
  BY <1>2
<1>4. CommentsDue'[q][h] <= CommentsDue[q][h] + 1 \/ CommentsDue'[q][h] <= 2
  BY <1>2, DueNumbers
<1>5. SecondComments(CommentsDue')
        \subseteq SecondComments(CommentsDue) \cup {<<q, h, CommentsDue'[q][h]>>}
  BY <1>1, <1>3, <1>4, CommentsMore DEF DueShape
<1> QED
  BY <1>5 DEF DueComments

LEMMA NoticesKept ==
  ASSUME TypeOK, TypeOK',
         \A p \in PRs : OneMore(notices[p], NoticeOwed(p), notices'[p], NoticeOwed(p)')
  PROVE  DueNotices' \subseteq DueNotices
<1>1. DueShape /\ DueShape'
  BY DueTypes, DueTypesNext
<1>2. \A p \in PRs : NoticesDue'[p] <= NoticesDue[p] \/ NoticesDue'[p] <= 1
  <2> SUFFICES ASSUME NEW p \in PRs
               PROVE  NoticesDue'[p] <= NoticesDue[p] \/ NoticesDue'[p] <= 1
    OBVIOUS
  <2>1. /\ notices'[p] \in Nat /\ notices[p] \in Nat
        /\ NoticesDue[p] = IF NoticeOwed(p) THEN notices[p] + 1 ELSE notices[p]
        /\ NoticesDue'[p] = IF NoticeOwed(p)' THEN notices'[p] + 1 ELSE notices'[p]
    BY <1>1 DEF DueShape
  <2> QED
    BY <2>1, DueNumbers
<1>3. SecondNotices(NoticesDue') \subseteq SecondNotices(NoticesDue)
  BY <1>1, <1>2, NoticesLess DEF DueShape
<1> QED
  BY <1>3 DEF DueNotices

LEMMA NoticesOneMore ==
  ASSUME TypeOK, TypeOK', NEW q \in PRs,
         \A p \in PRs : p # q =>
           notices'[p] <= notices[p] /\ (NoticeOwed(p)' => NoticeOwed(p)),
         \/ notices'[q] <= notices[q]
         \/ notices'[q] <= notices[q] + 1 /\ (NoticeOwed(q) \/ notices[q] = 0)
  PROVE  \E x : DueNotices' \subseteq DueNotices \cup {x}
<1>1. DueShape /\ DueShape'
  BY DueTypes, DueTypesNext
<1>2. \A p \in PRs :
        /\ notices'[p] \in Nat /\ notices[p] \in Nat
        /\ NoticesDue[p] = IF NoticeOwed(p) THEN notices[p] + 1 ELSE notices[p]
        /\ NoticesDue'[p] = IF NoticeOwed(p)' THEN notices'[p] + 1 ELSE notices'[p]
  BY <1>1 DEF DueShape
<1>3. \A p \in PRs : p # q => NoticesDue'[p] <= NoticesDue[p]
  BY <1>2
<1>4. NoticesDue'[q] <= NoticesDue[q] + 1 \/ NoticesDue'[q] <= 2
  BY <1>2, DueNumbers
<1>5. SecondNotices(NoticesDue') \subseteq SecondNotices(NoticesDue) \cup {<<q, NoticesDue'[q]>>}
  BY <1>1, <1>3, <1>4, NoticesMore DEF DueShape
<1> QED
  BY <1>5 DEF DueNotices

\* The n-th summary of p follows another one of its pass, or is bound to.
SummaryDue(p, n) ==
  \/ /\ n \in DOMAIN summaries[p]
     /\ \E k \in 1..(n - 1) : summaries[p][k].cycle = summaries[p][n].cycle
  \/ SummaryOwed(p) /\ n = Len(summaries[p]) + 1

SummariesShape ==
  \A x : x \in SummariesDue <=>
    \E p \in PRs, n \in Nat : x = <<p, n>> /\ SummaryDue(p, n)

LEMMA SummariesAre == TypeOK => SummariesShape
<1> SUFFICES ASSUME TypeOK, NEW x
             PROVE  x \in SummariesDue <=>
                      \E p \in PRs, n \in Nat : x = <<p, n>> /\ SummaryDue(p, n)
  BY DEF SummariesShape
<1>1. \A p \in PRs : Len(summaries[p]) \in Nat /\ DOMAIN summaries[p] = 1..Len(summaries[p])
  BY Types
<1>2. x \in SecondSummaries <=>
        \E p \in PRs, n \in Nat :
          /\ x = <<p, n>>
          /\ n \in DOMAIN summaries[p]
          /\ \E k \in 1..(n - 1) : summaries[p][k].cycle = summaries[p][n].cycle
  BY <1>1 DEF SecondSummaries
<1>3. x \in SummariesDue <=>
        \/ x \in SecondSummaries
        \/ \E p \in PRs : SummaryOwed(p) /\ x = <<p, Len(summaries[p]) + 1>>
  BY DEF SummariesDue
<1>4. \A p \in PRs : Len(summaries[p]) + 1 \in Nat
  BY <1>1
<1> HIDE DEF SecondSummaries
<1> QED
  BY <1>2, <1>3, <1>4 DEF SummaryDue

LEMMA SummariesAreNext == TypeOK' => SummariesShape'
  BY SummariesAre, PTL

LEMMA SummariesOneMore ==
  ASSUME TypeOK, TypeOK', NEW q, NEW m,
         \A p \in PRs, n \in Nat :
           SummaryDue(p, n)' => SummaryDue(p, n) \/ (p = q /\ n = m)
  PROVE  SummariesDue' \subseteq SummariesDue \cup {<<q, m>>}
<1> SUFFICES ASSUME NEW x, x \in SummariesDue'
             PROVE  x \in SummariesDue \cup {<<q, m>>}
  OBVIOUS
<1>1. PICK p \in PRs, n \in Nat : x = <<p, n>> /\ SummaryDue(p, n)'
  BY SummariesAreNext DEF SummariesShape
<1>2. SummaryDue(p, n) \/ (p = q /\ n = m)
  BY <1>1
<1>3. SummaryDue(p, n) => x \in SummariesDue
  BY <1>1, SummariesAre DEF SummariesShape
<1> QED
  BY <1>1, <1>2, <1>3

LEMMA SummariesStay ==
  ASSUME TypeOK, TypeOK',
         \A p \in PRs, n \in Nat : SummaryDue(p, n)' => SummaryDue(p, n)
  PROVE  SummariesDue' \subseteq SummariesDue
<1> SUFFICES ASSUME NEW x, x \in SummariesDue'
             PROVE  x \in SummariesDue
  OBVIOUS
<1>1. PICK p \in PRs, n \in Nat : x = <<p, n>> /\ SummaryDue(p, n)'
  BY SummariesAreNext DEF SummariesShape
<1>2. SummaryDue(p, n)
  BY <1>1
<1> QED
  BY <1>1, <1>2, SummariesAre DEF SummariesShape

\* With the comments as they are, only owing one more makes a difference.
LEMMA SummariesOwed ==
  ASSUME TypeOK, TypeOK', UNCHANGED summaries,
         NEW q, \A p \in PRs : SummaryOwed(p)' => SummaryOwed(p) \/ p = q
  PROVE  /\ \E x : SummariesDue' \subseteq SummariesDue \cup {x}
         /\ (q \in PRs /\ SummaryOwed(q)' => SummaryOwed(q)) =>
              SummariesDue' \subseteq SummariesDue
<1> DEFINE m == Len(summaries[q]) + 1
<1>1. \A p \in PRs, n \in Nat :
        SummaryDue(p, n)' => SummaryDue(p, n) \/ (p = q /\ n = m)
  BY DEF SummaryDue
<1>2. ASSUME q \in PRs /\ SummaryOwed(q)' => SummaryOwed(q)
      PROVE  \A p \in PRs, n \in Nat : SummaryDue(p, n)' => SummaryDue(p, n)
  BY <1>2 DEF SummaryDue
<1>3. SummariesDue' \subseteq SummariesDue \cup {<<q, m>>}
  BY <1>1, SummariesOneMore
<1> QED
  BY <1>2, <1>3, SummariesStay

----------------------------------------------------------------------------
(* What each step adds *)

\* Nothing on the forge or in the tables changes: only what was in hand counts.
LEMMA LetGo ==
  ASSUME TypeOK, TypeOK', PaidFor, NothingPostedTwice, UNCHANGED dataVars,
         faults' \in {faults, faults + 1},
         \/ pc \in {"record", "saveSummary", "saveNotice"} /\ Live => faults' = faults + 1
         \/ OtherStep
  PROVE  PaidFor'
<1> USE DEF dataVars
<1>1. faults \in Nat
  BY DEF TypeOK, HistoryTypeOK
<1>2. /\ \A p \in PRs, fp \in Fingerprints :
             /\ inline[p][fp] \in Nat /\ inline'[p][fp] = inline[p][fp]
             /\ CommentOwed(p, fp)' =>
                  CommentOwed(p, fp) \/ (InHand("record", p) /\ fp \in cur)
      /\ \A p \in PRs :
             /\ notices[p] \in Nat /\ notices'[p] = notices[p]
             /\ NoticeOwed(p)' => NoticeOwed(p) \/ InHand("saveNotice", p)
             /\ SummaryOwed(p)' => SummaryOwed(p) \/ InHand("saveSummary", p)
  <2>1. DueShape
    BY DueTypes
  <2>2. \A p \in PRs, fp \in Fingerprints :
          CommentOwed(p, fp)' =>
            CommentOwed(p, fp) \/ (InHand("record", p) /\ fp \in cur)
    BY DEF CommentOwed
  <2>3. \A p \in PRs :
             /\ NoticeOwed(p)' => NoticeOwed(p) \/ InHand("saveNotice", p)
             /\ SummaryOwed(p)' => SummaryOwed(p) \/ InHand("saveSummary", p)
    BY DEF NoticeOwed, SummaryOwed
  <2> QED
    BY <2>1, <2>2, <2>3 DEF DueShape
<1>3. ASSUME \A p \in PRs, fp \in Fingerprints : CommentOwed(p, fp)' => CommentOwed(p, fp)
      PROVE  DueComments' \subseteq DueComments
  BY <1>2, <1>3, CommentsKept DEF OneMore
<1>4. ASSUME \A p \in PRs : NoticeOwed(p)' => NoticeOwed(p)
      PROVE  DueNotices' \subseteq DueNotices
  BY <1>2, <1>4, NoticesKept DEF OneMore
<1>5. ASSUME \A p \in PRs : SummaryOwed(p)' => SummaryOwed(p)
      PROVE  SummariesDue' \subseteq SummariesDue
  BY <1>5, SummariesOwed
<1>6. CASE OtherStep /\ faults' = faults
  <2>1. UNCHANGED <<pc, ctx, cur>> /\ (pc \notin Idle => PR' = PR)
    BY <1>1, <1>6 DEF OtherStep, PR, Row
  <2>2. /\ \A p \in PRs : /\ InHand("record", p)' <=> InHand("record", p)
                          /\ InHand("saveNotice", p)' <=> InHand("saveNotice", p)
                          /\ InHand("saveSummary", p)' <=> InHand("saveSummary", p)
    BY <2>1 DEF InHand, Live, Idle
  <2>3. \A p \in PRs, fp \in Fingerprints : CommentOwed(p, fp)' => CommentOwed(p, fp)
    BY <2>1, <2>2 DEF CommentOwed
  <2>4. \A p \in PRs : /\ NoticeOwed(p)' => NoticeOwed(p)
                       /\ SummaryOwed(p)' => SummaryOwed(p)
    BY <2>2 DEF NoticeOwed, SummaryOwed
  <2> QED
    BY <1>1, <1>3, <1>4, <1>5, <2>3, <2>4, Paid
<1>7. CASE pc \notin {"record", "saveSummary", "saveNotice"} \/ ~Live
  BY <1>1, <1>2, <1>3, <1>4, <1>5, <1>7, Paid DEF InHand
<1>8. CASE pc = "record" /\ faults' = faults + 1
  <2>1. PICK fp \in Fingerprints : cur = {fp}
    BY <1>8 DEF NothingPostedTwice
  <2>2. PICK q \in PRs : q = PR
    BY <1>8, Types DEF Idle
  <2>3. \A p \in PRs, h \in Fingerprints :
          p # q \/ h # fp =>
            inline'[p][h] <= inline[p][h] /\ (CommentOwed(p, h)' => CommentOwed(p, h))
    BY <1>2, <2>1, <2>2 DEF InHand
  <2>4. inline'[q][fp] <= inline[q][fp]
    BY <1>2
  <2>5. \E x : DueComments' \subseteq DueComments \cup {x}
    BY <2>3, <2>4, CommentsOneMore
  <2> QED
    BY <1>1, <1>2, <1>4, <1>5, <1>8, <2>5, Paid DEF InHand
<1>9. CASE pc = "saveNotice" /\ faults' = faults + 1
  <2>1. PICK q \in PRs : q = PR
    BY <1>9, Types DEF Idle
  <2>2. \A p \in PRs : p # q =>
          notices'[p] <= notices[p] /\ (NoticeOwed(p)' => NoticeOwed(p))
    BY <1>2, <2>1 DEF InHand
  <2>3. notices'[q] <= notices[q]
    BY <1>2
  <2>4. \E x : DueNotices' \subseteq DueNotices \cup {x}
    BY <2>2, <2>3, NoticesOneMore
  <2>5. DueComments' \subseteq DueComments /\ SummariesDue' \subseteq SummariesDue
    BY <1>2, <1>3, <1>5, <1>9 DEF InHand
  <2> QED
    BY <1>1, <1>9, <2>4, <2>5, Paid
<1>10. CASE pc = "saveSummary" /\ faults' = faults + 1
  <2>1. \A p \in PRs : SummaryOwed(p)' => SummaryOwed(p) \/ p = PR
    BY <1>2 DEF InHand
  <2>2. \E x : SummariesDue' \subseteq SummariesDue \cup {x}
    BY <2>1, SummariesOwed
  <2>3. DueComments' \subseteq DueComments /\ DueNotices' \subseteq DueNotices
    BY <1>2, <1>3, <1>4, <1>10 DEF InHand
  <2> QED
    BY <1>1, <1>10, <2>2, <2>3, Paid
<1>11. faults' # faults => faults' = faults + 1
  OBVIOUS
<1>12. OtherStep => faults' = faults + 1 \/ faults' = faults
  BY DEF OtherStep
<1> QED
  BY <1>6, <1>7, <1>8, <1>9, <1>10, <1>11

\* A new budget starts on a clean record.
LEMMA NewBudgetPaid ==
  ASSUME TypeOK, TypeOK', PaidFor, pc = "reset", NewBudget(PR), Goto("readState")
  PROVE  PaidFor'
<1>1. PICK q \in PRs : q = PR
  BY Types DEF Idle
<1>2. /\ pc' = "readState" /\ faults' = faults /\ faults \in Nat
      /\ prReviews' = [prReviews EXCEPT ![q] = ZeroPRState]
      /\ postedComments' = [postedComments EXCEPT ![q] = {}]
      /\ inline' = [inline EXCEPT ![q] = [fp \in Fingerprints |-> 0]]
      /\ summaries' = [summaries EXCEPT ![q] = <<>>]
      /\ notices' = [notices EXCEPT ![q] = 0]
  BY <1>1 DEF NewBudget, ResetPRState, Goto, TypeOK, HistoryTypeOK
<1>3. /\ \A fp \in Fingerprints : inline'[q][fp] = 0
      /\ notices'[q] = 0 /\ summaries'[q] = <<>>
      /\ \A p \in PRs : p # q =>
           /\ prReviews'[p] = prReviews[p] /\ postedComments'[p] = postedComments[p]
           /\ inline'[p] = inline[p] /\ summaries'[p] = summaries[p]
           /\ notices'[p] = notices[p]
  BY <1>2, Types
<1>4. \A p \in PRs, fp \in Fingerprints :
        inline[p][fp] \in Nat /\ notices[p] \in Nat
  BY DueTypes DEF DueShape
<1>5. \A label \in {"record", "saveNotice", "saveSummary"}, p \in PRs :
        ~InHand(label, p) /\ ~InHand(label, p)'
  BY <1>2 DEF InHand
<1>6. DueComments' \subseteq DueComments
  <2>1. \A p \in PRs, fp \in Fingerprints :
          p # q => (CommentOwed(p, fp)' => CommentOwed(p, fp))
    BY <1>3, <1>5 DEF CommentOwed
  <2>2. \A p \in PRs, fp \in Fingerprints :
          OneMore(inline[p][fp], CommentOwed(p, fp), inline'[p][fp], CommentOwed(p, fp)')
    BY <1>3, <1>4, <2>1 DEF OneMore
  <2> QED
    BY <2>2, CommentsKept
<1>7. DueNotices' \subseteq DueNotices
  <2>1. \A p \in PRs : p # q => (NoticeOwed(p)' => NoticeOwed(p))
    BY <1>3, <1>5 DEF NoticeOwed
  <2>2. \A p \in PRs : notices[p] \in Nat
    BY DueTypes DEF DueShape
  <2>3. \A p \in PRs : OneMore(notices[p], NoticeOwed(p), notices'[p], NoticeOwed(p)')
    BY <1>3, <2>1, <2>2 DEF OneMore
  <2> QED
    BY <2>3, NoticesKept
<1>8. SummariesDue' \subseteq SummariesDue
  <2>1. \A p \in PRs, n \in Nat : p # q => (SummaryDue(p, n)' => SummaryDue(p, n))
    BY <1>3, <1>5 DEF SummaryDue, SummaryOwed
  <2>2. \A n \in Nat : ~SummaryDue(q, n)'
    BY <1>3 DEF SummaryDue, SummaryOwed
  <2>3. \A p \in PRs, n \in Nat : SummaryDue(p, n)' => SummaryDue(p, n)
    BY <2>1, <2>2
  <2> QED
    BY <2>3, SummariesStay
<1> QED
  BY <1>2, <1>6, <1>7, <1>8, Paid

\* A step of the review that leaves the notices and the rows alone, or the
\* comments, or the summaries.
LEMMA CommentsAside ==
  ASSUME TypeOK, TypeOK', UNCHANGED <<inline, postedComments>>, pc # "record"
  PROVE  DueComments' \subseteq DueComments
<1>1. \A p \in PRs, fp \in Fingerprints : CommentOwed(p, fp)' => CommentOwed(p, fp)
  BY DEF CommentOwed, InHand
<1>2. \A p \in PRs, fp \in Fingerprints : inline[p][fp] \in Nat
  BY DueTypes DEF DueShape
<1> QED
  BY <1>1, <1>2, CommentsKept DEF OneMore

LEMMA NoticesAside ==
  ASSUME TypeOK, TypeOK', UNCHANGED notices, pc # "saveNotice",
         \A p \in PRs : prReviews[p].budgetNoticePosted => prReviews'[p].budgetNoticePosted
  PROVE  DueNotices' \subseteq DueNotices
<1>1. \A p \in PRs : NoticeOwed(p)' => NoticeOwed(p)
  BY DEF NoticeOwed, InHand
<1>2. \A p \in PRs : notices[p] \in Nat
  BY DueTypes DEF DueShape
<1> QED
  BY <1>1, <1>2, NoticesKept DEF OneMore

LEMMA SummariesAside ==
  ASSUME TypeOK, TypeOK', UNCHANGED summaries, pc # "saveSummary",
         \A p \in PRs :
           /\ prReviews'[p].cycle = prReviews[p].cycle
           /\ prReviews'[p].summaryCommentID = prReviews[p].summaryCommentID
           /\ prReviews'[p].summaryCycle = prReviews[p].summaryCycle
  PROVE  SummariesDue' \subseteq SummariesDue
<1>1. \A p \in PRs : SummaryOwed(p)' => SummaryOwed(p)
  BY DEF SummaryOwed, InHand
<1> QED
  BY <1>1, SummariesOwed

LEMMA PostInlinePaid ==
  ASSUME TypeOK, TypeOK', PaidFor, NothingPostedTwice, PostInline
  PROVE  PaidFor'
<1>1. PICK q \in PRs : q = PR
  BY Types DEF PostInline, Idle
<1>2. PICK fp \in fresh : PostAccepted(fp) \/ PostRejected(fp)
  BY DEF PostInline
<1>3. /\ pc = "post" /\ fp \in Fingerprints /\ fp \notin postedComments[q]
      /\ UNCHANGED <<prReviews, postedComments, summaries, notices, ctx>>
      /\ PR' = q /\ faults \in Nat
  BY <1>1, <1>2, Types
  DEF PostInline, PostAccepted, PostRejected, Comment, storeVars, forgeVars, PR, Row,
      NothingPostedTwice, TypeOK, HistoryTypeOK
<1>4. DueNotices' \subseteq DueNotices /\ SummariesDue' \subseteq SummariesDue
  BY <1>3, NoticesAside, SummariesAside
<1>5. \A p \in PRs, g \in Fingerprints :
        /\ inline[p][g] \in Nat
        /\ CommentOwed(p, g) <=> inline[p][g] >= 1 /\ g \notin postedComments[p]
  BY <1>3, DueTypes DEF DueShape, CommentOwed, InHand
<1>6. CASE PostAccepted(fp)
  <2>1. Comment(fp) /\ Live' /\ cur' = {fp} /\ pc' = "record" /\ faults' = faults
    BY <1>3, <1>6 DEF PostAccepted, Live, historyVars
  <2>2. \A p \in PRs, g \in Fingerprints :
          inline'[p][g] = IF p = q /\ g = fp THEN inline[p][g] + 1 ELSE inline[p][g]
    BY <1>1, <1>3, <2>1, CommentEffect DEF Idle
  <2>3. ~CommentOwed(q, fp)'
    BY <1>3, <2>1 DEF CommentOwed, InHand
  <2>4. \A p \in PRs, g \in Fingerprints :
          p # q \/ g # fp => (CommentOwed(p, g)' => CommentOwed(p, g))
    BY <1>3, <1>5, <2>2 DEF CommentOwed
  <2>5. CommentOwed(q, fp) \/ inline[q][fp] = 0
    BY <1>3, <1>5
  <2>6. \A p \in PRs, g \in Fingerprints :
          OneMore(inline[p][g], CommentOwed(p, g), inline'[p][g], CommentOwed(p, g)')
    BY <1>3, <1>5, <2>2, <2>3, <2>4, <2>5 DEF OneMore
  <2>7. DueComments' \subseteq DueComments
    BY <2>6, CommentsKept
  <2> QED
    BY <1>3, <1>4, <2>1, <2>7, Paid
<1>7. CASE ResponseLost /\ Comment(fp)
  <2>1. faults' = faults + 1
    BY <1>7 DEF ResponseLost, Suffer
  <2>2. \A p \in PRs, g \in Fingerprints :
          inline'[p][g] = IF p = q /\ g = fp THEN inline[p][g] + 1 ELSE inline[p][g]
    BY <1>1, <1>3, <1>7, CommentEffect DEF Idle
  <2>3. \A p \in PRs, g \in Fingerprints :
          p # q \/ g # fp =>
            inline'[p][g] <= inline[p][g] /\ (CommentOwed(p, g)' => CommentOwed(p, g))
    BY <1>3, <1>5, <2>2 DEF CommentOwed
  <2>4. inline'[q][fp] <= inline[q][fp] + 1 /\ (CommentOwed(q, fp) \/ inline[q][fp] = 0)
    BY <1>3, <1>5, <2>2
  <2>5. \E x : DueComments' \subseteq DueComments \cup {x}
    BY <1>3, <2>3, <2>4, CommentsOneMore
  <2> QED
    BY <1>3, <1>4, <2>1, <2>5, Paid
<1>8. CASE ForgeRefuses /\ UNCHANGED forgeVars
  <2>1. faults' = faults /\ DueComments' \subseteq DueComments
    BY <1>3, <1>8, CommentsAside DEF ForgeRefuses, historyVars, forgeVars
  <2> QED
    BY <1>3, <1>4, <2>1, Paid
<1> QED
  BY <1>2, <1>6, <1>7, <1>8 DEF PostRejected

LEMMA RecordPaid ==
  ASSUME TypeOK, TypeOK', PaidFor, NothingPostedTwice, Record
  PROVE  PaidFor'
<1>1. PICK q \in PRs : q = PR
  BY Types DEF Record, Idle
<1>2. PICK fp \in Fingerprints : cur = {fp}
  BY DEF Record, NothingPostedTwice
<1>3. /\ pc = "record" /\ faults' = faults /\ faults \in Nat
      /\ postedComments' = [postedComments EXCEPT ![q] = @ \cup {fp}]
      /\ UNCHANGED <<prReviews, inline, summaries, notices>>
  BY <1>1, <1>2
  DEF Record, RecordFingerprint, forgeVars, historyVars, TypeOK, HistoryTypeOK
<1>4. DueNotices' \subseteq DueNotices /\ SummariesDue' \subseteq SummariesDue
  BY <1>3, NoticesAside, SummariesAside
<1>5. \A p \in PRs, g \in Fingerprints : CommentOwed(p, g)' => CommentOwed(p, g)
  <2>1. /\ fp \in postedComments'[q]
        /\ \A p \in PRs : postedComments[p] \subseteq postedComments'[p]
    BY <1>3, Types
  <2> QED
    BY <1>1, <1>2, <1>3, <2>1 DEF CommentOwed, InHand
<1>6. DueComments' \subseteq DueComments
  <2>1. \A p \in PRs, g \in Fingerprints : inline[p][g] \in Nat
    BY DueTypes DEF DueShape
  <2> QED
    BY <1>3, <1>5, <2>1, CommentsKept DEF OneMore
<1> QED
  BY <1>3, <1>4, <1>6, Paid

\* Writing the summary adds a second one of the pass only where that was due.
LEMMA SummaryWritten ==
  ASSUME TypeOK, BudgetInv, pc = "summary", WriteSummary, UNCHANGED prReviews
  PROVE  \A p \in PRs, n \in Nat :
           SummaryDue(p, n)' =>
             \/ SummaryDue(p, n)
             \/ SummaryOwed(p)' /\ p = PR /\ n = Len(summaries[p]) + 2
<1> DEFINE text == [cycle |-> Pass, head |-> Row.head, listed |-> unposted]
<1>1. PICK q \in PRs : q = PR
  BY Types DEF Idle
<1>2. /\ st = prReviews[q] /\ Pass = prReviews[q].cycle + 1 /\ text.cycle = Pass
      /\ summaries \in [PRs -> Seq(Summary)] /\ summaries[q] \in Seq(Summary)
  BY <1>1, Types DEF BudgetInv, SnapshotFresh, Pass
<1>3. ASSUME NEW p \in PRs, p # q
      PROVE  summaries'[p] = summaries[p] /\ (SummaryOwed(p)' => SummaryOwed(p))
  <2>1. summaries'[p] = summaries[p]
    BY <1>1, <1>2, <1>3 DEF WriteSummary
  <2> QED
    BY <1>1, <1>3, <2>1 DEF SummaryOwed, InHand
<1>4. ASSUME NEW p \in PRs, p # q, NEW n \in Nat, SummaryDue(p, n)'
      PROVE  SummaryDue(p, n)
  BY <1>3, <1>4 DEF SummaryDue
<1>5. CASE EditsSummary
  <2> DEFINE id == st.summaryCommentID
  <2>1. /\ id \in DOMAIN summaries[q] /\ summaries[q][id].cycle = Pass
        /\ prReviews[q].summaryCommentID # 0 /\ prReviews[q].summaryCycle = Pass
    BY <1>2, <1>5 DEF EditsSummary, BudgetInv, SummaryTracked
  <2>2. summaries'[q] = [summaries[q] EXCEPT ![id] = text]
    BY <1>1, <1>2, <1>5 DEF WriteSummary
  <2> HIDE DEF text
  <2>3. /\ DOMAIN summaries'[q] = DOMAIN summaries[q]
        /\ \A k \in DOMAIN summaries[q] : summaries'[q][k].cycle = summaries[q][k].cycle
    BY <1>2, <2>1, <2>2
  <2>4. ~SummaryOwed(q)'
    BY <1>2, <2>1 DEF SummaryOwed
  <2>5. \A n \in Nat : SummaryDue(q, n)' => SummaryDue(q, n)
    <3> SUFFICES ASSUME NEW n \in Nat, SummaryDue(q, n)' PROVE SummaryDue(q, n)
      OBVIOUS
    <3>1. PICK k \in 1..(n - 1) : /\ n \in DOMAIN summaries[q]
                                  /\ summaries'[q][k].cycle = summaries'[q][n].cycle
      BY <2>3, <2>4 DEF SummaryDue
    <3>2. k \in DOMAIN summaries[q]
      BY <1>2, <3>1
    <3> QED
      BY <2>3, <3>1, <3>2 DEF SummaryDue
  <2> QED
    BY <1>4, <2>5
<1>6. CASE ~EditsSummary
  <2> DEFINE len == Len(summaries[q])
  <2>1. /\ summaries'[q] = Append(summaries[q], text)
        /\ len \in Nat /\ DOMAIN summaries[q] = 1..len
    BY <1>1, <1>2, <1>6 DEF WriteSummary
  <2> HIDE DEF text
  <2>2. /\ Len(summaries'[q]) = len + 1 /\ DOMAIN summaries'[q] = 1..(len + 1)
        /\ \A k \in 1..len : summaries'[q][k] = summaries[q][k]
        /\ summaries'[q][len + 1] = text
    BY <1>2, <2>1
  <2>3. (\E k \in 1..len : summaries[q][k].cycle = Pass) => SummaryOwed(q)
    BY <1>2, <1>6, <2>1 DEF EditsSummary, SummaryOwed, InHand
  <2>4. ASSUME NEW n \in Nat, SummaryDue(q, n)'
        PROVE  SummaryDue(q, n) \/ (SummaryOwed(q)' /\ n = len + 2)
    <3>1. CASE SummaryOwed(q)' /\ n = Len(summaries'[q]) + 1
      BY <2>1, <2>2, <3>1
    <3>2. ASSUME n \in DOMAIN summaries'[q], NEW k \in 1..(n - 1),
                 summaries'[q][k].cycle = summaries'[q][n].cycle
          PROVE  SummaryDue(q, n)
      <4>1. k \in 1..len /\ summaries'[q][k] = summaries[q][k]
        BY <2>1, <2>2, <3>2
      <4>2. CASE n \in 1..len
        BY <2>1, <2>2, <3>2, <4>1, <4>2 DEF SummaryDue
      <4>3. CASE n = len + 1
        BY <1>2, <2>2, <2>3, <3>2, <4>1, <4>3 DEF SummaryDue
      <4> QED
        BY <2>1, <2>2, <3>2, <4>2, <4>3
    <3> QED
      BY <2>4, <3>1, <3>2 DEF SummaryDue
  <2> QED
    BY <1>1, <1>4, <2>4
<1> QED
  BY <1>5, <1>6

LEMMA SummaryPaid ==
  ASSUME TypeOK, TypeOK', BudgetInv, PaidFor, PostSummary \/ SummaryLost
  PROVE  PaidFor'
<1>1. /\ pc = "summary" /\ WriteSummary /\ PR' = PR /\ Live' /\ faults \in Nat
      /\ UNCHANGED <<prReviews, postedComments, inline, notices>>
      /\ \/ pc' = "saveSummary" /\ faults' = faults
         \/ faults' = faults + 1
  BY DEF PostSummary, SummaryLost, ResponseLost, WriteSummary, Return, Live, PR, Row,
         storeVars, historyVars, Suffer, TypeOK, HistoryTypeOK
<1>2. DueComments' \subseteq DueComments /\ DueNotices' \subseteq DueNotices
  BY <1>1, CommentsAside, NoticesAside
<1>3. \A p \in PRs, n \in Nat :
        SummaryDue(p, n)' =>
          \/ SummaryDue(p, n)
          \/ SummaryOwed(p)' /\ p = PR /\ n = Len(summaries[p]) + 2
  BY <1>1, SummaryWritten
<1>4. CASE pc' = "saveSummary" /\ faults' = faults
  <2>1. \A p \in PRs : p = PR => ~SummaryOwed(p)'
    BY <1>1, <1>4 DEF SummaryOwed, InHand
  <2>2. SummariesDue' \subseteq SummariesDue
    BY <1>3, <2>1, SummariesStay
  <2> QED
    BY <1>1, <1>2, <1>4, <2>2, Paid
<1>5. CASE faults' = faults + 1
  <2>1. PICK q \in PRs : q = PR
    BY <1>1, Types DEF Idle
  <2>2. PICK m : m = Len(summaries[q]) + 2
    OBVIOUS
  <2>3. \A p \in PRs, n \in Nat :
          SummaryDue(p, n)' => SummaryDue(p, n) \/ (p = q /\ n = m)
    BY <1>3, <2>1, <2>2
  <2>4. SummariesDue' \subseteq SummariesDue \cup {<<q, m>>}
    BY <2>3, SummariesOneMore
  <2> QED
    BY <1>1, <1>2, <1>5, <2>4, Paid
<1> QED
  BY <1>1, <1>4, <1>5

\* Once a save went through there is nothing in hand, and nothing more is owed.
LEMMA SavePaid ==
  ASSUME TypeOK, TypeOK', BudgetInv, PaidFor, NothingPostedTwice,
         SaveSummary \/ SaveCycle \/ SaveNotice
  PROVE  PaidFor'
<1>1. PICK q \in PRs : q = PR
  BY Types DEF SaveSummary, SaveCycle, SaveNotice, Idle
<1>2. PICK row \in PRRow :
        /\ SavePRState(PR, row)
        /\ \/ /\ pc = "saveSummary" /\ row.cycle = prReviews[q].cycle
              /\ row.summaryCommentID # 0 /\ row.summaryCycle = row.cycle + 1
              /\ row.budgetNoticePosted = prReviews[q].budgetNoticePosted
           \/ /\ pc = "saveCycle" /\ row.cycle = prReviews[q].cycle + 1
              /\ row.budgetNoticePosted = prReviews[q].budgetNoticePosted
           \/ /\ pc = "saveNotice" /\ row.cycle = prReviews[q].cycle
              /\ row.summaryCommentID = prReviews[q].summaryCommentID
              /\ row.summaryCycle = prReviews[q].summaryCycle
              /\ row.budgetNoticePosted
  <2>1. CASE SaveSummary
    <3>1. pc = "saveSummary" /\ SavePRState(PR, st)
      BY <2>1 DEF SaveSummary
    <3>2. /\ st.cycle = prReviews[q].cycle /\ st.summaryCycle = st.cycle + 1
          /\ st.budgetNoticePosted = prReviews[q].budgetNoticePosted
          /\ st.summaryCommentID \in DOMAIN summaries[q]
      BY <1>1, <3>1 DEF BudgetInv, SnapshotFresh, SummaryInHand, Saving, Pass
    <3>3. st.summaryCommentID # 0
      BY <3>2, Types
    <3> QED
      BY <3>1, <3>2, <3>3, Types
  <2>2. CASE SaveCycle
    <3> DEFINE next == [st EXCEPT !.cycle = Pass, !.lastReviewedSHA = Row.head]
    <3>1. pc = "saveCycle" /\ SavePRState(PR, next) /\ st = prReviews[q]
      BY <1>1, <2>2 DEF SaveCycle, BudgetInv, SnapshotFresh
    <3>2. Pass \in Nat /\ Pass = st.cycle + 1 /\ Row.head \in Heads
      BY <3>1, RowType, Types DEF Pass, PRRow, Idle
    <3>3. /\ next \in PRRow /\ next.cycle = Pass
          /\ next.budgetNoticePosted = st.budgetNoticePosted
      BY <3>2, Types DEF PRRow
    <3> HIDE DEF next
    <3> QED
      BY <3>1, <3>2, <3>3
  <2>3. CASE SaveNotice
    <3> DEFINE next == [st EXCEPT !.budgetNoticePosted = TRUE]
    <3>1. pc = "saveNotice" /\ SavePRState(PR, next) /\ st = prReviews[q]
      BY <1>1, <2>3 DEF SaveNotice, BudgetInv, SnapshotFresh
    <3>2. /\ next \in PRRow /\ next.budgetNoticePosted /\ next.cycle = st.cycle
          /\ next.summaryCommentID = st.summaryCommentID
          /\ next.summaryCycle = st.summaryCycle
      BY Types DEF PRRow
    <3> HIDE DEF next
    <3> QED
      BY <3>1, <3>2
  <2> QED
    BY <2>1, <2>2, <2>3
<1>3. /\ prReviews'[q] = row /\ \A p \in PRs : p # q => prReviews'[p] = prReviews[p]
      /\ UNCHANGED <<postedComments, inline, summaries, notices, faults>>
      /\ faults \in Nat
  BY <1>1, <1>2, Types
  DEF SaveSummary, SaveCycle, SaveNotice, SavePRState, forgeVars, historyVars, TypeOK,
      HistoryTypeOK
<1>4. DueComments' \subseteq DueComments
  BY <1>2, <1>3, CommentsAside
<1>5. DueNotices' \subseteq DueNotices
  <2>1. CASE pc # "saveNotice"
    BY <1>2, <1>3, <2>1, NoticesAside
  <2>2. CASE pc = "saveNotice"
    <3>1. \A p \in PRs : NoticeOwed(p)' => NoticeOwed(p)
      BY <1>1, <1>2, <1>3, <2>2 DEF NoticeOwed, InHand
    <3>2. \A p \in PRs : notices[p] \in Nat
      BY DueTypes DEF DueShape
    <3> QED
      BY <1>3, <3>1, <3>2, NoticesKept DEF OneMore
  <2> QED
    BY <2>1, <2>2
<1>6. SummariesDue' \subseteq SummariesDue
  <2>1. CASE pc = "saveNotice"
    BY <1>2, <1>3, <2>1, SummariesAside
  <2>2. CASE pc # "saveNotice"
    <3>1. ~SummaryOwed(q)'
      <4>1. CASE pc = "saveSummary"
        BY <1>2, <1>3, <4>1 DEF SummaryOwed
      <4>2. CASE pc = "saveCycle"
        <5>1. \A i \in DOMAIN summaries[q] : summaries[q][i].cycle <= prReviews[q].cycle + 1
          BY DEF NothingPostedTwice
        <5>2. prReviews[q].cycle \in Nat
          BY Types DEF PRRow
        <5>3. \A i \in DOMAIN summaries[q] : summaries[q][i].cycle # row.cycle + 1
          <6> TAKE i \in DOMAIN summaries[q]
          <6>1. summaries[q][i] \in Summary
            BY Types
          <6>2. summaries[q][i].cycle \in Nat
            BY <6>1 DEF Summary
          <6> QED
            BY <1>2, <4>2, <5>1, <5>2, <6>2
        <5> QED
          BY <1>3, <5>3 DEF SummaryOwed
      <4> QED
        BY <1>2, <2>2, <4>1, <4>2
    <3>2. \A p \in PRs : p # q => (SummaryOwed(p)' => SummaryOwed(p))
      BY <1>1, <1>3 DEF SummaryOwed, InHand
    <3> QED
      BY <1>3, <3>1, <3>2, SummariesOwed
  <2> QED
    BY <2>1, <2>2
<1> QED
  BY <1>3, <1>4, <1>5, <1>6, Paid

LEMMA NoticePaid ==
  ASSUME TypeOK, TypeOK', BudgetInv, PaidFor, NothingPostedTwice, PostNotice
  PROVE  PaidFor'
<1>1. PICK q \in PRs : q = PR
  BY Types DEF PostNotice, Idle
<1>2. /\ pc = "notice" /\ PR' = PR /\ Live /\ Live' /\ faults \in Nat
      /\ notices' = [notices EXCEPT ![q] = notices[q] + 1]
      /\ UNCHANGED <<prReviews, postedComments, inline, summaries>>
      /\ \/ pc' = "saveNotice" /\ faults' = faults
         \/ faults' = faults + 1
  BY <1>1
  DEF PostNotice, Announced, Goto, Return, localVars, ResponseLost, Suffer, Live, PR, Row,
      storeVars, historyVars, TypeOK, HistoryTypeOK
<1>3. DueComments' \subseteq DueComments /\ SummariesDue' \subseteq SummariesDue
  BY <1>2, CommentsAside, SummariesAside
<1>4. ~prReviews[q].budgetNoticePosted
  BY <1>1, <1>2 DEF BudgetInv, SnapshotFresh, NothingPostedTwice, Noticing
<1>5. /\ notices'[q] = notices[q] + 1
      /\ \A p \in PRs : /\ notices[p] \in Nat
                        /\ p # q => notices'[p] = notices[p]
  BY <1>2, Types
<1>6. NoticeOwed(q) \/ notices[q] = 0
  BY <1>2, <1>4, <1>5 DEF NoticeOwed, InHand
<1>7. \A p \in PRs : p # q => (NoticeOwed(p)' => NoticeOwed(p))
  BY <1>2, <1>5 DEF NoticeOwed, InHand
<1>8. CASE pc' = "saveNotice" /\ faults' = faults
  <2>1. ~NoticeOwed(q)'
    BY <1>1, <1>2, <1>8 DEF NoticeOwed, InHand
  <2>2. \A p \in PRs : OneMore(notices[p], NoticeOwed(p), notices'[p], NoticeOwed(p)')
    BY <1>5, <1>6, <1>7, <2>1 DEF OneMore
  <2> QED
    BY <1>2, <1>3, <1>8, <2>2, NoticesKept, Paid
<1>9. CASE faults' = faults + 1
  <2>1. \E x : DueNotices' \subseteq DueNotices \cup {x}
    BY <1>5, <1>6, <1>7, NoticesOneMore
  <2> QED
    BY <1>2, <1>3, <1>9, <2>1, Paid
<1> QED
  BY <1>2, <1>8, <1>9

----------------------------------------------------------------------------
(* What is still to be posted *)

\* The parts about the review in progress, and the part about the summaries.
PostsNothingTwice ==
  /\ pc \in {"post", "record"} => fresh \cap postedComments[PR] = {}
  /\ pc = "record" => \E fp \in Fingerprints \ fresh : cur = {fp}
  /\ pc \in Noticing => ~st.budgetNoticePosted

SummariesUpToPass ==
  \A p \in PRs : \A i \in DOMAIN summaries[p] :
    summaries[p][i].cycle <= prReviews[p].cycle + 1

LEMMA NothingPostedTwiceStep ==
  ASSUME TypeOK, TypeOK', BudgetInv, NothingPostedTwice, [Next]_vars
  PROVE  NothingPostedTwice'
<1> USE DEF Noticing
<1>1. PostsNothingTwice /\ SummariesUpToPass
  BY DEF NothingPostedTwice, PostsNothingTwice, SummariesUpToPass
<1>2. SUFFICES PostsNothingTwice' /\ SummariesUpToPass'
  BY DEF NothingPostedTwice, PostsNothingTwice, SummariesUpToPass
<1>3. ASSUME pc' \notin {"post", "record", "notice", "saveNotice"}
      PROVE  PostsNothingTwice'
  BY <1>3 DEF PostsNothingTwice
<1>4. ASSUME UNCHANGED <<summaries, prReviews>>
      PROVE  SummariesUpToPass'
  BY <1>1, <1>4 DEF SummariesUpToPass
<1>5. CASE QuietStep
  BY <1>3, <1>4, <1>5 DEF QuietStep, dataVars, InUse, Reviewing
<1>6. CASE OtherStep
  <2>1. UNCHANGED <<pc, st, fresh, cur, postedComments>> /\ (pc \notin Idle => PR' = PR)
    BY <1>6 DEF OtherStep, dataVars, PR, Row
  <2>2. PostsNothingTwice'
    BY <1>1, <2>1 DEF PostsNothingTwice, Idle
  <2> QED
    BY <1>4, <1>6, <2>2 DEF OtherStep, dataVars
<1>7. CASE OnwardStep
  <2>1. pc' # "record" /\ pc' \notin Noticing /\ (pc' = "post" => SelectFresh)
    BY <1>7 DEF OnwardStep, Reviewing, PostedAll, Goto
  <2>2. CASE SelectFresh
    <3>1. fresh' \subseteq UnseenFingerprints(PR, found)
      BY <2>2 DEF SelectFresh, Capped
    <3>2. PR' = PR /\ postedComments' = postedComments
      BY <2>2 DEF SelectFresh, storeVars, PR, Row
    <3> QED
      BY <1>4, <1>7, <2>1, <3>1, <3>2
      DEF PostsNothingTwice, UnseenFingerprints, OnwardStep, dataVars
  <2>3. CASE pc' # "post"
    BY <1>3, <1>4, <1>7, <2>1, <2>3 DEF OnwardStep, dataVars
  <2> QED
    BY <2>1, <2>2, <2>3
<1>8. CASE ReadState
  <2>1. /\ pc' = Decision(prReviews[PR]) /\ pc' \notin {"post", "record", "saveNotice"}
        /\ pc' # "succeed" => st' = prReviews[PR]
        /\ UNCHANGED <<summaries, prReviews>>
    BY <1>8 DEF ReadState, Return, Decision, storeVars, forgeVars
  <2>2. pc' = "notice" => ~st'.budgetNoticePosted
    BY <2>1 DEF Decision
  <2>3. PostsNothingTwice'
    BY <2>1, <2>2 DEF PostsNothingTwice
  <2> QED
    BY <1>4, <2>1, <2>3
<1>9. CASE pc = "reset" /\ MustReset /\ NewBudget(PR) /\ Goto("readState")
  <2>1. /\ prReviews' = [prReviews EXCEPT ![PR] = ZeroPRState]
        /\ summaries' = [summaries EXCEPT ![PR] = <<>>] /\ PR \in PRs
    BY <1>9, Types DEF NewBudget, ResetPRState, Idle
  <2>2. /\ summaries'[PR] = <<>>
        /\ \A p \in PRs : p # PR => summaries'[p] = summaries[p]
                                    /\ prReviews'[p] = prReviews[p]
    BY <2>1, Types
  <2>3. SummariesUpToPass'
    BY <1>1, <2>2 DEF SummariesUpToPass
  <2> QED
    BY <1>3, <1>9, <2>3 DEF Goto
<1>10. CASE PostInline
  <2>1. PICK fp \in fresh : /\ fresh' = fresh \ {fp}
                            /\ PostAccepted(fp) \/ PostRejected(fp)
    BY <1>10 DEF PostInline
  <2>2. /\ pc = "post" /\ PR' = PR /\ fp \in Fingerprints
        /\ UNCHANGED <<summaries, prReviews, postedComments>>
        /\ pc' = "post" \/ (pc' = "record" /\ cur' = {fp})
    BY <1>10, <2>1, Types
    DEF PostInline, PostAccepted, PostRejected, Comment, storeVars, forgeVars, PR, Row
  <2>3. PostsNothingTwice'
    BY <1>1, <2>1, <2>2 DEF PostsNothingTwice
  <2> QED
    BY <1>4, <2>2, <2>3
<1>11. CASE Record
  <2>1. /\ pc = "record" /\ pc' = "post" /\ PR' = PR /\ fresh' = fresh /\ PR \in PRs
        /\ UNCHANGED <<summaries, prReviews>>
        /\ \E fp \in cur : postedComments' = [postedComments EXCEPT ![PR] = @ \cup {fp}]
    BY <1>11, Types DEF Record, RecordFingerprint, forgeVars, PR, Row, Idle
  <2>2. fresh' \cap postedComments'[PR] = {}
    BY <1>1, <2>1, Types DEF PostsNothingTwice
  <2>3. PostsNothingTwice'
    BY <2>1, <2>2 DEF PostsNothingTwice
  <2> QED
    BY <1>4, <2>1, <2>3
<1>12. CASE PostSummary \/ SummaryLost
  <2>1. /\ pc = "summary" /\ WriteSummary /\ prReviews' = prReviews
        /\ pc' \in {"saveSummary", "fail"}
    BY <1>12 DEF PostSummary, SummaryLost, Return, storeVars
  <2>2. /\ PR \in PRs /\ Pass = prReviews[PR].cycle + 1
        /\ prReviews[PR].cycle \in Nat
    BY <2>1, Types DEF BudgetInv, SnapshotFresh, Pass, PRRow, Idle
  <2>3. SummariesUpToPass'
    BY <1>1, <2>1, <2>2, WriteEffect DEF SummariesUpToPass
  <2> QED
    BY <1>3, <2>1, <2>3
<1>13. ASSUME NEW row, SavePRState(PR, row), UNCHANGED summaries, PR \in PRs,
              row.cycle \in Nat, prReviews[PR].cycle <= row.cycle
       PROVE  SummariesUpToPass'
  <2>1. /\ prReviews'[PR] = row
        /\ \A p \in PRs : p # PR => prReviews'[p] = prReviews[p]
    BY <1>13, Types DEF SavePRState
  <2>2. \A p \in PRs : /\ prReviews[p].cycle \in Nat
                       /\ \A i \in DOMAIN summaries[p] : summaries[p][i].cycle \in Nat
    <3>1. \A p \in PRs : /\ prReviews[p] \in PRRow
                         /\ \A i \in DOMAIN summaries[p] : summaries[p][i] \in Summary
      BY Types
    <3> QED
      BY <3>1 DEF PRRow, Summary
  <2>3. ASSUME NEW i \in DOMAIN summaries[PR]
        PROVE  summaries[PR][i].cycle <= row.cycle + 1
    <3>1. summaries[PR][i].cycle <= prReviews[PR].cycle + 1
      BY <1>1, <1>13 DEF SummariesUpToPass
    <3> QED
      BY <1>13, <2>2, <3>1
  <2> QED
    BY <1>1, <1>13, <2>1, <2>3 DEF SummariesUpToPass
<1>14. CASE SaveSummary \/ SaveCycle \/ SaveNotice
  <2>1. /\ pc \in {"saveSummary", "saveCycle", "saveNotice"} /\ UNCHANGED summaries
        /\ pc' \in {"saveCycle", "succeed"} /\ PR \in PRs
        /\ st.cycle = prReviews[PR].cycle /\ st.cycle \in Nat
    BY <1>14, Types
    DEF SaveSummary, SaveCycle, SaveNotice, Goto, Return, forgeVars, Idle, BudgetInv,
        SnapshotFresh, PRRow
  <2>2. /\ [st EXCEPT !.cycle = Pass, !.lastReviewedSHA = Row.head].cycle = st.cycle + 1
        /\ [st EXCEPT !.budgetNoticePosted = TRUE].cycle = st.cycle
    BY Types DEF PRRow, Pass
  <2>3. \E row : /\ SavePRState(PR, row)
                 /\ row.cycle \in {st.cycle, st.cycle + 1}
    BY <1>14, <2>2 DEF SaveSummary, SaveCycle, SaveNotice
  <2>4. SummariesUpToPass'
    BY <1>13, <2>1, <2>3
  <2> QED
    BY <1>3, <2>1, <2>4
<1>15. CASE PostNotice
  <2>1. /\ pc = "notice" /\ UNCHANGED <<summaries, prReviews>>
        /\ \/ pc' = "saveNotice" /\ st' = st
           \/ pc' = "fail"
    BY <1>15 DEF PostNotice, Announced, Goto, Return, localVars, storeVars
  <2>2. PostsNothingTwice'
    BY <1>1, <2>1 DEF PostsNothingTwice
  <2> QED
    BY <1>4, <2>1, <2>2
<1> QED
  BY <1>5, <1>6, <1>7, <1>8, <1>9, <1>10, <1>11, <1>12, <1>14, <1>15, DataShapes

----------------------------------------------------------------------------
(* The theorems *)

LEMMA RepeatsInit == Init => RepeatsInv
<1> SUFFICES ASSUME Init PROVE RepeatsInv
  OBVIOUS
<1>1. TypeOK /\ pc = "claim" /\ faults = 0
  BY InitType DEF Init
<1>2. /\ \A p \in PRs, fp \in Fingerprints : inline[p][fp] = 0
      /\ \A p \in PRs : notices[p] = 0 /\ summaries[p] = <<>>
  BY DEF Init
<1>3. DueShape /\ SummariesShape
  BY <1>1, DueTypes, SummariesAre
<1>4. /\ \A p \in PRs, fp \in Fingerprints : CommentsDue[p][fp] = 0
      /\ \A p \in PRs : NoticesDue[p] = 0
  <2>1. ASSUME NEW p \in PRs, NEW fp \in Fingerprints PROVE CommentsDue[p][fp] = 0
    <3>1. ~CommentOwed(p, fp)
      BY <1>2 DEF CommentOwed
    <3> QED
      BY <1>2, <1>3, <3>1 DEF DueShape
  <2>2. ASSUME NEW p \in PRs PROVE NoticesDue[p] = 0
    <3>1. ~NoticeOwed(p)
      BY <1>2 DEF NoticeOwed
    <3> QED
      BY <1>2, <1>3, <3>1 DEF DueShape
  <2> QED
    BY <2>1, <2>2
<1>5. SecondComments(CommentsDue) = {}
  <2>1. \A x : x \notin SecondComments(CommentsDue)
    BY <1>4, SecondCommentsIn
  <2> QED
    BY <2>1
<1>6. SecondNotices(NoticesDue) = {}
  BY <1>4 DEF SecondNotices
<1>7. SummariesDue = {}
  <2>1. \A p \in PRs, n \in Nat : ~SummaryDue(p, n)
    BY <1>2 DEF SummaryDue, SummaryOwed
  <2> QED
    BY <1>3, <2>1 DEF SummariesShape
<1>8. PaidFor
  <2>1. IsFiniteSet({}) /\ Cardinality({}) = 0
    BY FS_EmptySet
  <2> QED
    BY <1>1, <1>5, <1>6, <1>7, <2>1 DEF PaidFor
<1>9. NothingPostedTwice
  BY <1>1, <1>2 DEF NothingPostedTwice, Noticing
<1> QED
  BY <1>8, <1>9 DEF RepeatsInv

LEMMA PaidStep ==
  ASSUME TypeOK, TypeOK', BudgetInv, RepeatsInv, [Next]_vars
  PROVE  PaidFor'
<1>1. PaidFor /\ NothingPostedTwice
  BY DEF RepeatsInv
<1>2. CASE QuietStep
  BY <1>1, <1>2, LetGo DEF QuietStep
<1>3. CASE OtherStep
  <2>1. faults' \in {faults, faults + 1} /\ UNCHANGED dataVars
    BY <1>3 DEF OtherStep, dataVars
  <2> QED
    BY <1>1, <1>3, <2>1, LetGo
<1>4. CASE OnwardStep \/ ReadState
  <2>1. /\ faults' = faults /\ UNCHANGED dataVars
        /\ pc \notin {"record", "saveSummary", "saveNotice"}
    BY <1>4
    DEF OnwardStep, ReadState, dataVars, storeVars, forgeVars, historyVars, Reviewing
  <2> QED
    BY <1>1, <2>1, LetGo
<1>5. CASE pc = "reset" /\ MustReset /\ NewBudget(PR) /\ Goto("readState")
  BY <1>1, <1>5, NewBudgetPaid
<1>6. CASE PostInline \/ Record \/ PostNotice
  BY <1>1, <1>6, PostInlinePaid, RecordPaid, NoticePaid
<1>7. CASE PostSummary \/ SummaryLost \/ SaveSummary \/ SaveCycle \/ SaveNotice
  BY <1>1, <1>7, SummaryPaid, SavePaid
<1> QED
  BY <1>2, <1>3, <1>4, <1>5, <1>6, <1>7, DataShapes

\* Every copy, made or owed, has been paid for by a fault of its own, and what the
\* worker is about to post is not remembered.
THEOREM RepeatsCorrect == Spec => []RepeatsInv
<1>1. TypeOK /\ TypeOK' /\ BudgetInv /\ RepeatsInv /\ [Next]_vars => RepeatsInv'
  <2> SUFFICES ASSUME TypeOK, TypeOK', BudgetInv, RepeatsInv, [Next]_vars
               PROVE  RepeatsInv'
    OBVIOUS
  <2>1. PaidFor'
    BY PaidStep
  <2>2. NothingPostedTwice'
    BY NothingPostedTwiceStep DEF RepeatsInv
  <2> QED
    BY <2>1, <2>2 DEF RepeatsInv
<1> QED
  BY <1>1, RepeatsInit, TypeCorrect, BudgetCorrect, PTL DEF Spec

\* Without a fault nothing is posted twice, and each fault costs one copy at most.
THEOREM RepeatsBounded == Spec => []RepeatsBoundedByFaults
<1>1. TypeOK /\ RepeatsInv => RepeatsBoundedByFaults
  <2> SUFFICES ASSUME TypeOK, RepeatsInv PROVE RepeatsBoundedByFaults
    OBVIOUS
  <2>1. DueShape /\ faults \in Nat
    BY DueTypes DEF TypeOK, HistoryTypeOK
  <2>2. /\ \A p \in PRs : notices[p] <= NoticesDue[p]
        /\ \A p \in PRs, fp \in Fingerprints : inline[p][fp] <= CommentsDue[p][fp]
        /\ notices \in [PRs -> Nat] /\ inline \in [PRs -> [Fingerprints -> Nat]]
    <3>1. ASSUME NEW p \in PRs PROVE notices[p] <= NoticesDue[p]
      BY <2>1, <3>1 DEF DueShape
    <3>2. ASSUME NEW p \in PRs, NEW fp \in Fingerprints
          PROVE  inline[p][fp] <= CommentsDue[p][fp]
      BY <2>1, <3>2 DEF DueShape
    <3> QED
      BY <3>1, <3>2, Types
  <2>3. SecondComments(inline) \subseteq SecondComments(CommentsDue)
    BY <2>1, <2>2, CommentsLess DEF DueShape
  <2>4. SecondNotices(notices) \subseteq SecondNotices(NoticesDue)
    BY <2>1, <2>2, NoticesLess DEF DueShape
  <2>5. SecondSummaries \subseteq SummariesDue
    BY DEF SummariesDue
  <2>6. /\ IsFiniteSet(SecondComments(CommentsDue)) /\ IsFiniteSet(SummariesDue)
        /\ IsFiniteSet(SecondNotices(NoticesDue))
        /\ Cardinality(SecondComments(CommentsDue)) + Cardinality(SummariesDue)
             + Cardinality(SecondNotices(NoticesDue)) <= faults
    BY DEF RepeatsInv, PaidFor
  <2>7. /\ Cardinality(SecondComments(inline)) \in Nat
        /\ Cardinality(SecondComments(CommentsDue)) \in Nat
        /\ Cardinality(SecondComments(inline)) <= Cardinality(SecondComments(CommentsDue))
    BY <2>3, <2>6, NotGrown
  <2>8. /\ Cardinality(SecondNotices(notices)) \in Nat
        /\ Cardinality(SecondNotices(NoticesDue)) \in Nat
        /\ Cardinality(SecondNotices(notices)) <= Cardinality(SecondNotices(NoticesDue))
    BY <2>4, <2>6, NotGrown
  <2>9. /\ Cardinality(SecondSummaries) \in Nat /\ Cardinality(SummariesDue) \in Nat
        /\ Cardinality(SecondSummaries) <= Cardinality(SummariesDue)
    BY <2>5, <2>6, NotGrown
  <2> QED
    BY <2>1, <2>6, <2>7, <2>8, <2>9 DEF RepeatsBoundedByFaults
<1> QED
  BY <1>1, TypeCorrect, RepeatsCorrect, PTL
=============================================================================

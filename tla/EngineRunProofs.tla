-------------------------- MODULE EngineRunProofs --------------------------
(***************************************************************************)
(* Theorems about EngineRun, for every chain, every output, every output   *)
(* cap and every helper a child may start.                                 *)
(***************************************************************************)
EXTENDS EngineRun, OutputProofs

----------------------------------------------------------------------------
(* Lists made from lists *)

\* u has what list has at the given places, in the order of list.
Draws(u, list, places) ==
  /\ \A k \in places : \E m \in DOMAIN u : u[m] = list[k]
  /\ \A m \in DOMAIN u : \E k \in places : u[m] = list[k]
  /\ \A m, n \in DOMAIN u : m < n =>
       \E j, k \in places : j < k /\ u[m] = list[j] /\ u[n] = list[k]

LEMMA DrawOneMore ==
  ASSUME NEW S, NEW u \in Seq(S), NEW list \in Seq(S),
         NEW places \in SUBSET DOMAIN list, Draws(u, list, places),
         NEW n \in DOMAIN list, \A k \in places : k < n
  PROVE  /\ Append(u, list[n]) \in Seq(S)
         /\ Draws(Append(u, list[n]), list, places \cup {n})
<1> DEFINE v == Append(u, list[n])
<1>1. /\ v \in Seq(S) /\ DOMAIN v = DOMAIN u \cup {Len(u) + 1}
      /\ v[Len(u) + 1] = list[n]
      /\ \A m \in DOMAIN u : v[m] = u[m] /\ m \in Nat /\ m < Len(u) + 1
  OBVIOUS
<1> HIDE DEF v
<1>2. ASSUME NEW k \in places \cup {n} PROVE \E m \in DOMAIN v : v[m] = list[k]
  BY <1>1 DEF Draws
<1>3. ASSUME NEW m \in DOMAIN v PROVE \E k \in places \cup {n} : v[m] = list[k]
  BY <1>1 DEF Draws
<1>4. ASSUME NEW l \in DOMAIN v, NEW m \in DOMAIN v, l < m
      PROVE  \E j, k \in places \cup {n} : j < k /\ v[l] = list[j] /\ v[m] = list[k]
  <2>1. l \in DOMAIN u
    BY <1>1, <1>4
  <2>2. CASE m \in DOMAIN u
    <3>1. PICK j, k \in places : j < k /\ u[l] = list[j] /\ u[m] = list[k]
      BY <1>4, <2>1, <2>2 DEF Draws
    <3> QED
      BY <1>1, <2>1, <2>2, <3>1
  <2>3. CASE m \notin DOMAIN u
    <3>1. PICK j \in places : u[l] = list[j]
      BY <2>1 DEF Draws
    <3>2. v[l] = list[j] /\ v[m] = list[n] /\ j < n
      BY <1>1, <2>1, <2>3, <3>1
    <3> QED
      BY <3>2
  <2> QED
    BY <2>2, <2>3
<1>5. Draws(v, list, places \cup {n})
  BY <1>2, <1>3, <1>4 DEF Draws
<1> QED
  BY <1>1, <1>5 DEF v

Upto(places, n) == {k \in places : k <= n}

\* A loop over list that appends the elements at some of the places.
Grows(f, list, places) ==
  /\ f[0] = <<>>
  /\ \A n \in 1..Len(list) :
       f[n] = IF n \in places THEN Append(f[n - 1], list[n]) ELSE f[n - 1]

LEMMA GrownDraws ==
  ASSUME NEW S, NEW list \in Seq(S), NEW places \in SUBSET DOMAIN list, NEW f,
         Grows(f, list, places)
  PROVE  \A n \in 0..Len(list) :
           f[n] \in Seq(S) /\ Draws(f[n], list, Upto(places, n))
<1> DEFINE P == {n \in Nat : n <= Len(list) =>
                               f[n] \in Seq(S) /\ Draws(f[n], list, Upto(places, n))}
<1>1. 0 \in P
  <2>1. f[0] = <<>> /\ Upto(places, 0) = {}
    BY DEF Grows, Upto
  <2>2. Draws(<<>>, list, {})
    BY DEF Draws
  <2>3. <<>> \in Seq(S)
    OBVIOUS
  <2> QED
    BY <2>1, <2>2, <2>3
<1>2. ASSUME NEW n \in Nat, n \in P PROVE n + 1 \in P
  <2> SUFFICES ASSUME n + 1 <= Len(list)
               PROVE  f[n + 1] \in Seq(S) /\ Draws(f[n + 1], list, Upto(places, n + 1))
    OBVIOUS
  <2>1. f[n] \in Seq(S) /\ Draws(f[n], list, Upto(places, n))
    BY <1>2
  <2>2. n + 1 \in DOMAIN list /\ n + 1 \in 1..Len(list) /\ (n + 1) - 1 = n
    OBVIOUS
  <2>3. f[n + 1] = IF n + 1 \in places THEN Append(f[n], list[n + 1]) ELSE f[n]
    BY <2>2 DEF Grows
  <2>4. CASE n + 1 \in places
    <3>1. /\ Upto(places, n + 1) = Upto(places, n) \cup {n + 1}
          /\ \A k \in Upto(places, n) : k < n + 1
      BY <2>4 DEF Upto
    <3>2. Upto(places, n) \in SUBSET DOMAIN list
      BY DEF Upto
    <3> DEFINE u == f[n]
               m == n + 1
               before == Upto(places, n)
    <3>3. /\ u \in Seq(S) /\ Draws(u, list, before) /\ before \in SUBSET DOMAIN list
          /\ m \in DOMAIN list /\ \A k \in before : k < m
      BY <2>1, <2>2, <3>1, <3>2
    <3> HIDE DEF u, m, before
    <3>4. /\ Append(u, list[m]) \in Seq(S)
          /\ Draws(Append(u, list[m]), list, before \cup {m})
      BY <3>3, DrawOneMore
    <3> QED
      BY <2>3, <2>4, <3>1, <3>4 DEF u, m, before
  <2>5. CASE n + 1 \notin places
    <3>1. Upto(places, n + 1) = Upto(places, n)
      BY <2>5 DEF Upto
    <3> QED
      BY <2>1, <2>3, <2>5, <3>1
  <2> QED
    BY <2>4, <2>5
<1> HIDE DEF P
<1>3. \A n \in Nat : n \in P
  BY <1>1, <1>2, SetInduction
<1>4. \A n \in Nat : n <= Len(list) => f[n] \in Seq(S) /\ Draws(f[n], list, Upto(places, n))
  BY <1>3 DEF P
<1> QED
  BY <1>4

LEMMA GrownWhole ==
  ASSUME NEW S, NEW list \in Seq(S), NEW places \in SUBSET DOMAIN list, NEW f,
         Grows(f, list, places)
  PROVE  f[Len(list)] \in Seq(S) /\ Draws(f[Len(list)], list, places)
<1>1. Upto(places, Len(list)) = places /\ Len(list) \in 0..Len(list)
  BY DEF Upto
<1> QED
  BY <1>1, GrownDraws

Loops(f, list, chosen) ==
  f = [n \in 0..Len(list) |->
         IF n = 0 THEN <<>>
         ELSE IF <<f[n - 1], n>> \in chosen THEN Append(f[n - 1], list[n])
                                             ELSE f[n - 1]]

\* There is such a loop, whatever it makes its choices by.
LEMMA LoopExists ==
  ASSUME NEW S, NEW list \in Seq(S), NEW chosen \in SUBSET (Seq(S) \X Nat)
  PROVE  \E f \in [0..Len(list) -> Seq(S)] : Loops(f, list, chosen)
<1> DEFINE D == Seq(S)
           T == [p \in D \X Nat |-> IF p \in chosen /\ p[2] \in DOMAIN list
                                    THEN Append(p[1], list[p[2]]) ELSE p[1]]
<1>1. <<>> \in D /\ Len(list) \in Nat
  OBVIOUS
<1>2. T \in [D \X Nat -> D]
  <2>1. ASSUME NEW p \in D \X Nat PROVE T[p] \in D
    <3>1. CASE p[2] \in DOMAIN list
      <4>1. list[p[2]] \in S
        BY <3>1
      <4>2. Append(p[1], list[p[2]]) \in Seq(S)
        BY <4>1
      <4> QED
        BY <4>2
    <3>2. CASE p[2] \notin DOMAIN list
      BY <3>2
    <3> QED
      BY <3>1, <3>2
  <2> QED
    BY <2>1
<1> HIDE DEF T, D
<1>3. PICK f : Iterates(f, Len(list), D, <<>>, T)
  BY <1>1, <1>2, Iteration
<1>4. /\ f \in [0..Len(list) -> D] /\ f[0] = <<>>
      /\ \A n \in 1..Len(list) : f[n] = T[<<f[n - 1], n>>]
  BY <1>3 DEF Iterates
<1>5. ASSUME NEW n \in 0..Len(list)
      PROVE  f[n] = IF n = 0 THEN <<>>
                    ELSE IF <<f[n - 1], n>> \in chosen
                         THEN Append(f[n - 1], list[n]) ELSE f[n - 1]
  <2>1. CASE n = 0
    BY <1>4, <2>1
  <2>2. CASE n # 0
    <3>1. n \in 1..Len(list) /\ n \in DOMAIN list /\ n \in Nat /\ f[n - 1] \in D
      BY <1>4, <2>2
    <3>2. T[<<f[n - 1], n>>] = IF <<f[n - 1], n>> \in chosen
                               THEN Append(f[n - 1], list[n]) ELSE f[n - 1]
      BY <3>1 DEF T
    <3> QED
      BY <1>4, <2>2, <3>1, <3>2
  <2> QED
    BY <2>1, <2>2
<1> QED
  BY <1>4, <1>5 DEF D, Loops

LEMMA ElementsDrawn ==
  ASSUME NEW S, NEW list \in Seq(S), NEW places \in SUBSET DOMAIN list
  PROVE  /\ ElementsAt(list, places) \in Seq(S)
         /\ Draws(ElementsAt(list, places), list, places)
<1> DEFINE Body(f) == [n \in 0..Len(list) |->
                         IF n = 0 THEN <<>>
                         ELSE IF n \in places THEN Append(f[n - 1], list[n])
                                              ELSE f[n - 1]]
           chosen == {p \in Seq(S) \X Nat : p[2] \in places}
<1>1. \E f : f = Body(f)
  <2>1. PICK f \in [0..Len(list) -> Seq(S)] : Loops(f, list, chosen)
    <3>1. chosen \in SUBSET (Seq(S) \X Nat)
      OBVIOUS
    <3> HIDE DEF chosen
    <3> QED
      BY <3>1, LoopExists
  <2>2. ASSUME NEW n \in 0..Len(list), n # 0
        PROVE  <<f[n - 1], n>> \in chosen <=> n \in places
    OBVIOUS
  <2>3. f = Body(f)
    <3> HIDE DEF chosen
    <3> QED
      BY <2>1, <2>2 DEF Loops
  <2> QED
    BY <2>3
<1> DEFINE g == CHOOSE f : f = Body(f)
<1>2. ElementsAt(list, places) = g[Len(list)]
  BY DEF ElementsAt
<1>3. g = Body(g)
  <2> HIDE DEF Body
  <2> QED
    BY <1>1
<1>4. Grows(g, list, places)
  <2> HIDE DEF g
  <2>1. g[0] = <<>>
    BY <1>3
  <2>2. ASSUME NEW n \in 1..Len(list)
        PROVE  g[n] = IF n \in places THEN Append(g[n - 1], list[n]) ELSE g[n - 1]
    <3>1. n \in 0..Len(list) /\ n # 0
      OBVIOUS
    <3> QED
      BY <1>3, <3>1, Zenon
  <2> QED
    BY <2>1, <2>2 DEF Grows
<1> HIDE DEF g
<1> QED
  BY <1>2, <1>4, GrownWhole

----------------------------------------------------------------------------
(* From the decoded list to the comments *)

\* The places of the findings that stand for their fingerprints.
Firsts(list) ==
  {k \in DOMAIN list :
     /\ Qualifies(list[k])
     /\ \A j \in 1..(k - 1) : list[j].fp = list[k].fp => ~Qualifies(list[j])}

LEMMA FirstStands ==
  ASSUME NEW S, NEW list \in Seq(S), NEW n \in DOMAIN list, Qualifies(list[n])
  PROVE  \E m \in Firsts(list) : m <= n /\ list[m].fp = list[n].fp
<1> DEFINE same == {k \in 1..n : list[k].fp = list[n].fp /\ Qualifies(list[k])}
<1>1. n \in 1..Len(list)
  OBVIOUS
<1>2. PICK m \in same : \A k \in same : m <= k
  <2>1. same \in SUBSET Nat /\ n \in same
    BY <1>1
  <2> HIDE DEF same
  <2> QED
    BY <2>1, Least
<1>3. m \in DOMAIN list /\ m \in 1..n
  BY <1>1
<1>4. \A k \in 1..(m - 1) : list[k].fp = list[m].fp => ~Qualifies(list[k])
  <2> SUFFICES ASSUME NEW k \in 1..(m - 1), list[k].fp = list[m].fp,
                      Qualifies(list[k])
               PROVE  FALSE
    OBVIOUS
  <2>1. k \in 1..n /\ ~(m <= k)
    BY <1>1, <1>3
  <2> QED
    BY <1>2, <2>1
<1> QED
  BY <1>2, <1>3, <1>4 DEF Firsts

LEMMA CandidatesDrawn ==
  ASSUME NEW S, NEW list \in Seq(S)
  PROVE  /\ Candidates(list) \in Seq(S)
         /\ Draws(Candidates(list), list, Firsts(list))
<1> DEFINE New(before, n) ==
             AtLeast(list[n].severity) /\ ~Mentions(before, list[n].fp)
           Body(f) == [n \in 0..Len(list) |->
                         IF n = 0 THEN <<>>
                         ELSE IF New(f[n - 1], n) THEN Append(f[n - 1], list[n])
                                                  ELSE f[n - 1]]
           chosen == {p \in Seq(S) \X Nat : New(p[1], p[2])}
<1>1. \E f : f = Body(f)
  <2>1. PICK f \in [0..Len(list) -> Seq(S)] : Loops(f, list, chosen)
    <3>1. chosen \in SUBSET (Seq(S) \X Nat)
      OBVIOUS
    <3> HIDE DEF chosen
    <3> QED
      BY <3>1, LoopExists
  <2>2. ASSUME NEW n \in 0..Len(list), n # 0
        PROVE  <<f[n - 1], n>> \in chosen <=> New(f[n - 1], n)
    <3>1. f[n - 1] \in Seq(S) /\ n \in Nat
      BY <2>2
    <3> HIDE DEF New
    <3> QED
      BY <3>1
  <2>3. f = Body(f)
    <3> HIDE DEF chosen, New
    <3> QED
      BY <2>1, <2>2 DEF Loops
  <2> QED
    BY <2>3
<1> DEFINE g == CHOOSE f : f = Body(f)
<1>2. Candidates(list) = g[Len(list)]
  BY DEF Candidates
<1>3. g = Body(g)
  <2> HIDE DEF Body
  <2> QED
    BY <1>1
<1> DEFINE taken == {n \in DOMAIN list : New(g[n - 1], n)}
<1>4. Grows(g, list, taken)
  <2> HIDE DEF g, New
  <2>1. g[0] = <<>>
    BY <1>3
  <2>2. ASSUME NEW n \in 1..Len(list)
        PROVE  g[n] = IF n \in taken THEN Append(g[n - 1], list[n]) ELSE g[n - 1]
    <3>1. n \in 0..Len(list) /\ n # 0 /\ n \in DOMAIN list
      OBVIOUS
    <3>2. n \in taken <=> New(g[n - 1], n)
      BY <3>1
    <3> HIDE DEF taken
    <3> QED
      BY <1>3, <3>1, <3>2, Zenon
  <2> QED
    BY <2>1, <2>2 DEF Grows
<1>5. ASSUME NEW n \in DOMAIN list
      PROVE  n \in taken <=>
               /\ Qualifies(list[n])
               /\ \A k \in taken : k < n => list[k].fp # list[n].fp
  <2>1. n - 1 \in 0..Len(list) /\ taken \in SUBSET DOMAIN list
    OBVIOUS
  <2>2. Draws(g[n - 1], list, Upto(taken, n - 1))
    <3> HIDE DEF g, taken
    <3> QED
      BY <1>4, <2>1, GrownDraws
  <2>3. n \in taken <=> Qualifies(list[n]) /\ ~Mentions(g[n - 1], list[n].fp)
    <3> HIDE DEF g
    <3> QED
      BY DEF Qualifies
  <2>4. Mentions(g[n - 1], list[n].fp) <=>
          \E k \in Upto(taken, n - 1) : list[k].fp = list[n].fp
    <3> HIDE DEF g, taken
    <3> QED
      BY <2>2 DEF Mentions, Draws
  <2>5. \A k \in taken : k \in Upto(taken, n - 1) <=> k < n
    <3> HIDE DEF taken
    <3> QED
      BY <2>1 DEF Upto
  <2>6. Upto(taken, n - 1) \subseteq taken
    BY DEF Upto
  <2> HIDE DEF taken, g
  <2> QED
    BY <2>3, <2>4, <2>5, <2>6
<1>6. taken \in SUBSET DOMAIN list
  OBVIOUS
<1> HIDE DEF g, taken
<1>7. \A k \in taken : Qualifies(list[k])
  BY <1>5, <1>6
<1>8. Firsts(list) \subseteq taken
  <2> SUFFICES ASSUME NEW n \in Firsts(list) PROVE n \in taken
    OBVIOUS
  <2>1. /\ n \in DOMAIN list /\ Qualifies(list[n])
        /\ \A j \in 1..(n - 1) : list[j].fp = list[n].fp => ~Qualifies(list[j])
    BY DEF Firsts
  <2>2. \A k \in taken : k < n => k \in 1..(n - 1)
    BY <1>6, <2>1
  <2> QED
    BY <1>5, <1>7, <2>1, <2>2
<1>9. taken \subseteq Firsts(list)
  <2> SUFFICES ASSUME NEW n \in taken, NEW j \in 1..(n - 1),
                      list[j].fp = list[n].fp, Qualifies(list[j])
               PROVE  FALSE
    BY <1>6, <1>7 DEF Firsts
  <2>1. n \in 1..Len(list)
    BY <1>6
  <2>2. PICK m \in Firsts(list) : m <= j /\ list[m].fp = list[j].fp
    <3>1. j \in DOMAIN list
      BY <2>1
    <3> QED
      BY <3>1, FirstStands
  <2>3. m \in DOMAIN list /\ m < n
    BY <2>1, <2>2 DEF Firsts
  <2> QED
    BY <1>5, <1>6, <1>8, <2>2, <2>3
<1>10. taken = Firsts(list)
  BY <1>8, <1>9
<1> QED
  BY <1>2, <1>4, <1>6, <1>10, GrownWhole

Elements(u) == {u[k] : k \in DOMAIN u}

\* Place, for any list.
FirstOf(list, fp) ==
  CHOOSE k \in DOMAIN list :
    /\ list[k].fp = fp /\ Qualifies(list[k])
    /\ \A j \in 1..(k - 1) : list[j].fp = fp => ~Qualifies(list[j])

LEMMA FirstIsPlace ==
  ASSUME NEW list \in Seq(Graded), NEW k \in Firsts(list)
  PROVE  k \in Nat /\ FirstOf(list, list[k].fp) = k
<1> DEFINE fp == list[k].fp
           Earliest(m) == /\ list[m].fp = fp /\ Qualifies(list[m])
                        /\ \A j \in 1..(m - 1) : list[j].fp = fp => ~Qualifies(list[j])
<1>1. k \in DOMAIN list /\ k \in 1..Len(list) /\ Earliest(k)
  BY DEF Firsts
<1>2. ASSUME NEW m \in DOMAIN list, Earliest(m) PROVE m = k
  <2>1. m \in 1..Len(list)
    OBVIOUS
  <2>2. CASE m < k
    <3>1. m \in 1..(k - 1)
      BY <1>1, <2>1, <2>2
    <3> QED
      BY <1>1, <1>2, <3>1
  <2>3. CASE k < m
    <3>1. k \in 1..(m - 1)
      BY <1>1, <2>1, <2>3
    <3> QED
      BY <1>1, <1>2, <3>1
  <2> QED
    BY <1>1, <2>1, <2>2, <2>3
<1>3. FirstOf(list, fp) = CHOOSE m \in DOMAIN list : Earliest(m)
  BY DEF FirstOf
<1> HIDE DEF Earliest
<1>4. (CHOOSE m \in DOMAIN list : Earliest(m)) = k
  BY <1>1, <1>2
<1> QED
  BY <1>1, <1>3, <1>4

\* The engine's order, and the order of the comments.
InOrder(u, list) ==
  \A j, k \in DOMAIN u : j < k => FirstOf(list, u[j].fp) < FirstOf(list, u[k].fp)

Precedes(e, f, list) ==
  \/ Rank[e.severity] > Rank[f.severity]
  \/ e.severity = f.severity /\ FirstOf(list, e.fp) < FirstOf(list, f.fp)

Sorted(u, list) == \A j, k \in DOMAIN u : j < k => Precedes(u[j], u[k], list)

LEMMA DrawsElements ==
  ASSUME NEW u, NEW v, NEW places \in SUBSET DOMAIN v, Draws(u, v, places)
  PROVE  Elements(u) = {v[k] : k \in places}
  BY DEF Draws, Elements

LEMMA DrawsInOrder ==
  ASSUME NEW u, NEW v, NEW places \in SUBSET DOMAIN v, Draws(u, v, places), NEW list,
         InOrder(v, list)
  PROVE  InOrder(u, list)
<1> SUFFICES ASSUME NEW m \in DOMAIN u, NEW n \in DOMAIN u, m < n
             PROVE  FirstOf(list, u[m].fp) < FirstOf(list, u[n].fp)
  BY DEF InOrder
<1>1. PICK j, k \in places : j < k /\ u[m] = v[j] /\ u[n] = v[k]
  BY DEF Draws
<1> QED
  BY <1>1 DEF InOrder

\* The elements of two lists in one.
LEMMA Joined ==
  ASSUME NEW S, NEW u \in Seq(S), NEW v \in Seq(S)
  PROVE  /\ u \o v \in Seq(S) /\ Len(u \o v) = Len(u) + Len(v)
         /\ \A k \in 1..Len(u) : (u \o v)[k] = u[k]
         /\ \A k \in 1..Len(u \o v) : k > Len(u) => (u \o v)[k] = v[k - Len(u)]
  OBVIOUS

LEMMA JoinedElements ==
  ASSUME NEW S, NEW u \in Seq(S), NEW v \in Seq(S)
  PROVE  /\ u \o v \in Seq(S)
         /\ Elements(u \o v) = Elements(u) \cup Elements(v)
<1> DEFINE w == u \o v
<1>1. /\ w \in Seq(S) /\ Len(w) = Len(u) + Len(v)
      /\ \A k \in 1..Len(u) : w[k] = u[k]
      /\ \A k \in 1..Len(w) : k > Len(u) => w[k] = v[k - Len(u)]
  BY Joined
<1> HIDE DEF w
<1>2. ASSUME NEW k \in DOMAIN w PROVE w[k] \in Elements(u) \cup Elements(v)
  <2>1. CASE k \in 1..Len(u)
    BY <1>1, <2>1 DEF Elements
  <2>2. CASE k > Len(u)
    <3>1. k - Len(u) \in DOMAIN v /\ w[k] = v[k - Len(u)]
      BY <1>1, <2>2
    <3> QED
      BY <3>1 DEF Elements
  <2>3. k \in 1..Len(u) \/ k > Len(u)
    BY <1>1
  <2> QED
    BY <2>1, <2>2, <2>3
<1>3. ASSUME NEW k \in DOMAIN u PROVE u[k] \in Elements(w)
  <2>1. k \in DOMAIN w /\ w[k] = u[k]
    BY <1>1
  <2> QED
    BY <2>1 DEF Elements
<1>4. ASSUME NEW k \in DOMAIN v PROVE v[k] \in Elements(w)
  <2>1. /\ k + Len(u) \in DOMAIN w /\ k + Len(u) > Len(u)
        /\ (k + Len(u)) - Len(u) = k
    BY <1>1
  <2>2. w[k + Len(u)] = v[k]
    BY <1>1, <2>1
  <2> QED
    BY <2>1, <2>2 DEF Elements
<1>5. Elements(w) = Elements(u) \cup Elements(v)
  BY <1>2, <1>3, <1>4 DEF Elements
<1> QED
  BY <1>1, <1>5 DEF w

\* Lists of falling severity are joined.
LEMMA JoinedSorted ==
  ASSUME NEW u \in Seq(Graded), NEW v \in Seq(Graded), NEW list,
         Sorted(u, list), Sorted(v, list),
         \A e \in Elements(u), f \in Elements(v) : Rank[e.severity] > Rank[f.severity]
  PROVE  Sorted(u \o v, list)
<1> DEFINE w == u \o v
<1>1. /\ w \in Seq(Graded) /\ Len(w) = Len(u) + Len(v)
      /\ \A k \in 1..Len(u) : w[k] = u[k]
      /\ \A k \in 1..Len(w) : k > Len(u) => w[k] = v[k - Len(u)]
  BY Joined
<1> HIDE DEF w
<1>2. ASSUME NEW j \in DOMAIN w, NEW k \in DOMAIN w, j < k
      PROVE  Precedes(w[j], w[k], list)
  <2>1. j \in 1..Len(w) /\ k \in 1..Len(w) /\ Len(u) \in Nat /\ Len(v) \in Nat
    BY <1>1
  <2>2. CASE k <= Len(u)
    <3>1. j \in DOMAIN u /\ k \in DOMAIN u /\ w[j] = u[j] /\ w[k] = u[k]
      BY <1>1, <1>2, <2>1, <2>2
    <3> QED
      BY <1>2, <3>1 DEF Sorted
  <2>3. CASE j <= Len(u) /\ k > Len(u)
    <3>1. /\ j \in DOMAIN u /\ w[j] = u[j]
          /\ k - Len(u) \in DOMAIN v /\ w[k] = v[k - Len(u)]
      BY <1>1, <2>1, <2>3
    <3> QED
      BY <3>1 DEF Elements, Precedes
  <2>4. CASE j > Len(u)
    <3>1. /\ j - Len(u) \in DOMAIN v /\ w[j] = v[j - Len(u)]
          /\ k - Len(u) \in DOMAIN v /\ w[k] = v[k - Len(u)]
          /\ j - Len(u) < k - Len(u)
      BY <1>1, <1>2, <2>1, <2>4
    <3> QED
      BY <3>1 DEF Sorted
  <2> QED
    BY <1>2, <2>1, <2>2, <2>3, <2>4
<1> QED
  BY <1>2 DEF Sorted, w

LEMMA RankedSorted ==
  ASSUME NEW list, NEW u \in Seq(Graded), InOrder(u, list), NEW severity
  PROVE  LET ranked == ElementsAt(u, {k \in DOMAIN u : u[k].severity = severity}) IN
           /\ ranked \in Seq(Graded)
           /\ Sorted(ranked, list)
           /\ Elements(ranked) = {e \in Elements(u) : e.severity = severity}
<1> DEFINE places == {k \in DOMAIN u : u[k].severity = severity}
           ranked == ElementsAt(u, places)
<1>1. places \in SUBSET DOMAIN u
  OBVIOUS
<1>2. ranked \in Seq(Graded) /\ Draws(ranked, u, places)
  <2> HIDE DEF places
  <2> QED
    BY <1>1, ElementsDrawn
<1>3. InOrder(ranked, list)
  <2> HIDE DEF places, ranked
  <2> QED
    BY <1>1, <1>2, DrawsInOrder
<1>4. Elements(ranked) = {u[k] : k \in places}
  <2> HIDE DEF places, ranked
  <2> QED
    BY <1>1, <1>2, DrawsElements
<1>5. Elements(ranked) = {e \in Elements(u) : e.severity = severity}
  <2> HIDE DEF ranked
  <2> QED
    BY <1>4 DEF Elements
<1>6. \A k \in DOMAIN ranked : ranked[k].severity = severity
  <2> HIDE DEF ranked
  <2> QED
    BY <1>5 DEF Elements
<1>7. Sorted(ranked, list)
  <2> HIDE DEF ranked
  <2> QED
    BY <1>3, <1>6 DEF Sorted, InOrder, Precedes
<1> QED
  BY <1>2, <1>5, <1>7

LEMMA SeveritiesAre == Severities = {"critical", "major", "minor", "nit"}
  BY DEF Severities, Rank

LEMMA BySeveritySorted ==
  ASSUME NEW list, NEW u \in Seq(Graded), InOrder(u, list)
  PROVE  /\ BySeverity(u) \in Seq(Graded)
         /\ Sorted(BySeverity(u), list)
         /\ Elements(BySeverity(u)) = Elements(u)
<1> DEFINE Ranked(severity) ==
             ElementsAt(u, {k \in DOMAIN u : u[k].severity = severity})
           Of(severity) == {e \in Elements(u) : e.severity = severity}
           worst == Ranked("critical")
           major == Ranked("major")
           minor == Ranked("minor")
           nits == Ranked("nit")
<1>1. \A severity : /\ Ranked(severity) \in Seq(Graded)
                    /\ Sorted(Ranked(severity), list)
                    /\ Elements(Ranked(severity)) = Of(severity)
  BY RankedSorted
<1>2. BySeverity(u) = worst \o major \o minor \o nits
  BY DEF BySeverity
<1> HIDE DEF Ranked
<1>3. /\ worst \in Seq(Graded) /\ Sorted(worst, list) /\ Elements(worst) = Of("critical")
      /\ major \in Seq(Graded) /\ Sorted(major, list) /\ Elements(major) = Of("major")
      /\ minor \in Seq(Graded) /\ Sorted(minor, list) /\ Elements(minor) = Of("minor")
      /\ nits \in Seq(Graded) /\ Sorted(nits, list) /\ Elements(nits) = Of("nit")
  BY <1>1
<1> HIDE DEF worst, major, minor, nits
<1>4. /\ Rank["nit"] = 0 /\ Rank["minor"] = 1 /\ Rank["major"] = 2
      /\ Rank["critical"] = 3
  BY DEF Rank
<1>5. /\ worst \o major \in Seq(Graded) /\ Sorted(worst \o major, list)
      /\ Elements(worst \o major) = Of("critical") \cup Of("major")
  <2>1. \A e \in Elements(worst), f \in Elements(major) : Rank[e.severity] > Rank[f.severity]
    BY <1>3, <1>4
  <2> HIDE DEF Of
  <2> QED
    BY <1>3, <2>1, JoinedElements, JoinedSorted
<1>6. /\ (worst \o major) \o minor \in Seq(Graded) /\ Sorted((worst \o major) \o minor, list)
      /\ Elements((worst \o major) \o minor) = Of("critical") \cup Of("major") \cup Of("minor")
  <2> DEFINE two == worst \o major
  <2>1. \A e \in Elements(two), f \in Elements(minor) : Rank[e.severity] > Rank[f.severity]
    BY <1>3, <1>4, <1>5
  <2>2. two \in Seq(Graded) /\ Sorted(two, list)
        /\ Elements(two) = Of("critical") \cup Of("major")
    BY <1>5
  <2> HIDE DEF Of, two
  <2>3. /\ two \o minor \in Seq(Graded) /\ Sorted(two \o minor, list)
        /\ Elements(two \o minor) = Of("critical") \cup Of("major") \cup Of("minor")
    BY <1>3, <2>1, <2>2, JoinedElements, JoinedSorted
  <2> QED
    BY <2>3 DEF two
<1>7. /\ ((worst \o major) \o minor) \o nits \in Seq(Graded)
      /\ Sorted(((worst \o major) \o minor) \o nits, list)
      /\ Elements(((worst \o major) \o minor) \o nits)
           = Of("critical") \cup Of("major") \cup Of("minor") \cup Of("nit")
  <2> DEFINE three == (worst \o major) \o minor
  <2>1. \A e \in Elements(three), f \in Elements(nits) : Rank[e.severity] > Rank[f.severity]
    BY <1>3, <1>4, <1>6
  <2>2. three \in Seq(Graded) /\ Sorted(three, list)
        /\ Elements(three) = Of("critical") \cup Of("major") \cup Of("minor")
    BY <1>6
  <2> HIDE DEF Of, three
  <2>3. /\ three \o nits \in Seq(Graded) /\ Sorted(three \o nits, list)
        /\ Elements(three \o nits)
             = Of("critical") \cup Of("major") \cup Of("minor") \cup Of("nit")
    BY <1>3, <2>1, <2>2, JoinedElements, JoinedSorted
  <2> QED
    BY <2>3 DEF three
<1>8. Of("critical") \cup Of("major") \cup Of("minor") \cup Of("nit") = Elements(u)
  <2>1. \A e \in Elements(u) : e \in Graded
    BY DEF Elements
  <2>2. \A e \in Elements(u) : e.severity \in {"critical", "major", "minor", "nit"}
    BY <2>1, SeveritiesAre DEF Graded
  <2> QED
    BY <2>2
<1> HIDE DEF Of
<1> QED
  BY <1>2, <1>7, <1>8

\* All that is left after the bar, the dedup and the posts of earlier passes, in
\* the order of the comments.
LEMMA FreshCorrect ==
  ASSUME NEW list \in Seq(Graded), NEW posted
  PROVE  /\ Fresh(list, posted) \in Seq(Graded)
         /\ Sorted(Fresh(list, posted), list)
         /\ Elements(Fresh(list, posted))
              = {list[k] : k \in {m \in Firsts(list) : list[m].fp \notin posted}}
<1> DEFINE c == Candidates(list)
           places == {k \in DOMAIN c : c[k].fp \notin posted}
           u == Unseen(c, posted)
<1>1. c \in Seq(Graded) /\ Draws(c, list, Firsts(list))
  BY CandidatesDrawn
<1>2. Firsts(list) \in SUBSET DOMAIN list
  BY DEF Firsts
<1>3. InOrder(c, list)
  <2> HIDE DEF c
  <2> SUFFICES ASSUME NEW m \in DOMAIN c, NEW n \in DOMAIN c, m < n
               PROVE  FirstOf(list, c[m].fp) < FirstOf(list, c[n].fp)
    BY DEF InOrder
  <2>1. PICK j, k \in Firsts(list) : j < k /\ c[m] = list[j] /\ c[n] = list[k]
    BY <1>1 DEF Draws
  <2> QED
    BY <2>1, FirstIsPlace
<1>4. Elements(c) = {list[k] : k \in Firsts(list)}
  <2> HIDE DEF c
  <2> QED
    BY <1>1, <1>2, DrawsElements
<1>5. u \in Seq(Graded) /\ Draws(u, c, places)
  <2>1. places \in SUBSET DOMAIN c
    OBVIOUS
  <2>2. u = ElementsAt(c, places)
    BY DEF Unseen
  <2> HIDE DEF c, u, places
  <2> QED
    BY <1>1, <2>1, <2>2, ElementsDrawn
<1>6. InOrder(u, list) /\ Elements(u) = {c[k] : k \in places}
  <2>1. places \in SUBSET DOMAIN c
    OBVIOUS
  <2> HIDE DEF c, u, places
  <2> QED
    BY <1>3, <1>5, <2>1, DrawsInOrder, DrawsElements
<1>7. Elements(u) = {list[k] : k \in {m \in Firsts(list) : list[m].fp \notin posted}}
  <2>1. Elements(u) = {e \in Elements(c) : e.fp \notin posted}
    <3> HIDE DEF c, u
    <3> QED
      BY <1>6 DEF Elements
  <2> HIDE DEF c, u
  <2> QED
    BY <1>4, <2>1
<1>8. Fresh(list, posted) = BySeverity(u)
  BY DEF Fresh
<1> HIDE DEF c, u
<1> QED
  BY <1>5, <1>6, <1>7, <1>8, BySeveritySorted

LEMMA ParsedGraded ==
  ASSUME NEW list \in Seq(Finding)
  PROVE  Parsed(list) \in Seq(Graded)
<1> DEFINE places == {k \in DOMAIN list : list[k].anchored}
           kept == ElementsAt(list, places)
<1>1. kept \in Seq(Finding)
  <2>1. places \in SUBSET DOMAIN list
    OBVIOUS
  <2> HIDE DEF places
  <2> QED
    BY <2>1, ElementsDrawn
<1>2. \A f \in Finding : Degraded(f) \in Graded
  <2> SUFFICES ASSUME NEW f \in Finding PROVE Degraded(f) \in Graded
    OBVIOUS
  <2>1. CASE f.severity \in Severities
    BY <2>1 DEF Finding, Graded, Degraded
  <2>2. CASE f.severity \notin Severities
    BY <2>2, SeveritiesAre DEF Finding, Graded, Degraded
  <2> QED
    BY <2>1, <2>2
<1>3. Parsed(list) = [k \in DOMAIN kept |-> Degraded(kept[k])]
  BY DEF Parsed
<1> HIDE DEF kept
<1>4. [k \in DOMAIN kept |-> Degraded(kept[k])] \in Seq(Graded)
  <2> DEFINE graded == [k \in 1..Len(kept) |-> Degraded(kept[k])]
  <2>1. graded \in [1..Len(kept) -> Graded] /\ Len(kept) \in Nat
    BY <1>1, <1>2
  <2>2. DOMAIN kept = 1..Len(kept)
    BY <1>1
  <2> HIDE DEF graded
  <2>3. graded \in Seq(Graded)
    BY <2>1
  <2> QED
    BY <2>2, <2>3 DEF graded
<1> QED
  BY <1>3, <1>4

LEMMA CutInTwo ==
  ASSUME NEW S, NEW s \in Seq(S), NEW c \in 0..Len(s)
  PROVE  SubSeq(s, 1, c) \o SubSeq(s, c + 1, Len(s)) = s
<1> DEFINE u == SubSeq(s, 1, c)
           v == SubSeq(s, c + 1, Len(s))
           w == u \o v
<1>1. u \in Seq(S) /\ Len(u) = c /\ \A k \in 1..c : u[k] = s[k]
  OBVIOUS
<1>2. /\ v \in Seq(S) /\ Len(v) = Len(s) - c
      /\ \A k \in 1..(Len(s) - c) : v[k] = s[c + k]
  OBVIOUS
<1> HIDE DEF u, v
<1>3. /\ w \in Seq(S) /\ Len(w) = Len(u) + Len(v)
      /\ \A k \in 1..Len(u) : w[k] = u[k]
      /\ \A k \in 1..Len(w) : k > Len(u) => w[k] = v[k - Len(u)]
  BY <1>1, <1>2, Joined
<1> HIDE DEF w
<1>4. Len(w) = Len(s)
  BY <1>1, <1>2, <1>3
<1>5. ASSUME NEW k \in 1..Len(s) PROVE w[k] = s[k]
  <2>1. CASE k <= c
    BY <1>1, <1>3, <2>1
  <2>2. CASE k > c
    <3>1. k - c \in 1..(Len(s) - c) /\ c + (k - c) = k
      BY <2>2
    <3> QED
      BY <1>1, <1>2, <1>3, <1>4, <2>2, <3>1
  <2> QED
    BY <2>1, <2>2
<1>6. w = s
  BY <1>3, <1>4, <1>5
<1> QED
  BY <1>6 DEF w, u, v

\* The cap cuts the list in two and loses nothing of it.
LEMMA CutByCap ==
  ASSUME NEW list \in Seq(Graded), NEW posted
  PROVE  /\ Tried(list, posted) \in Seq(Graded)
         /\ OverCap(list, posted) \in Seq(Graded)
         /\ Tried(list, posted) \o OverCap(list, posted) = Fresh(list, posted)
         /\ OverCap(list, posted) # <<>> => Len(Tried(list, posted)) = MaxComments
<1> DEFINE all == Fresh(list, posted)
           c == Cap(Len(all))
<1>1. all \in Seq(Graded) /\ Len(all) \in Nat
  BY FreshCorrect
<1>2. c \in 0..Len(all) /\ (c # Len(all) => c = MaxComments)
  <2> HIDE DEF all
  <2> QED
    BY <1>1, SelectionAssumption DEF Cap
<1>3. Tried(list, posted) = SubSeq(all, 1, c)
  BY DEF Tried
<1>4. OverCap(list, posted) = SubSeq(all, c + 1, Len(all))
  BY DEF OverCap
<1> HIDE DEF all, c
<1>5. /\ SubSeq(all, 1, c) \in Seq(Graded) /\ Len(SubSeq(all, 1, c)) = c
      /\ SubSeq(all, c + 1, Len(all)) \in Seq(Graded)
      /\ Len(SubSeq(all, c + 1, Len(all))) = Len(all) - c
  BY <1>1, <1>2
<1>6. SubSeq(all, 1, c) \o SubSeq(all, c + 1, Len(all)) = all
  BY <1>1, <1>2, CutInTwo
<1>7. SubSeq(all, c + 1, Len(all)) # <<>> => c = MaxComments
  <2>1. c = Len(all) => SubSeq(all, c + 1, Len(all)) = <<>>
    BY <1>1
  <2> QED
    BY <1>2, <2>1
<1>8. Fresh(list, posted) = all
  BY DEF all
<1> QED
  BY <1>3, <1>4, <1>5, <1>6, <1>7, <1>8

----------------------------------------------------------------------------
(* The findings of a review *)

ResultTypeOK ==
  /\ findings \in Seq(Graded) /\ tried \in Seq(Graded) /\ overCap \in Seq(Graded)
  /\ seen \subseteq Fingerprints

\* Nothing is selected before the review has returned, and only from a review.
SelectionInv ==
  /\ ResultTypeOK
  /\ rpc = "select" => outcome = "ok"
  /\ rpc = "returned" /\ outcome = "ok" =>
       tried = Tried(findings, seen) /\ overCap = OverCap(findings, seen)
  /\ ~(rpc = "returned" /\ outcome = "ok") => tried = <<>> /\ overCap = <<>>

LEMMA SelectionInit == Init => SelectionInv
<1>1. <<>> \in Seq(Graded) /\ {} \subseteq Fingerprints
  OBVIOUS
<1> QED
  BY <1>1 DEF Init, NoResult, SelectionInv, ResultTypeOK

LEMMA SelectionKept ==
  ASSUME SelectionInv, [Next]_vars
  PROVE  SelectionInv'
<1>1. /\ findings \in Seq(Graded) /\ tried \in Seq(Graded) /\ overCap \in Seq(Graded)
      /\ seen \subseteq Fingerprints /\ <<>> \in Seq(Graded)
  BY DEF SelectionInv, ResultTypeOK
<1>2. CASE \/ ChildExits \/ ChildSpawns \/ HelperExits \/ WaitReturns
           \/ Timer \/ Cancel \/ UNCHANGED vars
  <2>1. UNCHANGED <<rpc, outcome, findings, seen, tried, overCap>>
    BY <1>2 DEF ChildExits, ChildSpawns, HelperExits, WaitReturns, Timer, Cancel,
                Elsewhere, vars, resultVars
  <2> QED
    BY <2>1 DEF SelectionInv, ResultTypeOK
<1>3. CASE \/ Start \/ SelectExit \/ SelectTimeout \/ Kill \/ Reap
           \/ ParseStep \/ Decode \/ NextEngine
  <2>1. /\ rpc \notin {"select", "returned"} /\ rpc' \notin {"select", "returned"}
        /\ UNCHANGED <<findings, seen, tried, overCap>>
    BY <1>3 DEF Start, SelectExit, Classify, SelectTimeout, Kill, Reap, ParseStep,
                Decode, NextEngine, resultVars
  <2> QED
    BY <2>1 DEF SelectionInv, ResultTypeOK
<1>4. CASE GiveUp
  <2>1. /\ rpc = "chain" /\ rpc' = "returned" /\ outcome' # "ok"
        /\ UNCHANGED <<findings, seen, tried, overCap>>
    BY <1>4 DEF GiveUp, resultVars
  <2> QED
    BY <2>1 DEF SelectionInv, ResultTypeOK
<1>5. CASE Succeed
  <2>1. PICK list \in Lists \cup {<<>>} : findings' = Parsed(list)
    BY <1>5 DEF Succeed
  <2>2. list \in Seq(Finding)
    <3>1. <<>> \in Seq(Finding)
      OBVIOUS
    <3> QED
      BY <3>1, EngineAssumption
  <2>3. findings' \in Seq(Graded)
    BY <2>1, <2>2, ParsedGraded
  <2>4. /\ rpc = "chain" /\ rpc' = "select" /\ outcome' = "ok"
        /\ UNCHANGED <<seen, tried, overCap>>
    BY <1>5 DEF Succeed
  <2> QED
    BY <2>3, <2>4 DEF SelectionInv, ResultTypeOK
<1>6. CASE Select
  <2>1. /\ rpc = "select" /\ rpc' = "returned" /\ outcome' = outcome
        /\ findings' = findings /\ seen' \in Seen
        /\ tried' = Tried(findings, seen') /\ overCap' = OverCap(findings, seen')
    BY <1>6 DEF Select
  <2>2. outcome = "ok" /\ seen' \subseteq Fingerprints
    BY <2>1, EngineAssumption DEF SelectionInv
  <2>3. tried' \in Seq(Graded) /\ overCap' \in Seq(Graded)
    BY <1>1, <2>1, CutByCap
  <2> QED
    BY <1>1, <2>1, <2>2, <2>3 DEF SelectionInv, ResultTypeOK
<1>7. CASE Again
  <2>1. /\ rpc' = "start"
        /\ findings' = <<>> /\ seen' = {} /\ tried' = <<>> /\ overCap' = <<>>
    BY <1>7 DEF Again
  <2> QED
    BY <1>1, <2>1 DEF SelectionInv, ResultTypeOK
<1> QED
  BY <1>2, <1>3, <1>4, <1>5, <1>6, <1>7 DEF Next, ReviewStep

\* What is commented and what is cut off come from the selection, whatever list
\* an engine delivers and whatever was posted before.
THEOREM SelectionCorrect == Spec => []SelectionInv
<1>1. SelectionInv /\ [Next]_vars => SelectionInv'
  BY SelectionKept
<1> QED
  BY <1>1, SelectionInit, PTL DEF Spec

LEMMA AllIsFresh ==
  ASSUME SelectionInv
  PROVE  LET all == tried \o overCap IN
           /\ all \in Seq(Graded)
           /\ rpc = "returned" => Sorted(all, findings)
           /\ (rpc = "returned" /\ outcome = "ok") =>
                /\ Elements(all) = {findings[k] : k \in {m \in Firsts(findings) :
                                                         findings[m].fp \notin seen}}
                /\ overCap # <<>> => Len(tried) = MaxComments
<1>1. findings \in Seq(Graded)
  BY DEF SelectionInv, ResultTypeOK
<1>2. CASE rpc = "returned" /\ outcome = "ok"
  <2>1. tried = Tried(findings, seen) /\ overCap = OverCap(findings, seen)
    BY <1>2 DEF SelectionInv
  <2>2. tried \o overCap = Fresh(findings, seen)
    BY <1>1, <2>1, CutByCap
  <2> QED
    BY <1>1, <2>1, <2>2, FreshCorrect, CutByCap
<1>3. CASE ~(rpc = "returned" /\ outcome = "ok")
  <2>1. tried \o overCap = <<>>
    BY <1>3 DEF SelectionInv
  <2>2. <<>> \in Seq(Graded) /\ Sorted(<<>>, findings)
    BY DEF Sorted
  <2> QED
    BY <1>3, <2>1, <2>2
<1> QED
  BY <1>2, <1>3

\* The comments come in the order of their severity, the engine's among equals,
\* and so does what the cap leaves over.
THEOREM SevereCommentedFirst == Spec => []SevereFirst
<1>1. SelectionInv => SevereFirst
  <2> SUFFICES ASSUME SelectionInv, rpc = "returned" PROVE SevereFirst
    BY DEF SevereFirst
  <2> DEFINE all == tried \o overCap
  <2>1. Sorted(all, findings)
    BY AllIsFresh
  <2>2. \A fp : FirstOf(findings, fp) = Place(fp)
    BY DEF FirstOf, Place
  <2> HIDE DEF all
  <2>3. \A j, k \in DOMAIN all : j < k =>
          \/ Rank[all[j].severity] > Rank[all[k].severity]
          \/ /\ all[j].severity = all[k].severity
             /\ Place(all[j].fp) < Place(all[k].fp)
    BY <2>1, <2>2 DEF Sorted, Precedes
  <2> QED
    BY <2>3 DEF SevereFirst, all
<1> QED
  BY <1>1, SelectionCorrect, PTL

\* Each fingerprint mentioned at or above the bar is posted earlier, tried now or
\* left to the summary, once, in the form of its first such mention; and a cap
\* that leaves something over was used up by new findings.
THEOREM FindingsPlaced == Spec => []EveryFindingPlaced
<1>1. SelectionInv => EveryFindingPlaced
  <2> SUFFICES ASSUME SelectionInv, rpc = "returned", outcome = "ok"
               PROVE  EveryFindingPlaced
    BY DEF EveryFindingPlaced
  <2> DEFINE all == tried \o overCap
             fresh == {m \in Firsts(findings) : findings[m].fp \notin seen}
             mentioned == {findings[k].fp : k \in {j \in DOMAIN findings :
                                                     Qualifies(findings[j])}}
  <2>1. findings \in Seq(Graded)
    BY DEF SelectionInv, ResultTypeOK
  <2>2. /\ all \in Seq(Graded) /\ Sorted(all, findings)
        /\ Elements(all) = {findings[k] : k \in fresh}
        /\ overCap # <<>> => Len(tried) = MaxComments
    BY AllIsFresh
  <2>3. \A fp : FirstOf(findings, fp) = Place(fp)
    BY DEF FirstOf, Place
  <2>4. mentioned = {findings[k].fp : k \in Firsts(findings)}
    <3>1. ASSUME NEW j \in DOMAIN findings, Qualifies(findings[j])
          PROVE  \E k \in Firsts(findings) : findings[k].fp = findings[j].fp
      BY <2>1, <3>1, FirstStands
    <3>2. ASSUME NEW k \in Firsts(findings)
          PROVE  k \in DOMAIN findings /\ Qualifies(findings[k])
      BY DEF Firsts
    <3> QED
      BY <3>1, <3>2
  <2> HIDE DEF all, mentioned
  <2>5. {all[k].fp : k \in DOMAIN all} = mentioned \ seen
    <3>1. {all[k].fp : k \in DOMAIN all} = {e.fp : e \in Elements(all)}
      BY DEF Elements
    <3>2. {e.fp : e \in Elements(all)} = {findings[k].fp : k \in fresh}
      BY <2>2
    <3>3. {findings[k].fp : k \in fresh} = {findings[k].fp : k \in Firsts(findings)} \ seen
      OBVIOUS
    <3> QED
      BY <2>4, <3>1, <3>2, <3>3
  <2>6. \A k \in DOMAIN all : all[k] = findings[Place(all[k].fp)]
    <3> SUFFICES ASSUME NEW k \in DOMAIN all
                 PROVE  all[k] = findings[Place(all[k].fp)]
      OBVIOUS
    <3>1. PICK m \in Firsts(findings) : all[k] = findings[m]
      BY <2>2 DEF Elements
    <3> QED
      BY <2>1, <2>3, <3>1, FirstIsPlace
  <2>7. \A k \in DOMAIN all : Place(all[k].fp) \in Nat
    <3> SUFFICES ASSUME NEW k \in DOMAIN all PROVE Place(all[k].fp) \in Nat
      OBVIOUS
    <3>1. PICK m \in Firsts(findings) : all[k] = findings[m]
      BY <2>2 DEF Elements
    <3> QED
      BY <2>1, <2>3, <3>1, FirstIsPlace
  <2>8. ASSUME NEW j \in DOMAIN all, NEW k \in DOMAIN all, all[j].fp = all[k].fp
        PROVE  j = k
    <3>1. all[j] = all[k]
      BY <2>6, <2>8
    <3>2. \A s \in Severities : ~(Rank[s] > Rank[s])
      BY SeveritiesAre DEF Rank
    <3>3. all[j].severity \in Severities /\ j \in Int /\ k \in Int
      <4>1. all[j] \in Graded /\ j \in Int /\ k \in Int
        BY <2>2
      <4> QED
        BY <4>1 DEF Graded
    <3>4. ~Precedes(all[j], all[j], findings)
      BY <2>3, <2>7, <3>2, <3>3 DEF Precedes
    <3>5. ~(j < k) /\ ~(k < j)
      BY <2>2, <3>1, <3>4 DEF Sorted
    <3> QED
      BY <3>3, <3>5
  <2> QED
    BY <2>2, <2>5, <2>6, <2>8 DEF EveryFindingPlaced, all, mentioned
<1> QED
  BY <1>1, SelectionCorrect, PTL

----------------------------------------------------------------------------
(* The run *)

\* What is captured is a text again.
LEMMA CapturedText ==
  ASSUME NEW t \in Outputs
  PROVE  Captured(t) \in Seq(Tokens)
<1>1. t \in Seq(Tokens) /\ MaxOutput \in Nat
  BY EngineAssumption
<1>2. CASE Len(t) <= MaxOutput
  BY <1>1, <1>2 DEF Captured
<1>3. CASE ~(Len(t) <= MaxOutput)
  <2>1. MaxOutput <= Len(t)
    BY <1>1, <1>3
  <2>2. SubSeq(t, 1, MaxOutput) \in Seq(Tokens)
    BY <1>1, <2>1
  <2> QED
    BY <1>3, <2>2 DEF Captured
<1> QED
  BY <1>2, <1>3

\* Type correctness of what is not the scan's.
RunTypeOK ==
  /\ rpc \in {"start", "running", "grace", "reap", "parse", "chain", "select",
              "returned"}
  /\ engine \in 1..Engines
  /\ child \in {"none", "alive", "exit0", "exit1"}
  /\ helper \in Helpers \cup {NoHelper}
  /\ ctx \in {"live", "cancelled"}
  /\ took \in {"none", "exit", "timeout"}
  /\ outcome \in {"none", "ok", "limited", "failed", "undecodable"}

RunFlags == waited \in BOOLEAN /\ expired \in BOOLEAN

LEMMA RunTypes ==
  /\ TypeOK => RunTypeOK /\ RunFlags /\ ScanTypeOK
  /\ RunTypeOK /\ RunFlags /\ ScanTypeOK /\ ResultTypeOK => TypeOK
  BY Zenon DEF TypeOK, RunTypeOK, RunFlags, ResultTypeOK

\* A run that has timed out is over, and a new one has taken nothing yet.
GroupInv ==
  /\ TimedOutGroupDead
  /\ rpc \in {"start", "running"} => took = "none"

EngineInv == RunTypeOK /\ RunFlags /\ OutputInv /\ GroupInv

LEMMA EngineInit == Init => EngineInv
<1> SUFFICES ASSUME Init PROVE EngineInv
  OBVIOUS
<1>1. RunTypeOK
  BY EngineAssumption DEF Init, NoProcess, RunTypeOK
<1>2. RunFlags
  BY Zenon DEF Init, NoProcess, RunFlags
<1>3. GroupInv
  BY DEF Init, GroupInv, TimedOutGroupDead
<1> QED
  BY <1>1, <1>2, <1>3, ScanOffReads DEF Init, EngineInv

\* What the child, its helpers, the clock and a stop do.
LEMMA ElsewhereKeeps ==
  ASSUME EngineInv,
         \/ ChildExits \/ ChildSpawns \/ HelperExits \/ WaitReturns
         \/ Timer \/ Cancel
  PROVE  EngineInv'
<1>1. RunTypeOK /\ RunFlags /\ GroupInv /\ OutputInv
  BY DEF EngineInv
<1>2. UNCHANGED <<scanVars, rpc, engine, took, outcome>>
  BY DEF ChildExits, ChildSpawns, HelperExits, WaitReturns, Timer, Cancel, Elsewhere
<1>3. OutputInv'
  BY <1>1, <1>2, ReadsFrame
<1>4. RunFlags'
  BY <1>1, Zenon
     DEF RunFlags, ChildExits, ChildSpawns, HelperExits, WaitReturns, Timer, Cancel
<1>5. RunTypeOK'
  BY <1>1, <1>2
     DEF RunTypeOK, ChildExits, ChildSpawns, HelperExits, WaitReturns, Timer, Cancel
<1>6. /\ child' = "alive" => child = "alive"
      /\ helper' = helper \/ helper' = NoHelper \/ child = "alive"
  BY DEF ChildExits, ChildSpawns, HelperExits, WaitReturns, Timer, Cancel
<1>7. GroupInv'
  BY <1>1, <1>2, <1>6 DEF GroupInv, TimedOutGroupDead, NoHelper
<1> QED
  BY <1>3, <1>4, <1>5, <1>7 DEF EngineInv

\* The steps between the start of an engine and the outcome of its run.
LEMMA RunKeeps ==
  ASSUME EngineInv, Start \/ SelectExit \/ SelectTimeout \/ Kill \/ Reap
  PROVE  EngineInv'
<1>1. RunTypeOK /\ RunFlags /\ GroupInv /\ OutputInv
  BY DEF EngineInv
<1>2. RunFlags'
  BY <1>1, Zenon
     DEF RunFlags, Start, SelectExit, SelectTimeout, Kill, Reap, processVars
<1>3. CASE Start
  <2>1. OutputInv'
    BY <1>1, <1>3, ReadsFrame DEF Start
  <2>2. RunTypeOK' /\ GroupInv'
    BY <1>1, <1>3 DEF Start, RunTypeOK, GroupInv, TimedOutGroupDead
  <2> QED
    BY <1>2, <2>1, <2>2 DEF EngineInv
<1>4. CASE SelectExit
  <2>1. PICK t \in Outputs, signal \in BOOLEAN : Classify(Captured(t), signal)
    BY <1>4, Zenon DEF SelectExit
  <2>2. Captured(t) \in Seq(Tokens) /\ <<>> \in Seq(Tokens)
    BY CapturedText
  <2>3. \/ /\ rpc' = "chain" /\ outcome' \in {"limited", "failed"}
           /\ \/ ResetScan(<<>>, "off", 0)
              \/ ResetScan(Captured(t), "off", 0)
        \/ rpc' = "parse" /\ outcome' = outcome /\ BeginScan(Captured(t))
    BY <2>1, Zenon DEF Classify
  <2>4. OutputInv'
    BY <2>2, <2>3, OffReads, BeginReads
  <2>5. took' = "exit" /\ UNCHANGED <<engine, child, helper, ctx>>
    BY <1>4 DEF SelectExit, processVars
  <2>6. RunTypeOK' /\ GroupInv'
    BY <1>1, <2>3, <2>5 DEF RunTypeOK, GroupInv, TimedOutGroupDead
  <2> QED
    BY <1>2, <2>4, <2>6 DEF EngineInv
<1>5. CASE SelectTimeout
  <2>1. OutputInv'
    BY <1>1, <1>5, ReadsFrame DEF SelectTimeout
  <2>2. /\ took' = "timeout" /\ rpc' = "grace"
        /\ UNCHANGED <<engine, child, helper, ctx, outcome>>
    BY <1>5 DEF SelectTimeout, processVars
  <2>3. RunTypeOK' /\ GroupInv'
    BY <1>1, <2>2 DEF RunTypeOK, GroupInv, TimedOutGroupDead
  <2> QED
    BY <1>2, <2>1, <2>3 DEF EngineInv
<1>6. CASE Kill
  <2>1. OutputInv'
    BY <1>1, <1>6, ReadsFrame DEF Kill
  <2>2. /\ rpc' = "reap" /\ UNCHANGED <<engine, ctx, took, outcome>>
        /\ child' = IF child = "alive" THEN "exit1" ELSE child
        /\ helper' = IF helper.where = "group" THEN NoHelper ELSE helper
    BY <1>6 DEF Kill
  <2>3. child' # "alive" /\ helper'.where # "group"
    BY <2>2 DEF NoHelper
  <2>4. RunTypeOK' /\ GroupInv'
    BY <1>1, <2>2, <2>3 DEF RunTypeOK, GroupInv, TimedOutGroupDead
  <2> QED
    BY <1>2, <2>1, <2>4 DEF EngineInv
<1>7. CASE Reap
  <2>1. OutputInv'
    BY <1>1, <1>7, ReadsFrame DEF Reap
  <2>2. /\ rpc = "reap" /\ rpc' = "chain" /\ outcome' \in {"limited", "failed"}
        /\ UNCHANGED <<engine, child, helper, ctx, took>>
    BY <1>7 DEF Reap, processVars
  <2>3. RunTypeOK' /\ GroupInv'
    BY <1>1, <2>2 DEF RunTypeOK, GroupInv, TimedOutGroupDead
  <2> QED
    BY <1>2, <2>1, <2>3 DEF EngineInv
<1> QED
  BY <1>3, <1>4, <1>5, <1>6, <1>7

\* A new run begins, or the last one is put away.
LEMMA FreshKeeps ==
  ASSUME EngineInv, ResetScan(<<>>, "off", 0),
         rpc' \in {"start", "select"}, engine' \in 1..Engines,
         child' = "none", helper' = NoHelper, waited' = FALSE, expired' = FALSE,
         ctx' \in {"live", "cancelled"}, took' = "none",
         outcome' \in {"none", "ok"}
  PROVE  EngineInv'
<1>1. <<>> \in Seq(Tokens)
  OBVIOUS
<1>2. OutputInv'
  BY <1>1, OffReads
<1>3. RunFlags'
  BY Zenon DEF RunFlags
<1>4. RunTypeOK' /\ GroupInv'
  BY DEF RunTypeOK, GroupInv, TimedOutGroupDead
<1> QED
  BY <1>2, <1>3, <1>4 DEF EngineInv

\* Parsing, the chain and what follows.
LEMMA ChainKeeps ==
  ASSUME EngineInv,
         \/ ParseStep \/ Decode \/ NextEngine \/ GiveUp \/ Succeed \/ Select
         \/ Again
  PROVE  EngineInv'
<1>1. RunTypeOK /\ RunFlags /\ GroupInv /\ OutputInv
  BY DEF EngineInv
<1>2. CASE ParseStep
  <2>1. OutputInv'
    BY <1>1, <1>2, ScanReads DEF ParseStep
  <2>2. RunFlags'
    BY <1>1, <1>2, Zenon DEF RunFlags, ParseStep, processVars
  <2>3. RunTypeOK' /\ GroupInv'
    BY <1>1, <1>2 DEF ParseStep, processVars, RunTypeOK, GroupInv, TimedOutGroupDead
  <2> QED
    BY <2>1, <2>2, <2>3 DEF EngineInv
<1>3. CASE Decode \/ GiveUp \/ Select
  <2>1. OutputInv'
    BY <1>1, <1>3, ReadsFrame DEF Decode, GiveUp, Select
  <2>2. RunFlags'
    BY <1>1, <1>3, Zenon DEF RunFlags, Decode, GiveUp, Select, processVars
  <2>3. /\ rpc \in {"parse", "chain", "select"} /\ rpc' \in {"chain", "returned"}
        /\ outcome' \in {outcome, "ok", "undecodable"}
        /\ UNCHANGED <<engine, child, helper, ctx, took>>
    BY <1>3 DEF Decode, GiveUp, Select, processVars
  <2>4. RunTypeOK' /\ GroupInv'
    BY <1>1, <2>3 DEF RunTypeOK, GroupInv, TimedOutGroupDead
  <2> QED
    BY <2>1, <2>2, <2>4 DEF EngineInv
<1>4. CASE NextEngine
  <2>1. engine' \in 1..Engines
    BY <1>1, <1>4, EngineAssumption DEF NextEngine, RunTypeOK
  <2> QED
    BY <1>1, <1>4, <2>1, FreshKeeps DEF NextEngine, RunTypeOK
<1>5. CASE Succeed
  <2>1. 1 \in 1..Engines
    BY EngineAssumption
  <2> QED
    BY <1>1, <1>5, <2>1, FreshKeeps DEF Succeed, RunTypeOK
<1>6. CASE Again
  <2>1. 1 \in 1..Engines
    BY EngineAssumption
  <2> QED
    BY <1>6, <2>1, FreshKeeps DEF Again
<1> QED
  BY <1>2, <1>3, <1>4, <1>5, <1>6

LEMMA EngineFrame == EngineInv /\ UNCHANGED vars => EngineInv'
<1> SUFFICES ASSUME EngineInv, UNCHANGED vars PROVE EngineInv'
  OBVIOUS
<1>1. RunTypeOK /\ RunFlags /\ GroupInv /\ OutputInv
  BY DEF EngineInv
<1>2. OutputInv'
  BY <1>1, ReadsFrame DEF vars
<1>3. RunFlags'
  BY <1>1, Zenon DEF RunFlags, vars, processVars
<1>4. RunTypeOK' /\ GroupInv'
  BY <1>1 DEF vars, processVars, RunTypeOK, GroupInv, TimedOutGroupDead
<1> QED
  BY <1>2, <1>3, <1>4 DEF EngineInv

\* The invariant of a review.
THEOREM EngineCorrect == Spec => []EngineInv
<1>1. Init => EngineInv
  BY EngineInit
<1>2. EngineInv /\ [Next]_vars => EngineInv'
  BY ElsewhereKeeps, RunKeeps, ChainKeeps, EngineFrame DEF Next, ReviewStep
<1> QED
  BY <1>1, <1>2, PTL DEF Spec

\* No output and no order of exits, timers and stops takes a variable out of its
\* type: the scan stays within the text, the chain within its engines.
THEOREM TypeCorrect == Spec => []TypeOK
<1>1. EngineInv /\ SelectionInv => TypeOK
  BY RunTypes DEF EngineInv, OutputInv, ScanInv, SelectionInv
<1> QED
  BY <1>1, EngineCorrect, SelectionCorrect, PTL

\* After a timeout nobody of the process group is left, whatever the child and
\* its helpers did before and during the grace period.
THEOREM NoGroupLeft == Spec => []TimedOutGroupDead
<1>1. EngineInv => TimedOutGroupDead
  BY DEF EngineInv, GroupInv
<1> QED
  BY <1>1, EngineCorrect, PTL

\* What is decoded is a valid JSON object that stands in the captured output,
\* whatever was printed and wherever it was cut off, and it quotes a key of the
\* contract if any object was taken that does.
DecodesAnObject ==
  spc = "decode" =>
    /\ ObjectAt(Extracted)
    /\ lastPayload # NoSpan => IsPayload(Span(text, Extracted))

THEOREM DecodedIsObject == Spec => []DecodesAnObject
<1>1. EngineInv => DecodesAnObject
  BY DEF EngineInv, OutputInv, ScanInv, Taken, DecodesAnObject, Extracted
<1> QED
  BY <1>1, EngineCorrect, PTL

\* For every output: what is decoded is its last object that has a key of the
\* contract, its last object if none has one, or an object behind the last of
\* these that quotes a key without having it; an output without any object is an
\* error.  What stands around these or in their strings, braces that mislead the
\* scan and a cut do not change it.
THEOREM ReviewFound == Spec => []ExtractsLastPayload
<1>1. EngineInv => ExtractsLastPayload
  BY DEF EngineInv, OutputInv
<1> QED
  BY <1>1, EngineCorrect, PTL

----------------------------------------------------------------------------
(* What is reported of a run *)

\* The exit the worker sees is that of a child that has exited, and of a child
\* that exited well only an output without findings is passed over.
ReportInv ==
  /\ rpc = "start" => child = "none"
  /\ waited = TRUE => child \in {"exit0", "exit1"}
  /\ rpc \in {"grace", "reap"} => took = "timeout"
  /\ took = "exit" => child \in {"exit0", "exit1"}
  /\ (rpc = "chain" /\ took = "exit" /\ child = "exit0") =>
       \/ outcome \in {"ok", "undecodable"} /\ spc \in {"decode", "error"}
       \/ ~HasQuoted(text, "findings")

LEMMA ReportInit == Init => ReportInv
  BY DEF Init, NoProcess, ReportInv

LEMMA ReportElsewhere ==
  ASSUME EngineInv, ReportInv,
         \/ ChildExits \/ ChildSpawns \/ HelperExits \/ WaitReturns
         \/ Timer \/ Cancel
  PROVE  ReportInv'
<1>1. UNCHANGED <<text, spc, rpc, took, outcome>>
  BY DEF ChildExits, ChildSpawns, HelperExits, WaitReturns, Timer, Cancel, Elsewhere,
         scanVars
<1>2. CASE ChildExits
  BY <1>1, <1>2 DEF ChildExits, ReportInv
<1>3. CASE WaitReturns
  BY <1>1, <1>3 DEF WaitReturns, ReportInv
<1>4. CASE ChildSpawns \/ HelperExits \/ Timer \/ Cancel
  <2>1. child' = child /\ waited' = waited
    BY <1>4 DEF ChildSpawns, HelperExits, Timer, Cancel
  <2> QED
    BY <1>1, <2>1 DEF ReportInv
<1> QED
  BY <1>2, <1>3, <1>4

LEMMA ReportStep ==
  ASSUME EngineInv, ReportInv, ReviewStep \/ Again
  PROVE  ReportInv'
<1>1. rpc \in {"start", "running"} => took = "none"
  BY DEF EngineInv, GroupInv
<1>2. CASE Start
  <2>1. /\ rpc' \in {"running", "chain"} /\ took' = took /\ waited' = waited
        /\ child' \in {"alive", child}
        /\ rpc = "start"
    BY <1>2 DEF Start
  <2>2. child = "none" /\ took = "none"
    BY <1>1, <2>1 DEF ReportInv
  <2>3. ~(waited = TRUE)
    BY <2>2 DEF ReportInv
  <2> QED
    BY <2>1, <2>2, <2>3 DEF ReportInv
<1>3. CASE SelectExit
  <2>1. /\ waited = TRUE /\ took' = "exit" /\ child' = child /\ waited' = waited
    <3>1. waited
      BY <1>3 DEF SelectExit
    <3>2. waited \in BOOLEAN
      BY Zenon DEF EngineInv, RunFlags
    <3>3. waited = TRUE
      BY <3>1, <3>2, Zenon
    <3> QED
      BY <1>3, <3>3 DEF SelectExit, processVars
  <2>2. PICK t \in Outputs, signal \in BOOLEAN : Classify(Captured(t), signal)
    BY <1>3, Zenon DEF SelectExit
  <2>3. child \in {"exit0", "exit1"}
    BY <2>1 DEF ReportInv
  <2>4. \/ rpc' = "chain" /\ child = "exit1"
        \/ rpc' = "chain" /\ text' = Captured(t) /\ ~HasQuoted(Captured(t), "findings")
        \/ rpc' = "parse"
    BY <2>2, Zenon DEF Classify, ResetScan
  <2> QED
    BY <2>1, <2>3, <2>4 DEF ReportInv
<1>4. CASE SelectTimeout
  <2>1. took' = "timeout" /\ rpc' = "grace" /\ child' = child /\ waited' = waited
    BY <1>4 DEF SelectTimeout, processVars
  <2> QED
    BY <2>1 DEF ReportInv
<1>5. CASE Kill
  <2>1. /\ rpc = "grace" /\ rpc' = "reap" /\ took' = took /\ waited' = waited
        /\ child' = IF child = "alive" THEN "exit1" ELSE child
    BY <1>5 DEF Kill
  <2> QED
    BY <2>1 DEF ReportInv
<1>6. CASE Reap
  <2>1. /\ rpc = "reap" /\ rpc' = "chain" /\ took' = took /\ waited' = waited
        /\ child' = child
    BY <1>6 DEF Reap, processVars
  <2> QED
    BY <2>1 DEF ReportInv
<1>7. CASE ParseStep \/ GiveUp \/ Select
  <2>1. /\ rpc' \in {"parse", "returned"} /\ took' = took /\ waited' = waited
        /\ child' = child
    BY <1>7 DEF ParseStep, GiveUp, Select, processVars
  <2> QED
    BY <2>1 DEF ReportInv
<1>8. CASE Decode
  <2>1. /\ rpc' = "chain" /\ took' = took /\ waited' = waited /\ child' = child
        /\ outcome' \in {"ok", "undecodable"} /\ spc' \in {"decode", "error"}
    BY <1>8 DEF Decode, processVars, scanVars
  <2> QED
    BY <2>1 DEF ReportInv
<1>9. CASE NextEngine \/ Succeed \/ Again
  <2>1. /\ child' = "none" /\ took' = "none" /\ rpc' \in {"start", "select"}
    BY <1>9 DEF NextEngine, Succeed, Again
  <2>2. ~(waited' = TRUE)
    BY <1>9, Zenon DEF NextEngine, Succeed, Again
  <2> QED
    BY <2>1, <2>2 DEF ReportInv
<1> QED
  BY <1>2, <1>3, <1>4, <1>5, <1>6, <1>7, <1>8, <1>9 DEF ReviewStep

LEMMA ReportFrame == ReportInv /\ UNCHANGED vars => ReportInv'
  BY DEF vars, scanVars, processVars, ReportInv

THEOREM ReportCorrect == Spec => []ReportInv
<1>1. Init => ReportInv
  BY ReportInit
<1>2. EngineInv /\ ReportInv /\ [Next]_vars => ReportInv'
  BY ReportElsewhere, ReportStep, ReportFrame DEF Next
<1> QED
  BY <1>1, <1>2, EngineCorrect, PTL DEF Spec

\* For every output, every cut and every order of exit, timer and stop: of a child
\* that exited well and was seen to, the last object with a key of the contract,
\* if it has findings and no object behind it quotes a key it does not have, is
\* what the scan hands to the decoder, and the next engine is not asked.
THEOREM DeliveredIsUsed == Spec => []AnswerUsed
<1>1. EngineInv /\ ReportInv => AnswerUsed
  <2> SUFFICES ASSUME EngineInv, ReportInv,
                      rpc = "chain", took = "exit", child = "exit0",
                      Review(text) # NoSpan,
                      HasField(Span(text, Review(text)), "findings"),
                      Misleading(text) = {}
               PROVE  /\ spc = "decode" /\ Extracted = Review(text)
                      /\ outcome \in {"ok", "undecodable"}
    BY DEF AnswerUsed
  <2>1. text \in Seq(Tokens)
    BY ScanTypes DEF EngineInv, OutputInv, ScanInv, Places
  <2>2. Review(text) \in Objects(text)
    BY <2>1, ReviewIsObject
  <2>3. HasQuoted(Span(text, Review(text)), "findings")
    BY DEF HasField, HasQuoted
  <2>4. HasQuoted(text, "findings")
    BY <2>1, <2>2, <2>3, QuotedInSpan
  <2>5. outcome \in {"ok", "undecodable"} /\ spc \in {"decode", "error"}
    BY <2>4 DEF ReportInv
  <2>6. ExtractsLastPayload
    BY DEF EngineInv, OutputInv
  <2>7. spc = "decode"
    BY <2>5, <2>6 DEF ExtractsLastPayload
  <2> QED
    BY <2>5, <2>6, <2>7 DEF ExtractsLastPayload
<1> QED
  BY <1>1, EngineCorrect, ReportCorrect, PTL
=============================================================================

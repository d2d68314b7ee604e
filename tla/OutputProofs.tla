---------------------------- MODULE OutputProofs ----------------------------
(***************************************************************************)
(* Theorems about the parser of EngineOutput, for every text.              *)
(***************************************************************************)
EXTENDS EngineOutput, WellFoundedInduction, TLAPS

----------------------------------------------------------------------------
(* Induction: over sets, since the provers cannot instantiate an operator *)

LEMMA Least ==
  ASSUME NEW S \in SUBSET Nat, S # {}
  PROVE  \E m \in S : \A n \in S : m <= n
<1>1. PICK m \in S : \A n \in S : ~(<<n, m>> \in OpToRel(<, Nat))
  BY NatLessThanWellFounded, WFMin
<1>2. \A n \in S : ~(n < m)
  BY <1>1 DEF OpToRel
<1> QED
  BY <1>2

LEMMA SetInduction ==
  ASSUME NEW S, 0 \in S, \A n \in Nat : n \in S => n + 1 \in S
  PROVE  \A n \in Nat : n \in S
<1> SUFFICES ASSUME NEW k \in Nat, k \notin S PROVE FALSE
  OBVIOUS
<1>1. PICK m \in Nat \ S : \A n \in Nat \ S : m <= n
  BY Least
<1>2. m # 0 /\ m - 1 \in Nat /\ m - 1 \in S
  BY <1>1
<1> QED
  BY <1>1, <1>2

Iterates(f, N, D, d, T) ==
  /\ f \in [0..N -> D]
  /\ f[0] = d
  /\ \A n \in 1..N : f[n] = T[<<f[n - 1], n>>]

LEMMA Iteration ==
  ASSUME NEW D, NEW d \in D, NEW T \in [D \X Nat -> D], NEW N \in Nat
  PROVE  \E f : Iterates(f, N, D, d, T)
<1> DEFINE Iter(f, n) == Iterates(f, n, D, d, T)
           S == {n \in Nat : \E f : Iter(f, n)}
<1>1. 0 \in S
  <2>1. Iter([k \in 0..0 |-> d], 0)
    BY DEF Iterates
  <2> QED
    BY <2>1
<1>2. ASSUME NEW n \in Nat, n \in S PROVE n + 1 \in S
  <2>1. PICK f : Iterates(f, n, D, d, T)
    BY <1>2
  <2> DEFINE g == [k \in 0..(n + 1) |-> IF k = n + 1 THEN T[<<f[n], n + 1>>] ELSE f[k]]
  <2>2. f[n] \in D /\ T[<<f[n], n + 1>>] \in D
    BY <2>1 DEF Iterates
  <2>3. g \in [0..(n + 1) -> D] /\ g[0] = d
    BY <2>1, <2>2 DEF Iterates
  <2>4. ASSUME NEW k \in 1..(n + 1) PROVE g[k] = T[<<g[k - 1], k>>]
    <3>1. k - 1 \in 0..n /\ g[k - 1] = f[k - 1]
      OBVIOUS
    <3>2. CASE k = n + 1
      BY <3>1, <3>2
    <3>3. CASE k # n + 1
      <4>1. k \in 1..n /\ g[k] = f[k]
        BY <3>3
      <4> QED
        BY <2>1, <3>1, <4>1 DEF Iterates
    <3> QED
      BY <3>2, <3>3
  <2>5. Iter(g, n + 1)
    BY <2>3, <2>4 DEF Iterates
  <2> HIDE DEF g
  <2> QED
    BY <2>5
<1> HIDE DEF S
<1>3. N \in S
  BY <1>1, <1>2, SetInduction
<1> QED
  BY <1>3 DEF S

----------------------------------------------------------------------------
(* The reader *)

Modes == {"start", "first", "next", "member", "name", "colon", "value", "items",
          "string", "nameEscape", "stringEscape", "end"}

Reader == [mode : Modes, depth : Int, within : Seq({"object", "array"})]

LEMMA OutsideReads == Outside \in Reader
<1>1. <<>> \in Seq({"object", "array"})
  OBVIOUS
<1> QED
  BY <1>1 DEF Outside, Reader, Modes

LEMMA MovesType ==
  ASSUME NEW r \in Reader, NEW t \in Tokens
  PROVE  Moves(r, t) \in SUBSET Reader
<1>1. /\ r.mode \in Modes /\ r.depth \in Int /\ r.within \in Seq({"object", "array"})
      /\ r = [mode |-> r.mode, depth |-> r.depth, within |-> r.within]
  BY DEF Reader
<1>2. \A m \in Modes, k \in Int, w \in Seq({"object", "array"}) :
        [mode |-> m, depth |-> k, within |-> w] \in Reader
  BY DEF Reader
<1>3. /\ r.within # <<>> => Tail(r.within) \in Seq({"object", "array"})
      /\ <<"object">> \o r.within \in Seq({"object", "array"})
      /\ <<"array">> \o r.within \in Seq({"object", "array"})
  BY <1>1
<1>4. \A m \in Modes : [r EXCEPT !.mode = m] \in Reader
  BY DEF Reader
<1>5. \A w \in Seq({"object", "array"}) :
        /\ [r EXCEPT !.mode = "items", !.within = w] \in Reader
        /\ [r EXCEPT !.mode = "next", !.within = w] \in Reader
  BY DEF Reader, Modes
<1>6. \A m \in Modes, w \in Seq({"object", "array"}) :
        /\ [mode |-> m, depth |-> r.depth + 1, within |-> w] \in Reader
        /\ [mode |-> m, depth |-> r.depth - 1, within |-> w] \in Reader
  <2>1. r.depth + 1 \in Int /\ r.depth - 1 \in Int
    BY <1>1
  <2> QED
    BY <1>2, <2>1, Zenon
<1> SUFFICES ASSUME NEW q \in Moves(r, t) PROVE q \in Reader
  OBVIOUS
<1> DEFINE To(m) == q = [r EXCEPT !.mode = m]
<1>7. \/ q = [mode |-> "first", depth |-> r.depth + 1,
              within |-> <<"object">> \o r.within]
      \/ /\ r.within # <<>>
         /\ \/ q = [mode |-> "end", depth |-> r.depth - 1, within |-> Tail(r.within)]
            \/ q = [mode |-> "next", depth |-> r.depth - 1, within |-> Tail(r.within)]
      \/ q = [r EXCEPT !.mode = "items", !.within = <<"array">> \o r.within]
      \/ /\ r.within # <<>>
         /\ q = [r EXCEPT !.mode = "next", !.within = Tail(r.within)]
      \/ To("name") \/ To("colon") \/ To("value") \/ To("next") \/ To("string")
      \/ To("member") \/ To("nameEscape") \/ To("stringEscape")
      \/ q = r
  BY DEF Moves
<1>8. {"first", "end", "next", "name", "colon", "value", "string", "member",
       "nameEscape", "stringEscape"} \subseteq Modes
  BY DEF Modes
<1> QED
  BY <1>3, <1>4, <1>5, <1>6, <1>7, <1>8

\* The recursion of ReadAll defines a function, and what it reads depends on what
\* was read before only.
IsReading(f, s) ==
  f = [n \in 0..Len(s) |-> IF n = 0 THEN {Outside}
                           ELSE UNION {Moves(r, s[n]) : r \in f[n - 1]}]

LEMMA ReadingExists ==
  ASSUME NEW s \in Seq(Tokens)
  PROVE  \E f \in [0..Len(s) -> SUBSET Reader] : IsReading(f, s) /\ ReadAll(s) = f[Len(s)]
<1> DEFINE D == SUBSET Reader
           d == {Outside}
           T == [p \in D \X Nat |-> IF p[2] \in DOMAIN s
                                    THEN UNION {Moves(r, s[p[2]]) : r \in p[1]} ELSE {}]
<1>1. d \in D
  BY OutsideReads
<1>2. T \in [D \X Nat -> D]
  <2>1. ASSUME NEW p \in D \X Nat PROVE T[p] \in D
    <3>1. CASE p[2] \in DOMAIN s
      <4>1. s[p[2]] \in Tokens
        BY <3>1
      <4>2. \A r \in p[1] : Moves(r, s[p[2]]) \in SUBSET Reader
        BY <4>1, MovesType
      <4>3. UNION {Moves(r, s[p[2]]) : r \in p[1]} \in SUBSET Reader
        BY <4>2
      <4> QED
        BY <3>1, <4>3
    <3>2. CASE p[2] \notin DOMAIN s
      BY <3>2
    <3> QED
      BY <3>1, <3>2
  <2> QED
    BY <2>1
<1> HIDE DEF T, D, d
<1>3. PICK f : Iterates(f, Len(s), D, d, T)
  <2>1. Len(s) \in Nat
    OBVIOUS
  <2> QED
    BY <1>1, <1>2, <2>1, Iteration
<1>4. /\ f \in [0..Len(s) -> D] /\ f[0] = d
      /\ \A n \in 1..Len(s) : f[n] = T[<<f[n - 1], n>>]
  BY <1>3 DEF Iterates
<1>5. ASSUME NEW n \in 0..Len(s)
      PROVE  f[n] = IF n = 0 THEN {Outside}
                    ELSE UNION {Moves(r, s[n]) : r \in f[n - 1]}
  <2>1. CASE n = 0
    BY <1>4, <2>1 DEF d
  <2>2. CASE n # 0
    <3>1. n \in 1..Len(s) /\ n \in DOMAIN s /\ f[n - 1] \in D
      BY <1>4, <2>2
    <3>2. T[<<f[n - 1], n>>] = UNION {Moves(r, s[n]) : r \in f[n - 1]}
      BY <3>1 DEF T
    <3> QED
      BY <1>4, <2>2, <3>1, <3>2
  <2> QED
    BY <2>1, <2>2
<1>6. IsReading(f, s)
  BY <1>4, <1>5 DEF IsReading
<1> QED
  BY <1>4, <1>6 DEF D, ReadAll

LEMMA ReadingsAgree ==
  ASSUME NEW s \in Seq(Tokens), NEW u \in Seq(Tokens), NEW f, NEW g,
         Len(s) <= Len(u), \A k \in 1..Len(s) : s[k] = u[k],
         IsReading(f, s), IsReading(g, u)
  PROVE  \A n \in 0..Len(s) : f[n] = g[n]
<1> DEFINE S == {n \in Nat : n <= Len(s) => f[n] = g[n]}
<1>1. 0 \in S
  BY DEF IsReading
<1>2. ASSUME NEW n \in Nat, n \in S PROVE n + 1 \in S
  <2> SUFFICES ASSUME n + 1 <= Len(s) PROVE f[n + 1] = g[n + 1]
    OBVIOUS
  <2>1. f[n] = g[n] /\ s[n + 1] = u[n + 1]
    BY <1>2
  <2>2. n + 1 \in 0..Len(s) /\ n + 1 \in 0..Len(u) /\ n + 1 # 0 /\ (n + 1) - 1 = n
    OBVIOUS
  <2>3. f[n + 1] = UNION {Moves(r, s[n + 1]) : r \in f[n]}
    BY <2>2 DEF IsReading
  <2>4. g[n + 1] = UNION {Moves(r, u[n + 1]) : r \in g[n]}
    BY <2>2 DEF IsReading
  <2> QED
    BY <2>1, <2>3, <2>4
<1> HIDE DEF S
<1>3. \A n \in Nat : n \in S
  BY <1>1, <1>2, SetInduction
<1> QED
  BY <1>3 DEF S

LEMMA ReadAllType ==
  ASSUME NEW s \in Seq(Tokens)
  PROVE  ReadAll(s) \in SUBSET Reader
<1>1. PICK f \in [0..Len(s) -> SUBSET Reader] : IsReading(f, s) /\ ReadAll(s) = f[Len(s)]
  BY ReadingExists
<1> QED
  BY <1>1

LEMMA ReadNothing == ReadAll(<<>>) = {Outside}
<1>1. <<>> \in Seq(Tokens) /\ Len(<<>>) = 0
  OBVIOUS
<1>2. PICK f : IsReading(f, <<>>) /\ ReadAll(<<>>) = f[Len(<<>>)]
  BY <1>1, ReadingExists
<1> QED
  BY <1>1, <1>2 DEF IsReading

LEMMA ReadOneMore ==
  ASSUME NEW s \in Seq(Tokens), NEW t \in Tokens
  PROVE  ReadAll(Append(s, t)) = UNION {Moves(r, t) : r \in ReadAll(s)}
<1> DEFINE u == Append(s, t)
<1>1. /\ u \in Seq(Tokens) /\ Len(u) = Len(s) + 1 /\ u[Len(u)] = t
      /\ \A k \in 1..Len(s) : s[k] = u[k]
  OBVIOUS
<1> HIDE DEF u
<1>2. PICK f : IsReading(f, s) /\ ReadAll(s) = f[Len(s)]
  BY ReadingExists
<1>3. PICK g : IsReading(g, u) /\ ReadAll(u) = g[Len(u)]
  BY <1>1, ReadingExists
<1>4. Len(u) \in 0..Len(u) /\ Len(u) # 0 /\ Len(u) - 1 = Len(s) /\ Len(s) \in 0..Len(s)
      /\ Len(s) <= Len(u)
  BY <1>1
<1>5. g[Len(u)] = UNION {Moves(r, u[Len(u)]) : r \in g[Len(s)]}
  BY <1>3, <1>4 DEF IsReading
<1>6. f[Len(s)] = g[Len(s)]
  BY <1>1, <1>2, <1>3, <1>4, ReadingsAgree
<1> QED
  BY <1>1, <1>2, <1>3, <1>5, <1>6 DEF u

\* Reading a span place by place.
LEMMA ReadSpan ==
  ASSUME NEW s \in Seq(Tokens), NEW from \in 1..Len(s), NEW to \in from..Len(s)
  PROVE  /\ ReadAll(SubSeq(s, from, from - 1)) = {Outside}
         /\ ReadAll(SubSeq(s, from, to))
              = UNION {Moves(r, s[to]) : r \in ReadAll(SubSeq(s, from, to - 1))}
<1>1. SubSeq(s, from, from - 1) = <<>>
  OBVIOUS
<1>2. SubSeq(s, from, to - 1) \in Seq(Tokens) /\ s[to] \in Tokens
  OBVIOUS
<1>3. SubSeq(s, from, to) = Append(SubSeq(s, from, to - 1), s[to])
  OBVIOUS
<1> QED
  BY <1>1, <1>2, <1>3, ReadNothing, ReadOneMore

\* Nothing may follow the end of an object.
LEMMA DeadBehind ==
  ASSUME NEW s \in Seq(Tokens), NEW from \in 1..Len(s), NEW to \in from..Len(s),
         \A r \in ReadAll(SubSeq(s, from, to)) : r.mode = "end"
  PROVE  \A k \in (to + 1)..Len(s) : ReadAll(SubSeq(s, from, k)) = {}
<1> DEFINE S == {n \in Nat : to + 1 + n <= Len(s) => ReadAll(SubSeq(s, from, to + 1 + n)) = {}}
<1>1. \A r \in ReadAll(SubSeq(s, from, to)), t \in Tokens : Moves(r, t) = {}
  BY DEF Moves
<1>2. 0 \in S
  <2> SUFFICES ASSUME to + 1 <= Len(s) PROVE ReadAll(SubSeq(s, from, to + 1)) = {}
    OBVIOUS
  <2>1. to + 1 \in from..Len(s) /\ (to + 1) - 1 = to /\ s[to + 1] \in Tokens
    OBVIOUS
  <2>2. ReadAll(SubSeq(s, from, to + 1))
          = UNION {Moves(r, s[to + 1]) : r \in ReadAll(SubSeq(s, from, to))}
    BY <2>1, ReadSpan
  <2> QED
    BY <1>1, <2>1, <2>2
<1>3. ASSUME NEW n \in Nat, n \in S PROVE n + 1 \in S
  <2> DEFINE k == to + 1 + n
  <2> SUFFICES ASSUME k + 1 <= Len(s) PROVE ReadAll(SubSeq(s, from, k + 1)) = {}
    OBVIOUS
  <2>1. k + 1 \in from..Len(s) /\ (k + 1) - 1 = k /\ ReadAll(SubSeq(s, from, k)) = {}
    BY <1>3
  <2> HIDE DEF k
  <2>2. ReadAll(SubSeq(s, from, k + 1))
          = UNION {Moves(r, s[k + 1]) : r \in ReadAll(SubSeq(s, from, k))}
    BY <2>1, ReadSpan
  <2> QED
    BY <2>1, <2>2
<1> HIDE DEF S
<1>4. \A n \in Nat : n \in S
  BY <1>2, <1>3, SetInduction
<1>5. ASSUME NEW k \in (to + 1)..Len(s) PROVE ReadAll(SubSeq(s, from, k)) = {}
  <2>1. PICK n \in Nat : k = to + 1 + n
    BY k - (to + 1) \in Nat
  <2>2. n \in S
    BY <1>4
  <2>3. ReadAll(SubSeq(s, from, to + 1 + n)) = {}
    BY <2>1, <2>2 DEF S
  <2> QED
    BY <2>1, <2>3
<1> QED
  BY <1>5

----------------------------------------------------------------------------
(* The objects of a text *)

LEMMA ObjectPlaces ==
  ASSUME NEW s \in Seq(Tokens), NEW o \in Objects(s)
  PROVE  /\ o \in Nat \X Nat /\ o = <<o[1], o[2]>>
         /\ o[1] \in 1..Len(s) /\ o[2] \in o[1]..Len(s)
         /\ s[o[1]] = "open" /\ s[o[2]] = "close" /\ IsObject(Span(s, o))
<1>1. /\ o[1] \in DOMAIN s /\ o[2] \in DOMAIN s /\ o = <<o[1], o[2]>>
      /\ s[o[1]] = "open" /\ s[o[2]] = "close"
      /\ o[1] < o[2] /\ IsObject(Span(s, o))
  BY DEF Objects
<1> QED
  BY <1>1

LEMMA ObjectsHave ==
  ASSUME NEW s \in Seq(Tokens), NEW from \in 1..Len(s), NEW to \in 1..Len(s), from < to,
         s[from] = "open", s[to] = "close", IsObject(Span(s, <<from, to>>))
  PROVE  <<from, to>> \in Objects(s)
  BY DEF Objects

\* The choice in Outermost can be made.
Stands(T, o) == ~\E p \in T : p[1] < o[1] /\ o[1] <= p[2]

LEMMA OutermostStands ==
  ASSUME NEW s \in Seq(Tokens)
  PROVE  /\ Outermost(s) \subseteq Objects(s)
         /\ \A o \in Objects(s) : o \in Outermost(s) <=> Stands(Outermost(s), o)
<1> DEFINE all == Objects(s)
           Upto(T, n) == /\ T \subseteq {o \in all : o[1] <= n}
                         /\ \A o \in all : o[1] <= n => (o \in T <=> Stands(T, o))
           S == {n \in Nat : \E T : Upto(T, n)}
<1>0. \A o \in all : o[1] \in 1..Len(s) /\ o[2] \in Nat
  BY ObjectPlaces
<1> HIDE DEF all
<1>1. 0 \in S
  <2>1. Upto({}, 0)
    BY <1>0 DEF Stands
  <2> QED
    BY <2>1
<1>2. ASSUME NEW n \in Nat, n \in S PROVE n + 1 \in S
  <2>1. PICK T : Upto(T, n)
    BY <1>2
  <2> DEFINE U == T \cup {o \in all : o[1] = n + 1 /\ Stands(T, o)}
  <2>2. U \subseteq {o \in all : o[1] <= n + 1}
    BY <1>0, <2>1
  <2>3. \A o \in all, p \in U : p \notin T => ~(o[1] <= n + 1 /\ p[1] < o[1])
    BY <1>0, <2>1
  <2>4. \A o \in all : o[1] <= n + 1 => (Stands(U, o) <=> Stands(T, o))
    BY <2>3 DEF Stands
  <2>5. ASSUME NEW o \in all, o[1] <= n + 1 PROVE o \in U <=> Stands(T, o)
    <3>1. CASE o[1] <= n
      <4>1. o[1] # n + 1
        BY <1>0, <3>1
      <4> QED
        BY <2>1, <3>1, <4>1
    <3>2. CASE ~(o[1] <= n)
      <4>1. o[1] = n + 1 /\ o \notin T
        BY <1>0, <2>1, <2>5, <3>2
      <4> QED
        BY <4>1
    <3> QED
      BY <3>1, <3>2
  <2>6. Upto(U, n + 1)
    BY <2>2, <2>4, <2>5
  <2> HIDE DEF U
  <2> QED
    BY <2>6
<1> HIDE DEF S
<1>3. Len(s) \in S
  BY <1>1, <1>2, SetInduction
<1>4. PICK T : Upto(T, Len(s))
  BY <1>3 DEF S
<1>5. T \in SUBSET all /\ \A o \in all : o \in T <=> Stands(T, o)
  BY <1>0, <1>4
<1> QED
  BY <1>5, Zenon DEF Outermost, Stands, all

----------------------------------------------------------------------------
(* The scan *)

\* The places and spans of the scan, and its flags, which the provers treat
\* apart.
Places ==
  /\ text \in Seq(Tokens)
  /\ spc \in {"off", "seek", "balance", "decode", "error"}
  /\ start \in Nat /\ i \in Nat /\ depth \in Int
  /\ last \in Nat \X Nat /\ lastPayload \in Nat \X Nat

Flags == inString \in BOOLEAN /\ escaped \in BOOLEAN

LEMMA ScanTypes ==
  /\ ScanTypeOK => Places /\ Flags
  /\ Places /\ Flags => ScanTypeOK
  /\ Places' /\ Flags' => ScanTypeOK'
  BY Zenon DEF ScanTypeOK, Places, Flags

\* An object the scan has taken: a valid one, within the text.
ObjectAt(o) ==
  /\ o[1] \in 1..Len(text)
  /\ o[2] \in o[1]..Len(text)
  /\ IsObject(Span(text, o))

\* In a candidate the braces never close more than was opened, and it is left
\* as soon as they match.
Balanced ==
  spc = "balance" =>
    /\ start \in 1..Len(text)
    /\ text[start] = "open"
    /\ start <= i
    /\ i = start => depth = 0
    /\ i > start => depth >= 1

\* A candidate is opened outside of any string.
OpenedOutside ==
  (spc = "balance" /\ i = start) => inString = FALSE /\ escaped = FALSE

Taken ==
  /\ last # NoSpan => ObjectAt(last)
  /\ lastPayload # NoSpan => ObjectAt(lastPayload) /\ IsPayload(Span(text, lastPayload))
  /\ spc = "decode" => last # NoSpan

ScanInv ==
  /\ ScanTypeOK
  /\ spc = "seek" => start >= 1
  /\ Balanced
  /\ OpenedOutside
  /\ Taken

LEMMA ResetKeeps ==
  ASSUME NEW t \in Seq(Tokens), NEW where \in {"off", "seek", "error"}, NEW at \in Nat,
         ResetScan(t, where, at), where = "seek" => at >= 1
  PROVE  ScanInv'
<1>1. Places'
  BY DEF ResetScan, Places, NoSpan
<1>2. Flags'
  BY Zenon DEF ResetScan, Flags
<1>3. spc' # "balance" /\ spc' # "decode" /\ (spc' = "seek" => start' >= 1)
  BY DEF ResetScan
<1>4. last' = NoSpan /\ lastPayload' = NoSpan
  BY DEF ResetScan
<1> QED
  BY <1>1, <1>2, <1>3, <1>4, ScanTypes DEF ScanInv, Balanced, OpenedOutside, Taken

LEMMA ScanOffInv == ScanOff => ScanInv
<1> SUFFICES ASSUME ScanOff PROVE ScanInv
  OBVIOUS
<1>1. Places
  BY DEF ScanOff, Places, NoSpan
<1>2. Flags
  BY Zenon DEF ScanOff, Flags
<1>3. spc = "off" /\ last = NoSpan /\ lastPayload = NoSpan
  BY DEF ScanOff
<1> QED
  BY <1>1, <1>2, <1>3, ScanTypes DEF ScanInv, Balanced, OpenedOutside, Taken

LEMMA BeginKeeps ==
  ASSUME NEW t \in Seq(Tokens), BeginScan(t)
  PROVE  ScanInv'
<1> DEFINE where == IF \E k \in DOMAIN t : t[k] = "open" THEN "seek" ELSE "error"
<1>1. ResetScan(t, where, 1) /\ where \in {"off", "seek", "error"}
  BY DEF BeginScan
<1> HIDE DEF where
<1> QED
  BY <1>1, ResetKeeps

\* While the text stays, so does what was taken.
LEMMA TakenKept ==
  ASSUME Taken, UNCHANGED <<text, last, lastPayload>>,
         spc' = "decode" => spc = "decode" \/ last # NoSpan
  PROVE  Taken'
  BY DEF Taken, ObjectAt

LEMMA ScanFrame ==
  ASSUME ScanInv, UNCHANGED scanVars
  PROVE  ScanInv'
<1>1. Places' /\ Balanced'
  BY ScanTypes DEF ScanInv, scanVars, Places, Balanced
<1>2. Flags' /\ OpenedOutside'
  BY Zenon, ScanTypes DEF ScanInv, scanVars, Flags, OpenedOutside
<1>3. Taken'
  BY TakenKept DEF ScanInv, scanVars
<1>4. spc' = "seek" => start' >= 1
  BY DEF ScanInv, scanVars
<1> QED
  BY <1>1, <1>2, <1>3, <1>4, ScanTypes DEF ScanInv

\* The steps that look for the next candidate.
LEMMA SeekKeeps ==
  ASSUME ScanInv, SkipProse \/ OpenCandidate \/ Unbalanced \/ EndScan
  PROVE  ScanInv'
<1>1. Places /\ Flags
  BY ScanTypes DEF ScanInv
<1>2. Flags'
  BY <1>1, Zenon DEF Flags, SkipProse, OpenCandidate, Unbalanced, EndScan, inner
<1>3. Taken'
  BY TakenKept DEF ScanInv, SkipProse, OpenCandidate, Unbalanced, EndScan
<1>4. CASE SkipProse
  BY <1>1, <1>2, <1>3, <1>4, ScanTypes
     DEF ScanInv, Places, SkipProse, inner, Balanced, OpenedOutside
<1>5. CASE OpenCandidate
  <2>1. Places'
    BY <1>1, <1>5 DEF Places, OpenCandidate
  <2>2. OpenedOutside'
    BY <1>5, Zenon DEF OpenCandidate, OpenedOutside
  <2>3. /\ spc' = "balance" /\ spc = "seek" /\ i' = start /\ start' = start /\ depth' = 0
        /\ text' = text /\ start <= Len(text) /\ text[start] = "open"
    BY <1>5 DEF OpenCandidate
  <2>4. start \in 1..Len(text)
    BY <1>1, <2>3 DEF ScanInv, Places
  <2>5. Balanced'
    BY <1>1, <2>3, <2>4 DEF Balanced, Places
  <2> QED
    BY <1>2, <1>3, <2>1, <2>2, <2>3, <2>5, ScanTypes DEF ScanInv
<1>6. CASE Unbalanced
  BY <1>1, <1>2, <1>3, <1>6, ScanTypes
     DEF ScanInv, Places, Unbalanced, inner, Balanced, OpenedOutside
<1>7. CASE EndScan
  BY <1>1, <1>2, <1>3, <1>7, ScanTypes
     DEF ScanInv, Places, EndScan, inner, Balanced, OpenedOutside
<1> QED
  BY <1>4, <1>5, <1>6, <1>7

\* What one character does to the depth and the flags.
LEMMA InnerEffect ==
  ASSUME Places, Flags
  PROVE  LET n == Inner(text[i]) IN
         /\ n.depth \in Int
         /\ n.depth \in {depth - 1, depth, depth + 1}
         /\ n.depth = depth - 1 => text[i] = "close"
         /\ (inString = FALSE /\ escaped = FALSE /\ text[i] = "open") => n.depth = depth + 1
         /\ n.inString \in BOOLEAN /\ n.escaped \in BOOLEAN
<1> DEFINE n == Inner(text[i])
<1>1. n.inString \in BOOLEAN /\ n.escaped \in BOOLEAN
  BY Zenon DEF Inner, Flags
<1>2. n.depth = IF escaped \/ inString THEN depth
                ELSE IF text[i] = "open" THEN depth + 1
                ELSE IF text[i] = "close" THEN depth - 1 ELSE depth
  BY Zenon DEF Inner
<1>3. depth \in Int
  BY DEF Places
<1>4. (inString = FALSE /\ escaped = FALSE /\ text[i] = "open") => n.depth = depth + 1
  BY <1>2, Zenon
<1>5. \/ n.depth = depth
      \/ n.depth = depth + 1
      \/ n.depth = depth - 1 /\ text[i] = "close"
  BY <1>2, Zenon
<1> HIDE DEF n
<1>6. n.depth \in Int /\ n.depth \in {depth - 1, depth, depth + 1}
  BY <1>3, <1>5
<1>7. n.depth = depth - 1 => text[i] = "close"
  BY <1>3, <1>5
<1> QED
  BY <1>1, <1>4, <1>6, <1>7 DEF n

\* One character further in a candidate.
LEMMA BalanceKeeps ==
  ASSUME ScanInv, Balance
  PROVE  ScanInv'
<1> DEFINE n == Inner(text[i])
           o == <<start, i>>
<1>1. Places /\ Flags /\ Balanced /\ OpenedOutside /\ Taken
  BY ScanTypes DEF ScanInv
<1>2. /\ spc = "balance" /\ text' = text /\ i <= Len(text)
      /\ depth' = n.depth /\ inString' = n.inString /\ escaped' = n.escaped
  BY DEF Balance
<1>3. /\ n.depth \in Int
      /\ n.depth \in {depth - 1, depth, depth + 1}
      /\ n.depth = depth - 1 => text[i] = "close"
      /\ (inString = FALSE /\ escaped = FALSE /\ text[i] = "open") => n.depth = depth + 1
      /\ n.inString \in BOOLEAN /\ n.escaped \in BOOLEAN
  BY <1>1, InnerEffect
<1> HIDE DEF n
<1>4. start \in 1..Len(text) /\ start <= i /\ i \in Nat /\ Len(text) \in Nat
  BY <1>1, <1>2 DEF Places, Balanced
<1>5. Flags'
  BY <1>2, <1>3, Zenon DEF Flags
<1>6. CASE text[i] = "close" /\ n.depth = 0 /\ depth = 1
  <2>1. Take /\ i' = i
    BY <1>6 DEF Balance, n
  <2>2. /\ spc' = "seek"
        /\ \/ /\ IsObject(Span(text, o)) /\ start' = i + 1 /\ last' = o
              /\ lastPayload' = IF IsPayload(Span(text, o)) THEN o ELSE lastPayload
           \/ start' = start + 1 /\ UNCHANGED <<last, lastPayload>>
    BY <2>1 DEF Take
  <2>3. o \in Nat \X Nat /\ o[1] = start /\ o[2] = i
    BY <1>4
  <2>4. Places' /\ start' >= 1
    BY <1>1, <1>2, <1>3, <1>4, <2>1, <2>2, <2>3 DEF Places
  <2>5. Taken'
    <3>1. CASE UNCHANGED <<last, lastPayload>>
      BY <1>1, <1>2, <2>2, <3>1, TakenKept
    <3>2. CASE /\ IsObject(Span(text, o)) /\ last' = o
               /\ lastPayload' = IF IsPayload(Span(text, o)) THEN o ELSE lastPayload
      <4>1. ObjectAt(o)
        BY <1>2, <1>4, <2>3, <3>2 DEF ObjectAt
      <4>2. ObjectAt(last)'
        BY <1>2, <3>2, <4>1 DEF ObjectAt
      <4>3. lastPayload' # NoSpan =>
              ObjectAt(lastPayload)' /\ IsPayload(Span(text, lastPayload))'
        <5>1. CASE IsPayload(Span(text, o))
          BY <1>2, <3>2, <4>1, <5>1 DEF ObjectAt
        <5>2. CASE ~IsPayload(Span(text, o))
          BY <1>1, <1>2, <3>2, <5>2 DEF Taken, ObjectAt
        <5> QED
          BY <5>1, <5>2
      <4> QED
        BY <2>2, <4>2, <4>3 DEF Taken
    <3> QED
      BY <2>2, <3>1, <3>2
  <2> QED
    BY <1>5, <2>2, <2>4, <2>5, ScanTypes DEF ScanInv, Balanced, OpenedOutside
<1>7. CASE ~(text[i] = "close" /\ n.depth = 0 /\ depth = 1)
  <2>1. i' = i + 1 /\ UNCHANGED <<spc, start, last, lastPayload>>
    BY <1>7 DEF Balance, n
  <2>2. n.depth >= 1
    <3>1. CASE i = start
      <4>1. inString = FALSE /\ escaped = FALSE /\ text[i] = "open" /\ depth = 0
        BY <1>1, <1>2, <3>1 DEF OpenedOutside, Balanced
      <4> QED
        BY <1>3, <4>1
    <3>2. CASE i > start
      <4>1. depth >= 1 /\ depth \in Int
        BY <1>1, <1>2, <3>2 DEF Balanced, Places
      <4> QED
        BY <1>3, <1>7, <4>1
    <3> QED
      BY <1>4, <3>1, <3>2
  <2>3. Places' /\ Balanced'
    BY <1>1, <1>2, <1>3, <1>4, <2>1, <2>2 DEF Places, Balanced
  <2>4. i' # start'
    BY <1>4, <2>1
  <2>5. Taken'
    BY <1>1, <1>2, <2>1, TakenKept
  <2> QED
    BY <1>2, <1>5, <2>1, <2>3, <2>4, <2>5, ScanTypes DEF ScanInv, OpenedOutside
<1> QED
  BY <1>6, <1>7

LEMMA ScanKeeps == ScanInv /\ Scan => ScanInv'
  BY SeekKeeps, BalanceKeeps DEF Scan

----------------------------------------------------------------------------
(* The scan and the reader *)

\* What the reader does with one token, a case for each line of Moves.
LEMMA MoveCases ==
  ASSUME NEW r \in Reader, NEW t \in Tokens, NEW q \in Moves(r, t)
  PROVE  \/ /\ r.mode \in {"start", "value", "items"} /\ t = "open"
            /\ q.mode = "first" /\ q.depth = r.depth + 1
         \/ /\ r.mode \in {"first", "next"} /\ t = "close"
            /\ q.mode = (IF r.depth = 1 THEN "end" ELSE "next") /\ q.depth = r.depth - 1
         \/ /\ q.depth = r.depth
            /\ \/ r.mode \in {"value", "items"} /\ t = "array" /\ q.mode = "items"
               \/ r.mode \in {"items", "next"} /\ t = "endArray" /\ q.mode = "next"
               \/ r.mode \in {"first", "member"} /\ t = "quote" /\ q.mode = "name"
               \/ r.mode = "name" /\ t = "quote" /\ q.mode = "colon"
               \/ r.mode = "colon" /\ t = "colon" /\ q.mode = "value"
               \/ r.mode \in {"value", "items"} /\ t = "value" /\ q.mode = "next"
               \/ r.mode \in {"value", "items"} /\ t = "quote" /\ q.mode = "string"
               \/ r.mode = "string" /\ t = "quote" /\ q.mode = "next"
               \/ r.mode = "next" /\ t = "comma" /\ q.mode \in {"value", "member"}
               \/ r.mode = "name" /\ t = "backslash" /\ q.mode = "nameEscape"
               \/ r.mode = "string" /\ t = "backslash" /\ q.mode = "stringEscape"
               \/ r.mode = "nameEscape" /\ t \in Escapable /\ q.mode = "name"
               \/ r.mode = "stringEscape" /\ t \in Escapable /\ q.mode = "string"
               \/ /\ r.mode \in {"name", "string"} /\ t \notin {"quote", "backslash"}
                  /\ q.mode = r.mode
<1>1. r.mode \in Modes /\ r.depth \in Int
  BY DEF Reader
<1>2. \A m \in Modes : /\ [r EXCEPT !.mode = m].mode = m
                       /\ [r EXCEPT !.mode = m].depth = r.depth
  BY DEF Reader
<1>3. \A m \in Modes : \A w :
        /\ [r EXCEPT !.mode = m, !.within = w].mode = m
        /\ [r EXCEPT !.mode = m, !.within = w].depth = r.depth
  BY DEF Reader
<1> DEFINE To(m) == q = [r EXCEPT !.mode = m]
           Enters(m) == \E w : q = [r EXCEPT !.mode = m, !.within = w]
<1>4. \/ r.mode \in {"start", "value", "items"} /\ t = "open"
         /\ q = [mode |-> "first", depth |-> r.depth + 1,
                 within |-> <<"object">> \o r.within]
      \/ r.mode \in {"first", "next"} /\ t = "close"
         /\ q = [mode |-> IF r.depth = 1 THEN "end" ELSE "next",
                 depth |-> r.depth - 1, within |-> Tail(r.within)]
      \/ r.mode \in {"value", "items"} /\ t = "array"
         /\ q = [r EXCEPT !.mode = "items", !.within = <<"array">> \o r.within]
      \/ r.mode \in {"items", "next"} /\ t = "endArray"
         /\ q = [r EXCEPT !.mode = "next", !.within = Tail(r.within)]
      \/ r.mode \in {"first", "member"} /\ t = "quote" /\ To("name")
      \/ r.mode = "name" /\ t = "quote" /\ To("colon")
      \/ r.mode = "colon" /\ t = "colon" /\ To("value")
      \/ r.mode \in {"value", "items"} /\ t = "value" /\ To("next")
      \/ r.mode \in {"value", "items"} /\ t = "quote" /\ To("string")
      \/ r.mode = "string" /\ t = "quote" /\ To("next")
      \/ r.mode = "next" /\ t = "comma" /\ (To("value") \/ To("member"))
      \/ r.mode = "name" /\ t = "backslash" /\ To("nameEscape")
      \/ r.mode = "string" /\ t = "backslash" /\ To("stringEscape")
      \/ r.mode = "nameEscape" /\ t \in Escapable /\ To("name")
      \/ r.mode = "stringEscape" /\ t \in Escapable /\ To("string")
      \/ r.mode \in {"name", "string"} /\ t \notin {"quote", "backslash"} /\ q = r
  BY DEF Moves
<1>5. \A m \in Modes : To(m) => q.mode = m /\ q.depth = r.depth
  BY <1>2
<1>6. \A m \in Modes : Enters(m) => q.mode = m /\ q.depth = r.depth
  BY <1>3
<1>7. \A w : q = [r EXCEPT !.mode = "items", !.within = w] => Enters("items")
  OBVIOUS
<1>8. \A w : q = [r EXCEPT !.mode = "next", !.within = w] => Enters("next")
  OBVIOUS
<1> HIDE DEF To, Enters
<1>9. {"items", "next", "name", "colon", "value", "string", "member",
       "nameEscape", "stringEscape"} \subseteq Modes
  BY DEF Modes
<1>10. CASE r.mode \in {"value", "items"} /\ t = "array"
            /\ q = [r EXCEPT !.mode = "items", !.within = <<"array">> \o r.within]
  BY <1>6, <1>7, <1>9, <1>10
<1>11. CASE r.mode \in {"items", "next"} /\ t = "endArray"
            /\ q = [r EXCEPT !.mode = "next", !.within = Tail(r.within)]
  BY <1>6, <1>8, <1>9, <1>11
<1> QED
  BY <1>1, <1>4, <1>5, <1>9, <1>10, <1>11

Literals == {"name", "string", "nameEscape", "stringEscape"}
Escapes == {"nameEscape", "stringEscape"}

\* A reader that is alive within an object, at the depth and with the flags given.
Alive(r, n, quoted, behind) ==
  /\ r.mode \in Modes \ {"start", "end"}
  /\ r.depth = n /\ n >= 1
  /\ quoted = TRUE <=> r.mode \in Literals
  /\ behind = TRUE <=> r.mode \in Escapes

InStep(r) ==
  IF i = start THEN r = Outside
  ELSE Alive(r, depth, inString, escaped)

LEMMA InnerFlags ==
  ASSUME Flags
  PROVE  LET n == Inner(text[i]) IN
         /\ (n.inString = TRUE) <=> (IF ~(escaped = TRUE) /\ text[i] = "quote"
                                    THEN ~(inString = TRUE) ELSE inString = TRUE)
         /\ (n.escaped = TRUE) <=> (~(escaped = TRUE) /\ inString = TRUE /\ text[i] = "backslash")
         /\ n.depth = IF escaped = TRUE \/ inString = TRUE THEN depth
                      ELSE IF text[i] = "open" THEN depth + 1
                      ELSE IF text[i] = "close" THEN depth - 1 ELSE depth
  BY Zenon DEF Inner, Flags

\* As long as the reader is alive, the scan of a candidate keeps in step with it,
\* and it finds the object's end where the reader does.
LEMMA StepsAgree ==
  ASSUME ScanInv, spc = "balance", i <= Len(text), NEW r \in Reader, InStep(r),
         NEW q \in Moves(r, text[i])
  PROVE  LET n == Inner(text[i]) IN
         IF text[i] = "close" /\ n.depth = 0 /\ depth = 1
         THEN q.mode = "end"
         ELSE Alive(q, n.depth, n.inString, n.escaped)
<1> DEFINE n == Inner(text[i])
           t == text[i]
<1>1. /\ start \in 1..Len(text) /\ i \in Nat /\ start <= i /\ depth \in Int
      /\ t \in Tokens /\ Flags
      /\ i = start => depth = 0 /\ t = "open"
  BY ScanTypes DEF ScanInv, Places, Balanced
<1>2. i = start => ~(inString = TRUE) /\ ~(escaped = TRUE)
  BY Zenon DEF ScanInv, OpenedOutside
<1>3. /\ (n.inString = TRUE) <=> (IF ~(escaped = TRUE) /\ t = "quote"
                                 THEN ~(inString = TRUE) ELSE inString = TRUE)
      /\ (n.escaped = TRUE) <=> (~(escaped = TRUE) /\ inString = TRUE /\ t = "backslash")
      /\ n.depth = IF escaped = TRUE \/ inString = TRUE THEN depth
                   ELSE IF t = "open" THEN depth + 1
                   ELSE IF t = "close" THEN depth - 1 ELSE depth
  BY <1>1, InnerFlags
<1>4. q \in Moves(r, t)
  OBVIOUS
<1> HIDE DEF n, t
<1> DEFINE Goal == IF t = "close" /\ n.depth = 0 /\ depth = 1
                   THEN q.mode = "end"
                   ELSE Alive(q, n.depth, n.inString, n.escaped)
<1>5. ASSUME i = start PROVE Goal
  <2>1. r.mode = "start" /\ r.depth = 0
    BY <1>5 DEF InStep, Outside
  <2>2. q.mode = "first" /\ q.depth = 1
    BY <1>1, <1>4, <2>1, MoveCases
  <2>3. ~(inString = TRUE) /\ ~(escaped = TRUE) /\ t = "open" /\ n.depth = 1
    BY <1>1, <1>2, <1>3, <1>5
  <2>4. ~(n.inString = TRUE) /\ ~(n.escaped = TRUE)
    BY <1>3, <2>3
  <2> QED
    BY <2>2, <2>3, <2>4 DEF Alive, Modes, Literals, Escapes
<1>6. ASSUME i # start PROVE Goal
  <2>1. Alive(r, depth, inString, escaped)
    BY <1>6 DEF InStep
  <2>2. r.mode \in Modes
    BY DEF Reader
  <2>3. CASE r.mode \in {"start", "value", "items"} /\ t = "open"
             /\ q.mode = "first" /\ q.depth = r.depth + 1
    BY <1>1, <1>3, <2>1, <2>3 DEF Alive, Modes, Literals, Escapes
  <2>4. CASE r.mode \in {"first", "next"} /\ t = "close"
             /\ q.mode = (IF r.depth = 1 THEN "end" ELSE "next") /\ q.depth = r.depth - 1
    BY <1>1, <1>3, <2>1, <2>4 DEF Alive, Modes, Literals, Escapes
  <2>5. CASE ~(r.mode \in {"start", "value", "items"} /\ t = "open") /\
             ~(r.mode \in {"first", "next"} /\ t = "close")
    BY <1>1, <1>3, <1>4, <2>1, <2>2, <2>5, MoveCases
       DEF Alive, Modes, Literals, Escapes, Escapable
  <2> QED
    BY <1>1, <1>4, <2>3, <2>4, <2>5, MoveCases
<1> QED
  BY <1>5, <1>6 DEF n, t

----------------------------------------------------------------------------
(* The review of a text *)

Before(s, k) == {o \in Outermost(s) : o[1] < k}
PayloadsOf(s, spans) == {o \in spans : IsPayload(Span(s, o))}

IsLast(o, spans) ==
  IF spans = {} THEN o = NoSpan ELSE o \in spans /\ \A p \in spans : p[1] <= o[1]

\* What is known when the scan comes to the place k: the objects that stand on
\* their own and begin before it end before it, and these are the last ones.
PassedAt(s, k, l, lp) ==
  /\ \A o \in Before(s, k) : o[2] < k
  /\ \A o, p \in Before(s, k) : o[1] = p[1] => o = p
  /\ IsLast(l, Before(s, k))
  /\ IsLast(lp, PayloadsOf(s, Before(s, k)))

LEMMA NothingPassed ==
  ASSUME NEW s \in Seq(Tokens)
  PROVE  PassedAt(s, 1, NoSpan, NoSpan)
<1>1. Before(s, 1) = {}
  BY OutermostStands, ObjectPlaces DEF Before
<1> QED
  BY <1>1 DEF PassedAt, IsLast, PayloadsOf

\* A place where no object begins is passed over alone.
LEMMA PassNone ==
  ASSUME NEW s \in Seq(Tokens), NEW k \in Nat, NEW l, NEW lp, PassedAt(s, k, l, lp),
         \A o \in Objects(s) : o[1] # k
  PROVE  PassedAt(s, k + 1, l, lp)
<1>1. \A o \in Outermost(s) : o[1] \in Nat /\ o[2] \in Nat /\ o[1] # k
  BY OutermostStands, ObjectPlaces
<1>2. Before(s, k + 1) = Before(s, k)
  BY <1>1 DEF Before
<1>3. \A o \in Before(s, k) : o[2] < k + 1
  BY <1>1 DEF PassedAt, Before
<1> QED
  BY <1>2, <1>3 DEF PassedAt

\* An object is passed over whole, whatever begins within it.
LEMMA PassOne ==
  ASSUME NEW s \in Seq(Tokens), NEW k \in Nat, NEW m \in Nat, NEW l, NEW lp,
         PassedAt(s, k, l, lp), <<k, m>> \in Objects(s),
         \A o \in Objects(s) : o[1] = k => o = <<k, m>>
  PROVE  PassedAt(s, m + 1, <<k, m>>,
                  IF IsPayload(Span(s, <<k, m>>)) THEN <<k, m>> ELSE lp)
<1> DEFINE a == <<k, m>>
           own == Outermost(s)
           b == Before(s, k)
           payload == IsPayload(Span(s, a))
<1>1. own \subseteq Objects(s) /\ \A o \in Objects(s) : o \in own <=> Stands(own, o)
  BY OutermostStands
<1>2. \A o \in Objects(s) : o[1] \in Nat /\ o[2] \in Nat /\ o[1] <= o[2]
  BY ObjectPlaces
<1>3. a \in Objects(s) /\ a[1] = k /\ a[2] = m /\ \A o \in Objects(s) : o[1] = k => o = a
  OBVIOUS
<1>4. b = {o \in own : o[1] < k} /\ Before(s, m + 1) = {o \in own : o[1] < m + 1}
  BY DEF Before
<1>5. /\ \A o \in b : o[2] < k
      /\ \A o, p \in b : o[1] = p[1] => o = p
      /\ IsLast(l, b) /\ IsLast(lp, PayloadsOf(s, b))
  BY DEF PassedAt
<1> HIDE DEF a, own, b
<1>6. a \in own
  <2>1. Stands(own, a)
    BY <1>1, <1>2, <1>3, <1>4, <1>5 DEF Stands
  <2> QED
    BY <1>1, <1>3, <2>1
<1>7. \A o \in own : ~(k < o[1] /\ o[1] <= m)
  BY <1>1, <1>3, <1>6 DEF Stands
<1>8. Before(s, m + 1) = b \cup {a}
  <2>1. ASSUME NEW o \in own PROVE o[1] < m + 1 <=> o[1] < k \/ o = a
    <3>1. o[1] \in Nat /\ k <= m
      BY <1>1, <1>2, <1>3
    <3>2. o[1] < m + 1 <=> o[1] < k \/ o[1] = k
      BY <1>7, <3>1
    <3> QED
      BY <1>1, <1>3, <3>2
  <2> QED
    BY <1>4, <1>6, <2>1
<1>9. \A o \in b : o[1] < k /\ o[1] \in Nat /\ o[2] \in Nat
  BY <1>1, <1>2, <1>4
<1>10. k <= m
  BY <1>2, <1>3
<1>11. \A o \in b \cup {a} : o[2] < m + 1
  BY <1>3, <1>5, <1>9, <1>10
<1>12. \A o, p \in b \cup {a} : o[1] = p[1] => o = p
  BY <1>3, <1>5, <1>9
<1>13. IsLast(a, b \cup {a})
  BY <1>3, <1>9 DEF IsLast
<1>14. IsLast(IF payload THEN a ELSE lp, PayloadsOf(s, b \cup {a}))
  <2>1. CASE payload
    <3>1. a \in PayloadsOf(s, b \cup {a})
      BY <2>1 DEF PayloadsOf
    <3>2. \A p \in PayloadsOf(s, b \cup {a}) : p[1] <= a[1]
      BY <1>3, <1>9 DEF PayloadsOf
    <3> QED
      BY <2>1, <3>1, <3>2 DEF IsLast
  <2>2. CASE ~payload
    <3>1. PayloadsOf(s, b \cup {a}) = PayloadsOf(s, b)
      BY <2>2 DEF PayloadsOf
    <3> QED
      BY <1>5, <2>2, <3>1
  <2> QED
    BY <2>1, <2>2
<1>15. PassedAt(s, m + 1, a, IF payload THEN a ELSE lp)
  BY <1>8, <1>11, <1>12, <1>13, <1>14 DEF PassedAt
<1> QED
  BY <1>15 DEF a, payload

LEMMA LastIsLast ==
  ASSUME NEW spans, NEW l, IsLast(l, spans),
         \A o \in spans : o[1] \in Nat,
         \A o, p \in spans : o[1] = p[1] => o = p
  PROVE  LastOf(spans) = l
<1>1. CASE spans = {}
  BY <1>1 DEF IsLast, LastOf
<1>2. CASE spans # {}
  <2>1. l \in spans /\ \A p \in spans : p[1] <= l[1]
    BY <1>2 DEF IsLast
  <2>2. \A o \in spans : (\A p \in spans : p[1] <= o[1]) => o = l
    <3> SUFFICES ASSUME NEW o \in spans, \A p \in spans : p[1] <= o[1] PROVE o = l
      OBVIOUS
    <3>1. l[1] <= o[1] /\ o[1] <= l[1] /\ l[1] \in Nat /\ o[1] \in Nat
      BY <2>1
    <3>2. l[1] = o[1]
      BY <3>1
    <3> QED
      BY <2>1, <3>2
  <2>3. LastOf(spans) = CHOOSE o \in spans : \A p \in spans : p[1] <= o[1]
    BY <1>2 DEF LastOf
  <2> QED
    BY <2>1, <2>2, <2>3
<1> QED
  BY <1>1, <1>2

\* At the end of the text the scan holds its review, or an object behind it that
\* quotes a key it does not have.
LEMMA AllPassed ==
  ASSUME NEW s \in Seq(Tokens), NEW k \in Nat, Len(s) < k, NEW l, NEW lp,
         PassedAt(s, k, l, lp)
  PROVE  LET o == IF lp # NoSpan THEN lp ELSE l IN
         /\ o = Review(s) \/ o \in Misleading(s)
         /\ l = NoSpan => Review(s) = NoSpan
<1> DEFINE own == Outermost(s)
           payloads == {o \in own : IsPayload(Span(s, o))}
           reviews == {o \in own : IsReview(Span(s, o))}
<1>1. \A o \in own : o[1] \in 1..Len(s) /\ o # NoSpan
  BY OutermostStands, ObjectPlaces DEF NoSpan
<1>2. Before(s, k) = own /\ PayloadsOf(s, own) = payloads
  BY <1>1 DEF Before, PayloadsOf
<1>3. /\ \A o, p \in own : o[1] = p[1] => o = p
      /\ IsLast(l, own) /\ IsLast(lp, payloads)
  BY <1>2 DEF PassedAt
<1>4. Review(s) = LastOf(IF reviews # {} THEN reviews ELSE own)
  BY DEF Review
<1>5. reviews \subseteq payloads
  BY DEF IsReview, IsPayload, HasField, HasQuoted
<1>6. /\ payloads \subseteq own
      /\ \A o \in own : o \in reviews <=> IsReview(Span(s, o))
      /\ \A o \in payloads : IsPayload(Span(s, o))
      /\ Misleading(s) = {o \in own : /\ IsPayload(Span(s, o)) /\ ~IsReview(Span(s, o))
                                      /\ \A p \in own : IsReview(Span(s, p)) => p[1] < o[1]}
  BY DEF Misleading
<1> HIDE DEF own
<1>7. LastOf(own) = l /\ (l = NoSpan => own = {})
  BY <1>1, <1>3, LastIsLast DEF IsLast
<1> HIDE DEF payloads, reviews
<1>8. CASE payloads = {}
  <2>1. lp = NoSpan /\ reviews = {}
    BY <1>3, <1>5, <1>8 DEF IsLast
  <2> QED
    BY <1>4, <1>7, <2>1
<1>9. CASE payloads # {}
  <2>1. lp \in payloads /\ lp # NoSpan /\ lp \in own /\ \A p \in payloads : p[1] <= lp[1]
    BY <1>1, <1>3, <1>6, <1>9 DEF IsLast
  <2>2. l # NoSpan
    BY <1>7, <2>1
  <2>3. CASE lp \in reviews
    <3>1. IsLast(lp, reviews)
      BY <1>5, <2>1, <2>3 DEF IsLast
    <3>2. /\ \A o \in reviews : o[1] \in Nat
          /\ \A o, p \in reviews : o[1] = p[1] => o = p
      BY <1>1, <1>3, <1>5, <1>6
    <3>3. LastOf(reviews) = lp
      BY <3>1, <3>2, LastIsLast
    <3> QED
      BY <1>4, <2>1, <2>2, <2>3, <3>3
  <2>4. CASE lp \notin reviews
    <3>1. ASSUME NEW p \in own, IsReview(Span(s, p)) PROVE p[1] < lp[1]
      <4>1. p \in reviews /\ p \in payloads /\ p # lp
        BY <1>5, <1>6, <2>4, <3>1
      <4>2. p[1] <= lp[1] /\ p[1] # lp[1] /\ p[1] \in Nat /\ lp[1] \in Nat
        BY <1>1, <1>3, <2>1, <4>1
      <4> QED
        BY <4>2
    <3>2. lp \in Misleading(s)
      BY <1>6, <2>1, <2>4, <3>1
    <3> QED
      BY <2>1, <2>2, <3>2
  <2> QED
    BY <2>3, <2>4
<1> QED
  BY <1>8, <1>9

\* The review is an object of the text, and what stands in it stands in the text.
LEMMA ReviewIsObject ==
  ASSUME NEW s \in Seq(Tokens), Review(s) # NoSpan
  PROVE  Review(s) \in Objects(s)
<1>1. PICK spans \in SUBSET Objects(s) : Review(s) = LastOf(spans)
  <2> DEFINE own == Outermost(s)
             reviews == {o \in own : IsReview(Span(s, o))}
  <2>1. own \in SUBSET Objects(s) /\ reviews \in SUBSET Objects(s)
    BY OutermostStands
  <2> QED
    BY <2>1 DEF Review
<1>2. spans # {}
  BY <1>1 DEF LastOf
<1>3. \E o \in spans : \A p \in spans : p[1] <= o[1]
  <2> DEFINE S == {n \in Nat : \E o \in spans : n = Len(s) - o[1]}
  <2>1. \A o \in spans : o[1] \in 1..Len(s)
    BY ObjectPlaces
  <2>2. S # {}
    <3>1. PICK o \in spans : TRUE
      BY <1>2
    <3>2. Len(s) - o[1] \in S
      BY <2>1
    <3> QED
      BY <3>2
  <2>3. PICK m \in S : \A n \in S : m <= n
    BY <2>2, Least
  <2>4. PICK o \in spans : m = Len(s) - o[1]
    BY <2>3
  <2>5. ASSUME NEW p \in spans PROVE p[1] <= o[1]
    <3>1. Len(s) - p[1] \in S
      BY <2>1
    <3>2. Len(s) - o[1] <= Len(s) - p[1]
      BY <2>3, <2>4, <3>1
    <3> QED
      BY <2>1, <3>2
  <2> QED
    BY <2>4, <2>5
<1>4. LastOf(spans) \in spans
  BY <1>2, <1>3 DEF LastOf
<1> QED
  BY <1>1, <1>4

LEMMA ThreeOf ==
  ASSUME NEW S, NEW s \in Seq(S), NEW k \in Int, 1 <= k, k + 2 <= Len(s)
  PROVE  SubSeq(s, k, k + 2) = [m \in 1..3 |-> s[k + m - 1]]
<1>1. SubSeq(s, k, k + 2) = [m \in 1..((k + 2) - k + 1) |-> s[k + m - 1]]
  OBVIOUS
<1>2. (k + 2) - k + 1 = 3
  OBVIOUS
<1> QED
  BY <1>1, <1>2

LEMMA QuotedInSpan ==
  ASSUME NEW s \in Seq(Tokens), NEW o \in Objects(s), NEW word,
         HasQuoted(Span(s, o), word)
  PROVE  HasQuoted(s, word)
<1> DEFINE u == SubSeq(s, o[1], o[2])
<1>1. o[1] \in 1..Len(s) /\ o[2] \in o[1]..Len(s)
  BY ObjectPlaces
<1>2. PICK k \in DOMAIN u : QuotedAt(u, k, word)
  BY DEF HasQuoted, Span
<1>3. Len(u) = o[2] - o[1] + 1 /\ k \in 1..Len(u) /\ k + 2 <= Len(u)
  BY <1>1, <1>2 DEF QuotedAt
<1> DEFINE j == o[1] + k - 1
<1>4. j \in DOMAIN s /\ j + 2 <= Len(s)
  BY <1>1, <1>3
<1>5. SubSeq(s, j, j + 2) = SubSeq(u, k, k + 2)
  <2>1. \A m \in 1..Len(u) : u[m] = s[o[1] + m - 1]
    BY <1>1, <1>3
  <2>2. u \in Seq(Tokens)
    BY <1>1
  <2> HIDE DEF u, j
  <2>3. SubSeq(s, j, j + 2) = [m \in 1..3 |-> s[j + m - 1]]
    BY <1>4
  <2>4. SubSeq(u, k, k + 2) = [m \in 1..3 |-> u[k + m - 1]]
    <3>1. k \in Int /\ 1 <= k /\ k + 2 <= Len(u)
      BY <1>3, <2>2
    <3> QED
      BY <2>2, <3>1, ThreeOf, Zenon
  <2>5. ASSUME NEW m \in 1..3 PROVE s[j + m - 1] = u[k + m - 1]
    <3>1. k + m - 1 \in 1..Len(u)
      BY <1>3, <2>2
    <3>2. j + m - 1 = o[1] + (k + m - 1) - 1
      <4>1. o[1] \in Int /\ k \in Int
        BY <1>1, <1>3
      <4>2. \A x, y, z \in Int : (x + y - 1) + z - 1 = x + (y + z - 1) - 1
        OBVIOUS
      <4> QED
        BY <4>1, <4>2 DEF j
    <3> QED
      BY <2>1, <3>1, <3>2
  <2> QED
    BY <2>3, <2>4, <2>5
<1>6. QuotedAt(s, j, word)
  BY <1>2, <1>4, <1>5 DEF QuotedAt
<1> QED
  BY <1>4, <1>6 DEF HasQuoted

----------------------------------------------------------------------------
(* The scan finds the review *)

\* Within a candidate the scan is in step with the reader, which has not come to
\* an end yet.
InReader ==
  spc = "balance" =>
    /\ \A r \in ReadAll(SubSeq(text, start, i - 1)) : InStep(r)
    /\ \A k \in start..(i - 1) : ~IsObject(Span(text, <<start, k>>))

Passed == spc \in {"seek", "balance"} => PassedAt(text, start, last, lastPayload)

OutputInv == ScanInv /\ InReader /\ Passed /\ ExtractsLastPayload

LEMMA OffReads ==
  ASSUME NEW t \in Seq(Tokens), ResetScan(t, "off", 0)
  PROVE  OutputInv'
<1>1. ScanInv'
  BY ResetKeeps
<1>2. spc' = "off"
  BY DEF ResetScan
<1> QED
  BY <1>1, <1>2 DEF OutputInv, InReader, Passed, ExtractsLastPayload

LEMMA ScanOffReads == ScanOff => OutputInv
<1> SUFFICES ASSUME ScanOff PROVE OutputInv
  OBVIOUS
<1>1. ScanInv /\ spc = "off"
  BY ScanOffInv DEF ScanOff
<1> QED
  BY <1>1 DEF OutputInv, InReader, Passed, ExtractsLastPayload

LEMMA BeginReads ==
  ASSUME NEW t \in Seq(Tokens), BeginScan(t)
  PROVE  OutputInv'
<1>1. ScanInv'
  BY BeginKeeps
<1>2. /\ text' = t /\ start' = 1 /\ last' = NoSpan /\ lastPayload' = NoSpan
      /\ spc' = IF \E k \in DOMAIN t : t[k] = "open" THEN "seek" ELSE "error"
  BY DEF BeginScan, ResetScan
<1>3. Passed'
  BY <1>2, NothingPassed DEF Passed
<1>4. ExtractsLastPayload'
  <2>1. CASE spc' = "seek"
    BY <2>1 DEF ExtractsLastPayload
  <2>2. CASE spc' = "error"
    <3>1. Objects(t) = {}
      BY <1>2, <2>2 DEF Objects
    <3>2. Outermost(t) = {}
      BY <3>1, OutermostStands
    <3>3. Review(t) = NoSpan
      BY <3>2 DEF Review, LastOf
    <3> QED
      BY <1>2, <2>2, <3>3 DEF ExtractsLastPayload
  <2> QED
    BY <1>2, <2>1, <2>2
<1>5. InReader'
  BY <1>2 DEF InReader
<1> QED
  BY <1>1, <1>3, <1>4, <1>5 DEF OutputInv

LEMMA ReadsFrame ==
  ASSUME OutputInv, UNCHANGED scanVars
  PROVE  OutputInv'
<1>1. ScanInv'
  BY ScanFrame DEF OutputInv
<1>2. /\ text' = text /\ spc' = spc /\ start' = start /\ i' = i /\ depth' = depth
      /\ inString' = inString /\ escaped' = escaped
      /\ last' = last /\ lastPayload' = lastPayload
  BY DEF scanVars
<1>3. InReader' /\ Passed' /\ ExtractsLastPayload'
  BY <1>2 DEF OutputInv, InReader, InStep, Passed, ExtractsLastPayload, Extracted
<1> QED
  BY <1>1, <1>3 DEF OutputInv

\* What begins at a brace and is read to the place k.
LEMMA SpanRead ==
  ASSUME NEW s \in Seq(Tokens), NEW o \in Objects(s)
  PROVE  /\ o = <<o[1], o[2]>> /\ o[1] \in 1..Len(s) /\ o[2] \in o[1]..Len(s)
         /\ IsObject(Span(s, <<o[1], o[2]>>))
         /\ ReadAll(SubSeq(s, o[1], o[2])) # {}
<1>1. /\ o = <<o[1], o[2]>> /\ o[1] \in 1..Len(s) /\ o[2] \in o[1]..Len(s)
      /\ IsObject(Span(s, o))
  BY ObjectPlaces
<1>2. Span(s, o) = SubSeq(s, o[1], o[2])
  BY DEF Span
<1>3. ReadAll(Span(s, o)) # {}
  BY <1>1 DEF IsObject
<1> QED
  BY <1>1, <1>2, <1>3

\* One token further in a candidate.
LEMMA BalanceReads ==
  ASSUME OutputInv, Balance
  PROVE  OutputInv'
<1> DEFINE n == Inner(text[i])
           closes == text[i] = "close" /\ n.depth = 0 /\ depth = 1
           R(k) == ReadAll(SubSeq(text, start, k))
<1>1. /\ ScanInv /\ ScanInv' /\ InReader /\ Passed
  BY BalanceKeeps DEF OutputInv
<1>2. /\ spc = "balance" /\ text' = text /\ i <= Len(text)
      /\ depth' = n.depth /\ inString' = n.inString /\ escaped' = n.escaped
  BY DEF Balance
<1>3. /\ text \in Seq(Tokens) /\ start \in 1..Len(text) /\ i \in start..Len(text)
      /\ Len(text) \in Nat
  BY <1>1, <1>2, ScanTypes DEF ScanInv, Places, Balanced
<1>4. /\ \A r \in R(i - 1) : InStep(r)
      /\ \A k \in start..(i - 1) : ~IsObject(Span(text, <<start, k>>))
  BY <1>1, <1>2 DEF InReader
<1>5. R(i) = UNION {Moves(r, text[i]) : r \in R(i - 1)}
  BY <1>3, ReadSpan
<1>6. R(i - 1) \in SUBSET Reader
  <2>1. SubSeq(text, start, i - 1) \in Seq(Tokens)
    BY <1>3
  <2> QED
    BY <2>1, ReadAllType
<1>7. \A q \in R(i) : IF closes THEN q.mode = "end"
                      ELSE Alive(q, n.depth, n.inString, n.escaped)
  <2> SUFFICES ASSUME NEW q \in R(i)
               PROVE  IF closes THEN q.mode = "end"
                      ELSE Alive(q, n.depth, n.inString, n.escaped)
    OBVIOUS
  <2>1. PICK r \in R(i - 1) : q \in Moves(r, text[i])
    BY <1>5
  <2>2. r \in Reader /\ InStep(r)
    BY <1>4, <1>6, <2>1
  <2> QED
    BY <1>1, <1>2, <2>1, <2>2, StepsAgree
<1>8. Span(text, <<start, i>>) = SubSeq(text, start, i)
  BY DEF Span
<1> HIDE DEF n
<1>9. CASE closes
  <2>1. Take /\ i' = i
    BY <1>9 DEF Balance, n
  <2>2. \A k \in (i + 1)..Len(text) : R(k) = {}
    BY <1>3, <1>7, <1>9, DeadBehind
  <2>3. ASSUME NEW o \in Objects(text), o[1] = start PROVE o = <<start, i>>
    <3>1. /\ o = <<start, o[2]>> /\ o[2] \in start..Len(text)
          /\ IsObject(Span(text, <<start, o[2]>>)) /\ R(o[2]) # {}
      BY <1>3, <2>3, SpanRead
    <3>2. ~(o[2] \in start..(i - 1)) /\ ~(o[2] \in (i + 1)..Len(text))
      BY <1>4, <2>2, <3>1
    <3>3. o[2] = i
      BY <1>3, <3>1, <3>2
    <3> QED
      BY <3>1, <3>3
  <2>4. PassedAt(text, start, last, lastPayload) /\ start \in Nat /\ i \in Nat
    BY <1>1, <1>2, <1>3 DEF Passed
  <2>5. spc' = "seek"
    BY <2>1 DEF Take
  <2>6. PassedAt(text, start', last', lastPayload')
    <3>1. CASE IsObject(Span(text, <<start, i>>))
      <4>1. /\ start' = i + 1 /\ last' = <<start, i>>
            /\ lastPayload' = IF IsPayload(Span(text, <<start, i>>)) THEN <<start, i>>
                              ELSE lastPayload
        BY <2>1, <3>1 DEF Take
      <4>2. text[start] = "open" /\ start < i
        <5>1. i # start
          BY <1>1, <1>2, <1>9 DEF ScanInv, Balanced
        <5>2. start < i
          BY <1>3, <5>1
        <5>3. text[start] = "open"
          BY <1>1, <1>2 DEF ScanInv, Balanced
        <5> QED
          BY <5>2, <5>3
      <4>3. <<start, i>> \in Objects(text)
        BY <1>3, <1>9, <3>1, <4>2, ObjectsHave
      <4> QED
        BY <1>3, <2>3, <2>4, <4>1, <4>3, PassOne
    <3>2. CASE ~IsObject(Span(text, <<start, i>>))
      <4>1. start' = start + 1 /\ last' = last /\ lastPayload' = lastPayload
        BY <2>1, <3>2 DEF Take
      <4>2. \A o \in Objects(text) : o[1] # start
        BY <2>3, <3>2, SpanRead, <1>3
      <4> QED
        BY <1>3, <2>4, <4>1, <4>2, PassNone
    <3> QED
      BY <3>1, <3>2
  <2> QED
    BY <1>1, <1>2, <2>5, <2>6 DEF OutputInv, InReader, Passed, ExtractsLastPayload
<1>10. CASE ~closes
  <2>1. i' = i + 1 /\ spc' = spc /\ start' = start /\ last' = last
        /\ lastPayload' = lastPayload
    BY <1>10 DEF Balance, n
  <2>2. \A q \in R(i) : InStep(q)'
    <3>1. i' # start'
      BY <1>3, <2>1
    <3> QED
      BY <1>2, <1>7, <1>10, <3>1 DEF InStep
  <2>3. ~IsObject(Span(text, <<start, i>>))
    BY <1>7, <1>8, <1>10 DEF IsObject, Alive
  <2>4. \A k \in start..i : ~IsObject(Span(text, <<start, k>>))
    <3> SUFFICES ASSUME NEW k \in start..i PROVE ~IsObject(Span(text, <<start, k>>))
      OBVIOUS
    <3>1. k = i \/ k \in start..(i - 1)
      BY <1>3
    <3> QED
      BY <1>4, <2>3, <3>1
  <2>5. i' - 1 = i
    BY <1>3, <2>1
  <2>6. InReader'
    BY <1>2, <2>1, <2>2, <2>4, <2>5 DEF InReader
  <2>7. Passed' /\ ExtractsLastPayload'
    BY <1>1, <1>2, <2>1 DEF Passed, ExtractsLastPayload
  <2> QED
    BY <1>1, <2>6, <2>7 DEF OutputInv
<1> QED
  BY <1>9, <1>10

\* The steps that look for the next candidate.
LEMMA SeekReads ==
  ASSUME OutputInv, SkipProse \/ OpenCandidate \/ Unbalanced \/ EndScan
  PROVE  OutputInv'
<1>1. ScanInv /\ ScanInv' /\ InReader /\ Passed
  BY SeekKeeps DEF OutputInv
<1>2. text \in Seq(Tokens) /\ start \in Nat /\ i \in Nat /\ Len(text) \in Nat
  BY <1>1, ScanTypes DEF ScanInv, Places
<1>3. CASE SkipProse
  <2>1. /\ spc = "seek" /\ spc' = "seek" /\ start' = start + 1 /\ text' = text
        /\ last' = last /\ lastPayload' = lastPayload /\ text[start] # "open"
    BY <1>3 DEF SkipProse
  <2>2. \A o \in Objects(text) : o[1] # start
    BY <1>2, <2>1, ObjectPlaces
  <2>3. PassedAt(text, start + 1, last, lastPayload)
    BY <1>1, <1>2, <2>1, <2>2, PassNone DEF Passed
  <2> QED
    BY <1>1, <2>1, <2>3 DEF OutputInv, InReader, Passed, ExtractsLastPayload
<1>4. CASE OpenCandidate
  <2>1. /\ spc = "seek" /\ spc' = "balance" /\ start' = start /\ text' = text
        /\ last' = last /\ lastPayload' = lastPayload /\ i' = start
        /\ start <= Len(text) /\ start >= 1
    BY <1>1, <1>4 DEF OpenCandidate, ScanInv
  <2>2. start \in 1..Len(text) /\ i' = start'
    BY <1>2, <2>1
  <2>3. ReadAll(SubSeq(text, start, start - 1)) = {Outside}
    BY <1>2, <2>2, ReadSpan
  <2>4. \A r \in ReadAll(SubSeq(text, start, start - 1)) : InStep(r)'
    BY <2>2, <2>3 DEF InStep
  <2>5. start..(start - 1) = {}
    BY <1>2
  <2>6. InReader'
    BY <2>1, <2>4, <2>5 DEF InReader
  <2> QED
    BY <1>1, <2>1, <2>6 DEF OutputInv, Passed, ExtractsLastPayload
<1>5. CASE Unbalanced
  <2>1. /\ spc = "balance" /\ spc' = "seek" /\ start' = start + 1 /\ text' = text
        /\ last' = last /\ lastPayload' = lastPayload /\ i > Len(text)
    BY <1>5 DEF Unbalanced
  <2>2. ASSUME NEW o \in Objects(text) PROVE o[1] # start
    <3>1. /\ o[1] \in 1..Len(text) /\ o[2] \in o[1]..Len(text)
          /\ IsObject(Span(text, <<o[1], o[2]>>))
      BY <1>2, SpanRead
    <3>2. \A k \in start..(i - 1) : ~IsObject(Span(text, <<start, k>>))
      BY <1>1, <2>1 DEF InReader
    <3>3. o[1] = start => o[2] \in start..(i - 1)
      BY <1>2, <2>1, <3>1
    <3> QED
      BY <3>1, <3>2, <3>3
  <2>3. PassedAt(text, start + 1, last, lastPayload)
    BY <1>1, <1>2, <2>1, <2>2, PassNone DEF Passed
  <2> QED
    BY <1>1, <2>1, <2>3 DEF OutputInv, InReader, Passed, ExtractsLastPayload
<1>6. CASE EndScan
  <2>1. /\ spc = "seek" /\ start > Len(text) /\ text' = text
        /\ spc' = IF last = NoSpan THEN "error" ELSE "decode"
        /\ last' = last /\ lastPayload' = lastPayload
    BY <1>6 DEF EndScan
  <2>2. /\ Extracted = Review(text) \/ Extracted \in Misleading(text)
        /\ last = NoSpan => Review(text) = NoSpan
    <3>1. PassedAt(text, start, last, lastPayload) /\ Len(text) < start
      BY <1>1, <1>2, <2>1 DEF Passed
    <3> QED
      BY <1>2, <3>1, AllPassed DEF Extracted
  <2>3. ExtractsLastPayload'
    BY <2>1, <2>2 DEF ExtractsLastPayload, Extracted
  <2> QED
    BY <1>1, <2>1, <2>3 DEF OutputInv, InReader, Passed
<1> QED
  BY <1>3, <1>4, <1>5, <1>6

LEMMA ScanReads == OutputInv /\ Scan => OutputInv'
  BY SeekReads, BalanceReads DEF Scan
=============================================================================

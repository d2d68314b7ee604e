---------------------------- MODULE EngineOutput ----------------------------
(***************************************************************************)
(* The parser of internal/reviewer: what an agentic CLI printed, and the   *)
(* scan for the JSON object that is the review.                            *)
(*                                                                         *)
(* A text is a sequence of tokens: the characters the scan looks at, the   *)
(* two words it looks for, and what else JSON is made of.  White space is  *)
(* left out.                                                               *)
(*                                                                         *)
(*   open, close, quote, backslash, colon, comma    braces and the like    *)
(*   array, endArray                                brackets               *)
(*   value       a whole JSON value without any of these, like 7 or null   *)
(*   findings, summary, word                  words; prose, or in a string *)
(*                                                                         *)
(* The scan is a state machine, one step per token: its two nested loops   *)
(* are what could skip, repeat or never leave a place of the text.         *)
(***************************************************************************)
EXTENDS Integers, Sequences

Tokens == {"open", "close", "quote", "backslash", "colon", "comma", "array",
           "endArray", "value", "findings", "summary", "word"}

VARIABLES
  text,         \* the captured stdout
  spc,          \* where the scan is
  start,        \* the place the outer loop has reached
  i,            \* the place the inner loop has reached
  depth,        \* open braces of the candidate
  inString,     \* the inner loop is in a string literal
  escaped,      \* and behind a backslash there
  last,         \* the last valid object so far
  lastPayload   \* the last one that carries a key of the contract

scanVars == <<text, spc, start, i, depth, inString, escaped, last, lastPayload>>
inner == <<i, depth, inString, escaped>>

\* Objects are told apart by the places of their braces.
NoSpan == <<0, 0>>
Span(s, o) == SubSeq(s, o[1], o[2])

ScanTypeOK ==
  /\ text \in Seq(Tokens)
  /\ spc \in {"off", "seek", "balance", "decode", "error"}
  /\ start \in Nat /\ i \in Nat /\ depth \in Int
  /\ inString \in BOOLEAN /\ escaped \in BOOLEAN
  /\ last \in Nat \X Nat /\ lastPayload \in Nat \X Nat

----------------------------------------------------------------------------
(* encoding/json *)

Escapable == {"quote", "backslash", "findings"}   \* \" \\ \f

\* A reader of an object: what may follow (mode), how many braces are open (depth)
\* and what it is within, the innermost first.
Outside == [mode |-> "start", depth |-> 0, within |-> <<>>]

\* The states it may be in after one more token, none if that may not come here.
Moves(s, t) ==
  LET To(m) == {[s EXCEPT !.mode = m]}
      In(kind) == s.within # <<>> /\ Head(s.within) = kind IN
  CASE s.mode \in {"start", "value", "items"} /\ t = "open" ->
         {[mode |-> "first", depth |-> s.depth + 1, within |-> <<"object">> \o s.within]}
    [] s.mode \in {"first", "next"} /\ t = "close" /\ In("object") ->
         {[mode |-> IF s.depth = 1 THEN "end" ELSE "next",
           depth |-> s.depth - 1, within |-> Tail(s.within)]}
    [] s.mode \in {"value", "items"} /\ t = "array" ->
         {[s EXCEPT !.mode = "items", !.within = <<"array">> \o @]}
    [] s.mode \in {"items", "next"} /\ t = "endArray" /\ In("array") ->
         {[s EXCEPT !.mode = "next", !.within = Tail(@)]}
    [] s.mode \in {"first", "member"} /\ t = "quote" -> To("name")
    [] s.mode = "name" /\ t = "quote" -> To("colon")
    [] s.mode = "colon" /\ t = "colon" -> To("value")
    [] s.mode \in {"value", "items"} /\ t = "value" -> To("next")
    [] s.mode \in {"value", "items"} /\ t = "quote" -> To("string")
    [] s.mode = "string" /\ t = "quote" -> To("next")
    [] s.mode = "next" /\ t = "comma" -> To(IF In("array") THEN "value" ELSE "member")
    [] s.mode = "name" /\ t = "backslash" -> To("nameEscape")
    [] s.mode = "string" /\ t = "backslash" -> To("stringEscape")
    [] s.mode = "nameEscape" /\ t \in Escapable -> To("name")
    [] s.mode = "stringEscape" /\ t \in Escapable -> To("string")
    [] s.mode \in {"name", "string"} /\ t \notin {"quote", "backslash"} -> {s}
    [] OTHER -> {}

ReadAll(s) ==
  LET states[n \in 0..Len(s)] ==
        IF n = 0 THEN {Outside} ELSE UNION {Moves(r, s[n]) : r \in states[n - 1]}
  IN states[Len(s)]

\* json.Valid of a text that begins with a brace.
IsObject(s) == \E r \in ReadAll(s) : r.mode = "end"

QuotedAt(s, k, word) ==
  k + 2 <= Len(s) /\ SubSeq(s, k, k + 2) = <<"quote", word, "quote">>

\* strings.Contains of a quoted word, wherever in the text it stands.
HasQuoted(s, word) == \E k \in DOMAIN s : QuotedAt(s, k, word)

\* A field json.Unmarshal fills: a name of the outermost object.
HasField(s, word) ==
  \E k \in DOMAIN s :
    /\ QuotedAt(s, k, word)
    /\ \E r \in ReadAll(SubSeq(s, 1, k - 1)) :
         r.mode \in {"first", "member"} /\ r.depth = 1

----------------------------------------------------------------------------
(* extractJSON *)

ScanOff ==
  /\ text = <<>> /\ spc = "off" /\ start = 0 /\ i = 0 /\ depth = 0
  /\ inString = FALSE /\ escaped = FALSE
  /\ last = NoSpan /\ lastPayload = NoSpan

ResetScan(t, where, at) ==
  /\ text' = t /\ spc' = where /\ start' = at /\ i' = 0 /\ depth' = 0
  /\ inString' = FALSE /\ escaped' = FALSE
  /\ last' = NoSpan /\ lastPayload' = NoSpan

\* A text without a brace is refused at once.
BeginScan(t) ==
  ResetScan(t, IF \E k \in DOMAIN t : t[k] = "open" THEN "seek" ELSE "error", 1)

SkipProse ==
  /\ spc = "seek"
  /\ start <= Len(text)
  /\ text[start] # "open"
  /\ start' = start + 1
  /\ UNCHANGED <<text, spc, inner, last, lastPayload>>

OpenCandidate ==
  /\ spc = "seek"
  /\ start <= Len(text)
  /\ text[start] = "open"
  /\ spc' = "balance"
  /\ i' = start /\ depth' = 0 /\ inString' = FALSE /\ escaped' = FALSE
  /\ UNCHANGED <<text, start, last, lastPayload>>

\* The switch of balancedObject.
Inner(t) ==
  [depth |-> IF escaped \/ inString THEN depth
             ELSE IF t = "open" THEN depth + 1
             ELSE IF t = "close" THEN depth - 1 ELSE depth,
   inString |-> IF ~escaped /\ t = "quote" THEN ~inString ELSE inString,
   escaped |-> ~escaped /\ inString /\ t = "backslash"]

\* What the scan prefers: the words of the contract anywhere in the object.
IsPayload(s) == HasQuoted(s, "findings") \/ HasQuoted(s, "summary")

\* Slip: an invalid candidate is passed over whole as well.
TakeSkippingInvalid ==
  LET o == <<start, i>> IN
  /\ spc' = "seek"
  /\ IF IsObject(Span(text, o))
     THEN /\ last' = o
          /\ lastPayload' = IF IsPayload(Span(text, o)) THEN o ELSE lastPayload
     ELSE UNCHANGED <<last, lastPayload>>
  /\ start' = i + 1

\* The candidate is balanced.  A valid one is taken and passed over whole, an
\* invalid one is left just behind its brace.
Take ==
  LET o == <<start, i>> IN
  /\ spc' = "seek"
  /\ IF IsObject(Span(text, o))
     THEN /\ last' = o
          /\ lastPayload' = IF IsPayload(Span(text, o)) THEN o ELSE lastPayload
          /\ start' = i + 1
     ELSE start' = start + 1 /\ UNCHANGED <<last, lastPayload>>

Balance ==
  /\ spc = "balance"
  /\ i <= Len(text)
  /\ LET n == Inner(text[i]) IN
       /\ depth' = n.depth /\ inString' = n.inString /\ escaped' = n.escaped
       /\ IF text[i] = "close" /\ n.depth = 0 /\ depth = 1
          THEN Take /\ UNCHANGED i
          ELSE i' = i + 1 /\ UNCHANGED <<spc, start, last, lastPayload>>
  /\ UNCHANGED text

Unbalanced ==
  /\ spc = "balance"
  /\ i > Len(text)
  /\ spc' = "seek"
  /\ start' = start + 1
  /\ UNCHANGED <<text, inner, last, lastPayload>>

EndScan ==
  /\ spc = "seek"
  /\ start > Len(text)
  /\ spc' = IF last = NoSpan THEN "error" ELSE "decode"
  /\ UNCHANGED <<text, start, inner, last, lastPayload>>

Scan == SkipProse \/ OpenCandidate \/ Balance \/ Unbalanced \/ EndScan

\* The object the scan returns.
Extracted == IF lastPayload # NoSpan THEN lastPayload ELSE last

----------------------------------------------------------------------------
(* What the scan is for *)

Objects(s) ==
  {o \in {k \in DOMAIN s : s[k] = "open"} \X {k \in DOMAIN s : s[k] = "close"} :
     o[1] < o[2] /\ IsObject(Span(s, o))}

\* The objects that stand in the text on their own: not begun within another
\* one that does.
Outermost(s) ==
  LET all == Objects(s) IN
  CHOOSE T \in SUBSET all :
    \A o \in all : o \in T <=> ~\E p \in T : p[1] < o[1] /\ o[1] <= p[2]

LastOf(spans) ==
  IF spans = {} THEN NoSpan
  ELSE CHOOSE o \in spans : \A p \in spans : p[1] <= o[1]

\* An object that has a key of the contract.
IsReview(s) == HasField(s, "findings") \/ HasField(s, "summary")

\* The review in a text: its last object with a key of the contract, or else its
\* last object (ADR-0007, extractJSON's comment).
Review(s) ==
  LET own == Outermost(s)
      reviews == {o \in own : IsReview(Span(s, o))} IN
  LastOf(IF reviews # {} THEN reviews ELSE own)

\* The objects that come after every review and quote the name of a key without
\* having the key themselves: as a value, or as a key of an object within.
Misleading(s) ==
  {o \in Outermost(s) :
     /\ IsPayload(Span(s, o)) /\ ~IsReview(Span(s, o))
     /\ \A p \in Outermost(s) : IsReview(Span(s, p)) => p[1] < o[1]}

\* Whatever is printed around it, before it, within its strings and behind it,
\* cut off or unbalanced, the review of a text is what is decoded, unless an
\* object behind it quotes a key it does not have: then such an object is, as
\* KeyedObjectDecoded shows.  A text without any object is an error.
ExtractsLastPayload ==
  /\ spc = "decode" => Extracted = Review(text) \/ Extracted \in Misleading(text)
  /\ spc = "error" => Review(text) = NoSpan

\* The documents' own claim, without the exception: the last object that carries
\* a "findings" or "summary" key is picked, the last object of all if there is
\* none (ADR-0007, extractJSON's comment).
KeyedObjectDecoded == spc = "decode" => Extracted = Review(text)
=============================================================================

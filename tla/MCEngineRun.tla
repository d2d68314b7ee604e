---------------------------- MODULE MCEngineRun ----------------------------
(***************************************************************************)
(* Instances of EngineRun small enough for TLC.                            *)
(***************************************************************************)
EXTENDS EngineRun, FiniteSets

LOCAL INSTANCE SequencesExt

CONSTANTS a, b

Text(word) == <<"quote", word, "quote">>
Object(members) == <<"open">> \o members \o <<"close">>
Field(name, value) == Text(name) \o <<"colon">> \o value

Plain == Object(Field("findings", <<"value">>))

\* What an output is pieced together from.
Pieces ==
  {<<"word">>, <<"open">>, <<"close">>, <<"quote">>, Object(<<>>), Plain,
   Object(Field("summary", Text("word"))),
   \* status and telemetry, one that wraps the payload, one that is no JSON
   Object(Field("word", <<"value">>)),
   Object(Field("word", Plain)),
   Object(<<"word">>),
   \* braces and escaped quotes in a string
   Object(Field("summary", Text("close"))),
   Object(Field("findings", <<"quote", "backslash", "quote", "open", "quote">>))}

Joined(n) == {FlattenSeq(ps) : ps \in SeqOf(Pieces, n)}

\* The usual list of findings: an array of objects.
Listed == Object(Field("findings", <<"array">> \o Object(<<>>) \o <<"comma">>
                                     \o Object(<<>>) \o <<"endArray">>))

\* A status object that quotes a key of the contract.
Quoting == Object(Field("word", Text("findings")))

\* A brace in a string that begins an object reaching past the string's own
\* object, a key quoted as a value only, arrays of objects, and one that ends in
\* the middle of an object.
Tangled ==
  {Object(Field("word", Text("open"))) \o <<"quote", "colon", "value", "close">>,
   Quoting \o Object(<<>>), Quoting \o Plain,
   <<"open">> \o Plain \o <<"comma">> \o Plain,
   Listed, Listed \o <<"word">>, <<"array", "open">> \o Listed,
   <<"array">> \o Plain \o <<"comma">> \o Object(<<>>) \o <<"endArray">>,
   Object(Field("findings", <<"array", "open", "endArray", "close">>))}

Printed == Joined(2) \cup Tangled \cup {p \o Plain \o q : p, q \in Pieces}

OneReview == {Plain}

\* A review, and a status object behind it.
ReviewThenStatus == {Plain \o Quoting}

InGroup == [where : {"group"}, holds : BOOLEAN]
Detached == [where |-> "escaped", holds |-> FALSE]
Tame == InGroup \cup {Detached}

\* A descendant that called setsid and kept its stdout.
Wild == {[where |-> "escaped", holds |-> TRUE]}

Found(fp, severity) == [fp |-> fp, severity |-> severity, anchored |-> TRUE]

Anchored ==
  {Found(a, s) : s \in {"nit", "minor", "critical"}}
    \cup {Found(b, s) : s \in {"major", "unheard of"}}
Loose == [Found(b, "critical") EXCEPT !.anchored = FALSE]

ManyLists == SeqOf(Anchored, 3) \cup SeqOf(Anchored \cup {Loose}, 2)
OneList == {<<Found(a, "major")>>}

AnySeen == SUBSET {a, b}
=============================================================================

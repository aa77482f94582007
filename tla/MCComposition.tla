--------------------------- MODULE MCComposition ---------------------------
(* The instance of Composition that TLC checks. *)
EXTENDS Composition

NewColumn(n, t) == [name |-> n, type |-> t]
NewUse(n, t, e) == [name |-> n, type |-> t, external |-> e]
Sql(slots, params, columns) == 
  [is |-> "sql", slots |-> slots, params |-> params, columns |-> columns, unchecked |-> {}]
If(n) == [is |-> "if", name |-> n]
End == [is |-> "end"]
Else == [is |-> "else"]
Block(n, line) == <<If(n), line, End>>

\* Lines: a plain predicate, two types of one parameter, an external table with
\* the parameter's name, parameters named like an option and a choice, a slot, a
\* unchecked expression, another column.
Plain == Sql({}, {}, <<>>)
P == Sql({}, {NewUse("P", "String", FALSE)}, <<>>)
P8 == Sql({}, {NewUse("P", "UInt8", FALSE)}, <<>>)
K == Sql({}, {NewUse("K", "Keys", TRUE)}, <<>>)
OfTable == Sql({}, {NewUse("P", "Source", FALSE)}, <<>>)
NamedA == Sql({}, {NewUse("A", "String", FALSE)}, <<>>)
NamedSource == Sql({}, {NewUse("Source", "String", FALSE)}, <<>>)
Slot == Sql({"Source"}, {}, <<>>)
Assumes == [Plain EXCEPT !.unchecked = {[name |-> "setting", over |-> None], [name |-> "expression", over |-> "Source"]}]
Extra == Sql({}, {}, <<NewColumn("extra", "String")>>)

Pieces == {<<P>>, <<P8>>, <<OfTable>>, <<If("A")>>, <<End>>, <<Else>>, <<If(None)>>}
          \cup {Block(o, l) : o \in {"A", "B"}, l \in {Assumes, P, K, Slot, Extra}}
          \cup {Block("B", l) : l \in {NamedA, NamedSource, P8}}
Base == Sql({"Source"}, {}, <<NewColumn("id", "UInt64"), NewColumn("payload", "Source")>>)

Choice(n, ts) == [name |-> n, tables |-> ts]
NewQuery(server, exec, choices, lines, annotated) ==
  [server |-> server, exec |-> exec, choices |-> choices, lines |-> lines, annotated |-> annotated]
Texts == {<<Base>> \o p \o q : p, q \in Pieces \cup {<<>>}}
Longer == {<<Base>> \o p \o q \o r :
             p, q, r \in {<<P>>, Block("A", P), Block("A", K), Block("B", P), Block("B", K), Block("C", Plain)}}
Choose(ts) == <<Choice("Source", ts)>>

Wide(n) == <<Sql({"S", "T"}, {}, <<>>)>> \o FlattenSeq([i \in 1 .. n |-> Block(<<"A", "B", "C", "D", "E", "F">>[i], P)])
Three == <<"events", "archive", "other">>
AllQueries ==
  {NewQuery(s, FALSE, Choose(<<"events", "archive">>), t, {}) : s \in BOOLEAN, t \in Texts \cup Longer}
  \cup {NewQuery(s, FALSE, Choose(ts), t, a) : s \in BOOLEAN, a \in {{}, {"P"}},
          ts \in {<<"events">>, <<"events", "other">>, <<"events", "lost">>, <<"events", "keys">>},
          t \in {<<Base>> \o p : p \in Pieces}}
  \cup {NewQuery(s, e, <<>>, t, {}) : s \in BOOLEAN, e \in BOOLEAN, t \in {<<Sql({}, {}, <<>>)>> \o p : p \in Pieces}}
  \cup {NewQuery(FALSE, FALSE, <<Choice(n, <<"events", "archive">>), Choice("T", ts)>>, Wide(k), {}) :
          n \in {"S", "T", "A"}, ts \in {<<"events">>, Three, <<"events", "other", "archive", "early">>}, k \in {0, 1, 2, 3, 4, 5}}
  \cup {NewQuery(FALSE, FALSE, <<>>, Tail(Wide(6)), {})}
\* Queries for the server declare the types of their parameters and assume nothing.
MCQueries == {q \in AllQueries : q.server => {OfTable, Assumes} \cap Range(q.lines) = {}}
MCColumnType == [t \in {"events", "archive", "other", "early", "lost", "keys"} |->
                   CASE t = "lost" -> Unknown [] t = "other" -> "UInt8" [] OTHER -> "String"]
=============================================================================

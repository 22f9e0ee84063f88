------------------------------ MODULE MCAnalysis ------------------------------
(* Instances of Analysis for TLC.  Lines are a base line and edits of it; the *)
(* symbols of a text are words, one of them blank and one a lone surrogate.   *)
EXTENDS Analysis

MCBlanks == {" "}
MCSurrogates == {"lone"}

S1(word) == Str(<<word>>)
Said(role, text) == [role |-> S1(role), content |-> Str(text)]

Asks == Obj([role |-> S1("assistant"),
             tool_calls |-> Arr(<<Obj([id |-> S1("c"), name |-> S1("f"), arguments |-> S1("a")])>>)])
Result == Obj([tool_call_id |-> S1("c")] @@ Said("tool", <<"r">>))
F == Obj([name |-> S1("f"), schema |-> Obj([type |-> S1("object")])])

Base == [request_id |-> S1("id"), timestamp |-> Num("7"), model |-> S1("m"),
         system |-> Str(<<"s", " ", "t">>), tools |-> Arr(<<F>>),
         messages |-> Arr(<<Obj(Said("user", <<"u">>))>>)]

Messages(list) == [messages |-> Arr(list)]

Edits == {
  <<>>,
  Messages(<<Obj(Said("user", <<"u">>)), Asks, Result>>),
  Messages(<<Obj(Said("user", <<"u", " ", "v">>))>>),
  [model |-> S1("n")],
  [tool_choice |-> Obj([type |-> S1("function"), function |-> Obj([name |-> S1("f")])])],
  [tools |-> Arr(<<F, Obj([name |-> S1("g")])>>)],
  [system |-> Str(<<"s", " ", "t", "t">>)],
  [system |-> Null, tools |-> Null],
  Messages(<<Obj([role |-> S1("user"), content |-> Num("7")])>>),
  Messages(<<Obj(Said("user", <<"lone">>))>>),
  [tools |-> Arr(<<Obj([name |-> S1("f"), schema |-> Obj([default |-> Num("NaN")])])>>)],
  [usage |-> Obj([input_tokens |-> Num("-1")])],
  [timestamp |-> Num("10**400")]}

MCLines == {Obj(edit @@ Base) : edit \in Edits}
             \cup {Blank, Garbage, [Obj(Base) EXCEPT !.twice = TRUE]}

-----------------------------------------------------------------------------
Tool(name) == Obj([type |-> S1("function"),
                   function |-> Obj([name |-> S1(name), parameters |-> Obj([type |-> S1("object")])])])

Plain == [model |-> S1("m"), system |-> S1("s"), user |-> S1("u"),
          tools |-> Arr(<<Tool("search_files"), Tool("read_file")>>), extra |-> Obj(<<>>)]

MCSessions == {
  Plain,
  [Plain EXCEPT !.extra = Obj([tool_choice |-> S1("auto")])],
  [Plain EXCEPT !.extra = Obj([temperature |-> Num("7")])],
  [Plain EXCEPT !.tools = Arr(<<F>>)],
  [Plain EXCEPT !.user = Str(<<"lone">>)]}

MCJsonTexts == (<<"query">> :> Obj([query |-> S1("q")])) @@ (<<"list">> :> Arr(<<>>))
  @@ (<<"read">> :> Obj([path |-> S1("p")]))
  @@ (<<"again">> :> Obj([path |-> S1("p"), start_line |-> Num("1")]))

MCFiles == {S1("p")}

Wants(id, name, arguments) ==
  Obj([id |-> Str(id), type |-> S1("function"), index |-> Num("0"),
       function |-> Obj([name |-> S1(name), arguments |-> S1(arguments)])])

Calls(calls) == Obj([tool_calls |-> Arr(calls), finish_reason |-> S1("tool_calls")])

MCReplies == {
  Calls(<<Wants(<<"1">>, "search_files", "query"), Wants(<<"2">>, "read_file", "list")>>),
  Calls(<<Wants(<<"3">>, "read_file", "read"), Wants(<<"4">>, "read_file", "again")>>),
  Calls(<<Wants(<<>>, "read_file", "broken")>>),
  Obj([content |-> S1("done"), finish_reason |-> S1("stop")]),
  Obj([content |-> Str(<<" ">>), finish_reason |-> S1("stop")]),
  Obj([content |-> S1("cut"), finish_reason |-> S1("length")]),
  Obj([content |-> Num("7")])}
=============================================================================

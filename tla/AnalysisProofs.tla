---------------------------- MODULE AnalysisProofs ----------------------------
(* The programs that compare requests, for every file, session, answer and    *)
(* number of loops: the strict reader turns nothing into a text, the router's *)
(* counters are those of the conversation, no server is left behind, a report *)
(* names what changed and tells the history of the calls, and an exit code is *)
(* earned.                                                                    *)
EXTENDS Analysis, StructureProofs, FiniteSetTheorems

-----------------------------------------------------------------------------
(* The server (module LocalServer), within the local pilot                    *)

(* Nothing is spawned before the probe; the port is the child's own only      *)
(* while the child listens; and an end comes after the child's.               *)
ServerInv ==
  /\ server \in {"verifying", "probing", "spawning", "refused"} => process = "none"
  /\ port = "own" => process = "listening"
  /\ server = "ended" => ~Alive

(* One case for the steps of the server, of its child and of the others on    *)
(* the port that can touch each part.                                         *)
LEMMA ServerStepKeeps ==
  ASSUME ServerInv, [ServerStep \/ Deadline \/ Leave \/ Environment]_serverVars
  PROVE  ServerInv'
<1> USE DEF ServerInv, Alive, Goto
<1>1. CASE Refuse \/ Verify \/ Probe
  BY <1>1 DEF Refuse, Verify, Probe
<1>2. CASE Spawn
  BY <1>2 DEF Spawn
<1>3. CASE Poll \/ Healthy \/ Unhealthy \/ Deadline
  BY <1>3 DEF Poll, Healthy, Unhealthy, Deadline
<1>4. CASE Leave \/ Stop \/ Waited
  BY <1>4 DEF Leave, Stop, Waited
<1>5. CASE Kill
  BY <1>5 DEF Kill
<1>6. CASE Listen \/ Exit
  BY <1>6 DEF Listen, Exit
<1>7. CASE OtherBinds
  BY <1>7 DEF OtherBinds
<1>8. CASE UNCHANGED serverVars
  BY <1>8 DEF serverVars
<1> QED
  BY <1>1, <1>2, <1>3, <1>4, <1>5, <1>6, <1>7, <1>8 DEF ServerStep, Environment

(* Of the server, the programs only note who has answered.                    *)
LEMMA ServerOrAnswered ==
  ASSUME [Next]_vars
  PROVE  \/ [ServerStep \/ Deadline \/ Leave \/ Environment]_serverVars
         \/ UNCHANGED <<server, process, port>>
BY DEF Next, vars, ByFile, ByScript, Main, Around, InferenceStep, LocalExit, serverVars

(* However local_server ends, by a refused file, a port in use, a deadline,   *)
(* an interrupt or the end of its block, and whatever its child, the loop and *)
(* other programs do meanwhile: its child is gone, and so is its hold on the  *)
(* port (local_runtime.py:80-87).                                             *)
THEOREM ServerIsStopped == Spec => []ServerStopped
<1>1. Init => ServerInv
  BY DEF Init, ServerInit, ServerInv, Alive
<1>2. ServerInv /\ [Next]_vars => ServerInv'
  <2>1. ASSUME ServerInv, UNCHANGED <<server, process, port>> PROVE ServerInv'
    BY <2>1 DEF ServerInv, Alive
  <2> QED
    BY <2>1, ServerStepKeeps, ServerOrAnswered
<1>3. ServerInv => ServerStopped
  BY DEF ServerInv, ServerStopped, Ended, Alive
<1> QED
  BY <1>1, <1>2, <1>3, PTL DEF Spec

-----------------------------------------------------------------------------
(* The strict reader (module JsonLines)                                       *)

(* The levels of a value are what their recursive definition says.            *)
Levels(v, n) == CHOOSE level : level = [d \in 0 .. n |->
                  IF d = 0 THEN {v} ELSE UNION {Children(x) : x \in level[d - 1]}]

LEMMA LevelsExist ==
  ASSUME NEW v, NEW n \in Nat
  PROVE  Levels(v, n) = [d \in 0 .. n |->
           IF d = 0 THEN {v} ELSE UNION {Children(x) : x \in Levels(v, n)[d - 1]}]
<1> DEFINE Next0(S) == UNION {Children(x) : x \in S}
           IsLevels(level, m) == level = [d \in 0 .. m |-> IF d = 0 THEN {v} ELSE Next0(level[d - 1])]
           Missing == {m \in Nat : ~ \E level : IsLevels(level, m)}
<1> HIDE DEF Next0
<1>1. Missing = {}
  <2> SUFFICES ASSUME Missing # {} PROVE FALSE
    OBVIOUS
  <2>1. PICK m \in Missing : \A k \in Missing : ~(<<k, m>> \in OpToRel(<, Nat))
    BY NatLessThanWellFounded, WFMin
  <2>2. \A k \in Nat : k < m => \E level : IsLevels(level, k)
    BY <2>1 DEF OpToRel
  <2>3. CASE m = 0
    <3>1. IsLevels([d \in 0 .. 0 |-> {v}], 0)
      BY SMT
    <3> QED
      BY <2>1, <2>3, <3>1
  <2>4. CASE m # 0
    <3>0. m \in Nat
      BY <2>1
    <3> HIDE DEF Missing
    <3>1. m - 1 \in Nat /\ m - 1 < m /\ m \in Nat
      BY <3>0, <2>4
    <3>2. PICK g : IsLevels(g, m - 1)
      BY <2>2, <3>1
    <3> DEFINE h == [d \in 0 .. m |-> IF d < m THEN g[d] ELSE Next0(g[m - 1])]
    <3>3. ASSUME NEW d \in 0 .. m PROVE h[d] = IF d = 0 THEN {v} ELSE Next0(h[d - 1])
      <4>1. CASE d = m
        BY <2>4, <3>1, <4>1
      <4>2. CASE d < m
        <5>1. d \in 0 .. m - 1 /\ (d # 0 => d - 1 \in 0 .. m /\ d - 1 < m)
          BY <3>1, <4>2
        <5>2. g[d] = IF d = 0 THEN {v} ELSE Next0(g[d - 1])
          BY <3>2, <5>1
        <5> QED
          BY <4>2, <5>1, <5>2
      <4> QED
        BY <3>1, <4>1, <4>2
    <3>4. h = [d \in 0 .. m |-> h[d]]
      OBVIOUS
    <3> HIDE DEF h
    <3>5. IsLevels(h, m)
      BY <3>3, <3>4
    <3> QED
      BY <2>1, <3>5 DEF Missing
  <2> QED
    BY <2>3, <2>4
<1>2. \E level : IsLevels(level, n)
  BY <1>1
<1> QED
  BY <1>2 DEF Levels, Next0

(* What is a part, step by step down to the depth json.loads can read.        *)
LEMMA PartsUnfold ==
  ASSUME NEW v
  PROVE  /\ Parts(v) = UNION {Levels(v, MaxDepth)[d] : d \in 0 .. MaxDepth}
         /\ v \in Levels(v, MaxDepth)[0]
         /\ \A d \in 0 .. MaxDepth - 1 : \A x \in Levels(v, MaxDepth)[d] :
              Children(x) \subseteq Levels(v, MaxDepth)[d + 1]
<1>1. MaxDepth \in Nat
  BY DepthAssumption DEF DepthAssumption
<1>2. Parts(v) = UNION {Levels(v, MaxDepth)[d] : d \in 0 .. MaxDepth}
  BY DEF Parts, Levels
<1>3. Levels(v, MaxDepth) = [d \in 0 .. MaxDepth |->
           IF d = 0 THEN {v} ELSE UNION {Children(x) : x \in Levels(v, MaxDepth)[d - 1]}]
  BY <1>1, LevelsExist
<1> DEFINE L == Levels(v, MaxDepth)
<1> HIDE DEF L
<1>4. \A d \in 0 .. MaxDepth : L[d] = IF d = 0 THEN {v} ELSE UNION {Children(x) : x \in L[d - 1]}
  BY <1>3 DEF L
<1>5. L[0] = {v}
  <2>1. 0 \in 0 .. MaxDepth
    BY <1>1
  <2> QED
    BY <1>4, <2>1
<1>6. \A d \in 0 .. MaxDepth - 1 : L[d + 1] = UNION {Children(x) : x \in L[d]}
  <2> SUFFICES ASSUME NEW d \in 0 .. MaxDepth - 1 PROVE L[d + 1] = UNION {Children(x) : x \in L[d]}
    OBVIOUS
  <2>1. d + 1 \in 0 .. MaxDepth /\ d + 1 # 0 /\ (d + 1) - 1 = d
    BY <1>1
  <2> QED
    BY <1>4, <2>1
<1>7. \A d \in 0 .. MaxDepth - 1 : \A x \in L[d] : Children(x) \subseteq L[d + 1]
  BY <1>6
<1> QED
  BY <1>2, <1>5, <1>7 DEF L

(* A field of an object and an item of a list lie one level down.             *)
LEMMA OneDown ==
  ASSUME NEW v, NEW d \in 0 .. MaxDepth - 1, NEW x \in Levels(v, MaxDepth)[d]
  PROVE  /\ Is("obj", x) => \A f \in DOMAIN x.obj : x.obj[f] \in Levels(v, MaxDepth)[d + 1]
         /\ Is("arr", x) => \A k \in DOMAIN x.arr : x.arr[k] \in Levels(v, MaxDepth)[d + 1]
<1>1. Children(x) \subseteq Levels(v, MaxDepth)[d + 1]
  BY PartsUnfold
<1>2. Is("obj", x) => \A f \in DOMAIN x.obj : x.obj[f] \in Children(x)
  BY DEF Children
<1>3. Is("arr", x) => \A k \in DOMAIN x.arr : x.arr[k] \in Children(x)
  BY DEF Children, ToSet
<1> QED
  BY <1>1, <1>2, <1>3

(* A text down to the depth of the format is among the strings of the value.  *)
LEMMA StringsFound ==
  ASSUME NEW v, NEW d \in 0 .. 5, NEW x \in Levels(v, MaxDepth)[d], Is("str", x)
  PROVE  x.str \in Strings(v)
<1>1. d \in 0 .. MaxDepth
  BY DepthAssumption DEF DepthAssumption
<1>2. x \in Parts(v)
  BY <1>1, PartsUnfold
<1> QED
  BY <1>2 DEF Strings

(* The format reaches five levels down, json.loads at least as many.          *)
LEMMA TopLevels ==
  \A d \in 0 .. 4 : d \in 0 .. MaxDepth - 1 /\ d \in 0 .. 5 /\ d + 1 \in 0 .. 5
BY DepthAssumption DEF DepthAssumption

(* A text and an array down to that depth are sequences.                      *)
LEMMA JsonLists ==
  ASSUME NEW v, IsJson(v), NEW d \in 0 .. 5, NEW x \in Levels(v, MaxDepth)[d]
  PROVE  (Is("str", x) => IsListOf(x.str)) /\ (Is("arr", x) => IsListOf(x.arr))
<1>1. d \in 0 .. MaxDepth
  BY DepthAssumption DEF DepthAssumption
<1>2. x \in Parts(v)
  BY <1>1, PartsUnfold
<1> QED
  BY <1>2 DEF IsJson, IsListOf

(* A tool that the strict reader accepts has its two texts from the line.     *)
LEMMA ToolTexts ==
  ASSUME NEW v, NEW x \in Levels(v, MaxDepth)[2], ValidTool(x), NEW f \in {"name", "description"}
  PROVE  ToolOf(x)[f] \in Strings(v) \cup {<<>>}
<1>1. Is("obj", x) /\ "name" \in DOMAIN x.obj /\ Is("str", x.obj["name"])
  BY DEF ValidTool, Shape, NonEmptyStr
<1>2. \A g \in DOMAIN x.obj : x.obj[g] \in Levels(v, MaxDepth)[3]
  <2>1. 2 \in 0 .. MaxDepth - 1 /\ 2 + 1 = 3
    BY TopLevels
  <2> QED
    BY <1>1, <2>1, OneDown
<1>3. \A g \in DOMAIN x.obj : Is("str", x.obj[g]) => x.obj[g].str \in Strings(v)
  BY <1>2, StringsFound
<1>4. ToolOf(x)["name"] = x.obj["name"].str
  BY <1>1 DEF ToolOf, StrOf
<1>5. ToolOf(x)["description"] = IF Has(x, "description") THEN x.obj["description"].str ELSE <<>>
  BY DEF ToolOf, StrOf, ValidTool
<1>6. Has(x, "description") => "description" \in DOMAIN x.obj /\ Is("str", x.obj["description"])
  BY DEF ValidTool, Has
<1> QED
  BY <1>1, <1>3, <1>4, <1>5, <1>6

(* So has a call of a message its three,                                      *)
LEMMA CallTexts ==
  ASSUME NEW v, NEW x \in Levels(v, MaxDepth)[4], ValidCall(x),
         NEW f \in {"id", "name", "arguments_raw"}
  PROVE  CallOf(x)[f] \in Strings(v)
<1>1. /\ Is("obj", x)
      /\ \A g \in {"id", "name", "arguments"} : g \in DOMAIN x.obj /\ Is("str", x.obj[g])
  BY DEF ValidCall, Shape, NonEmptyStr
<1>2. \A g \in DOMAIN x.obj : x.obj[g] \in Levels(v, MaxDepth)[5]
  <2>1. 4 \in 0 .. MaxDepth - 1 /\ 4 + 1 = 5
    BY TopLevels
  <2> QED
    BY <1>1, <2>1, OneDown
<1>3. \A g \in DOMAIN x.obj : Is("str", x.obj[g]) => x.obj[g].str \in Strings(v)
  BY <1>2, StringsFound
<1>4. /\ CallOf(x)["id"] = x.obj["id"].str /\ CallOf(x)["name"] = x.obj["name"].str
      /\ CallOf(x)["arguments_raw"] = x.obj["arguments"].str
  BY <1>1 DEF CallOf, StrOf, Has
<1> QED
  BY <1>1, <1>3, <1>4

(* and a message its own and those of its calls.                              *)
LEMMA MessageTexts ==
  ASSUME NEW v, NEW x \in Levels(v, MaxDepth)[2], ValidMessage(x)
  PROVE  TextsOfMessage(MessageOf(x)) \subseteq Strings(v) \cup {<<>>}
<1> DEFINE calls == Items(Field(x, "tool_calls"))
<1>1. Is("obj", x)
  BY DEF ValidMessage, Shape
<1>2. \A g \in DOMAIN x.obj : x.obj[g] \in Levels(v, MaxDepth)[3]
  <2>1. 2 \in 0 .. MaxDepth - 1 /\ 2 + 1 = 3
    BY TopLevels
  <2> QED
    BY <1>1, <2>1, OneDown
<1>3. \A g \in DOMAIN x.obj : Is("str", x.obj[g]) => x.obj[g].str \in Strings(v)
  BY <1>2, StringsFound
<1>4. /\ MessageOf(x).content = IF Field(x, "content") = Null THEN <<>> ELSE StrOf(x.obj["content"])
      /\ MessageOf(x).tool_call_id = RawOf(Field(x, "tool_call_id"))
      /\ MessageOf(x).tool_calls = [k \in DOMAIN calls |-> CallOf(calls[k])]
  BY DEF MessageOf
<1>5. MessageOf(x).content \in Strings(v) \cup {<<>>}
  <2>1. CASE Field(x, "content") = Null
    BY <1>4, <2>1
  <2>2. CASE Field(x, "content") # Null
    <3>1. "content" \in DOMAIN x.obj /\ Is("str", x.obj["content"])
      BY <2>2 DEF ValidMessage, StrOrNull, Field, Has
    <3>2. StrOf(x.obj["content"]) = x.obj["content"].str
      BY <3>1 DEF StrOf
    <3> QED
      BY <1>3, <1>4, <2>2, <3>1, <3>2
  <2> QED
    BY <2>1, <2>2
<1>6. MessageOf(x).tool_call_id # None => MessageOf(x).tool_call_id \in Strings(v)
  <2> SUFFICES ASSUME Field(x, "tool_call_id") # Null
               PROVE  RawOf(Field(x, "tool_call_id")) \in Strings(v)
    BY <1>4 DEF RawOf
  <2>1. "tool_call_id" \in DOMAIN x.obj /\ Field(x, "tool_call_id") = x.obj["tool_call_id"]
    BY DEF Field, Has
  <2>2. Is("str", x.obj["tool_call_id"])
    BY <2>1 DEF ValidMessage, NonEmptyStr
  <2> QED
    BY <1>3, <2>1, <2>2 DEF RawOf
<1>7. \A k \in DOMAIN calls : calls[k] \in Levels(v, MaxDepth)[4] /\ ValidCall(calls[k])
  <2>1. CASE Field(x, "tool_calls") = Null
    BY <2>1 DEF Items
  <2>2. CASE Field(x, "tool_calls") # Null
    <3> DEFINE list == x.obj["tool_calls"]
    <3>1. "tool_calls" \in DOMAIN x.obj /\ Field(x, "tool_calls") = list
      BY <2>2 DEF Field, Has
    <3>2. calls = list.arr
      BY <2>2, <3>1 DEF Items
    <3>3. Is("arr", list) /\ \A y \in ToSet(list.arr) : ValidCall(y)
      BY <2>2, <3>1, <3>2 DEF ValidMessage, ListOf, IsList
    <3>4. \A k \in DOMAIN list.arr : list.arr[k] \in Levels(v, MaxDepth)[4]
      <4>1. list \in Levels(v, MaxDepth)[3]
        BY <1>2, <3>1
      <4> HIDE DEF list
      <4> QED
        BY <4>1, <3>3, OneDown, TopLevels
    <3>5. \A k \in DOMAIN list.arr : ValidCall(list.arr[k])
      BY <3>3 DEF ToSet
    <3> QED
      BY <3>2, <3>4, <3>5
  <2> QED
    BY <2>1, <2>2
<1>8. \A c \in ToSet(MessageOf(x).tool_calls), f \in {"id", "name", "arguments_raw"} :
        c[f] \in Strings(v)
  <2> SUFFICES ASSUME NEW c \in ToSet(MessageOf(x).tool_calls),
                      NEW f \in {"id", "name", "arguments_raw"}
               PROVE  c[f] \in Strings(v)
    OBVIOUS
  <2> HIDE DEF calls
  <2>1. PICK k \in DOMAIN calls : c = CallOf(calls[k])
    BY <1>4 DEF ToSet
  <2> QED
    BY <1>7, <2>1, CallTexts
<1> QED
  BY <1>5, <1>6, <1>8 DEF TextsOfMessage

(* Whatever the strict reader accepts, every text of the request it makes is  *)
(* a string of the line, or the empty text: for every JSON value.             *)
LEMMA TextsAreStrings ==
  ASSUME NEW v, Accepts(v)
  PROVE  TextsOf(RequestOf(v)) \subseteq Strings(v) \cup {<<>>}
<1> DEFINE r == RequestOf(v)
           tools == Items(Field(v, "tools"))
           messages == v.obj.messages.arr
<1>1. ValidLine(v) /\ ParsesControls(v)
  BY DEF Accepts, ParsesLine
<1>2. Is("obj", v)
  BY <1>1 DEF ValidLine, Shape
<1>3. v \in Levels(v, MaxDepth)[0]
  BY PartsUnfold
<1>4. \A g \in DOMAIN v.obj : v.obj[g] \in Levels(v, MaxDepth)[1]
  BY <1>2, <1>3, OneDown, TopLevels
<1>5. \A g \in DOMAIN v.obj : Is("str", v.obj[g]) => v.obj[g].str \in Strings(v)
  BY <1>4, StringsFound
<1>6. /\ r.request_id = StrOf(v.obj["request_id"]) /\ r.model = StrOf(v.obj["model"])
      /\ r.system = RawOf(Field(v, "system"))
      /\ r.tools = [k \in DOMAIN tools |-> ToolOf(tools[k])]
      /\ r.messages = [k \in DOMAIN messages |-> MessageOf(messages[k])]
      /\ r.tool_choice = IF Has(v, "tool_choice") THEN ToolChoice(v.obj["tool_choice"]) ELSE None
  BY DEF RequestOf
<1>7. r.request_id \in Strings(v) /\ r.model \in Strings(v)
  <2>1. \A g \in {"request_id", "model"} : g \in DOMAIN v.obj /\ Is("str", v.obj[g])
    BY <1>1 DEF ValidLine, Shape, NonEmptyStr
  <2> QED
    BY <1>5, <1>6, <2>1 DEF StrOf
<1>8. \A tool \in ToSet(r.tools), f \in {"name", "description"} : tool[f] \in Strings(v) \cup {<<>>}
  <2> SUFFICES ASSUME NEW tool \in ToSet(r.tools), NEW f \in {"name", "description"}
               PROVE  tool[f] \in Strings(v) \cup {<<>>}
    OBVIOUS
  <2> HIDE DEF tools, r
  <2>1. PICK k \in DOMAIN tools : tool = ToolOf(tools[k])
    BY <1>6 DEF ToSet
  <2>2. Field(v, "tools") # Null
    BY <2>1 DEF tools, Items
  <2>3. "tools" \in DOMAIN v.obj /\ Field(v, "tools") = v.obj["tools"] /\ tools = v.obj["tools"].arr
    BY <2>2 DEF Field, Has, Items, tools
  <2>4. Is("arr", v.obj["tools"]) /\ \A y \in ToSet(tools) : ValidTool(y)
    BY <1>1, <2>2, <2>3 DEF ValidLine, ListOf, IsList, tools
  <2>5. tools[k] \in Levels(v, MaxDepth)[2]
    <3>1. v.obj["tools"] \in Levels(v, MaxDepth)[1]
      BY <1>4, <2>3
    <3> QED
      BY <2>1, <2>3, <2>4, <3>1, OneDown, TopLevels
  <2>6. ValidTool(tools[k])
    BY <2>1, <2>4 DEF ToSet
  <2> QED
    BY <2>1, <2>5, <2>6, ToolTexts
<1>9. r.system # None => r.system \in Strings(v)
  <2> SUFFICES ASSUME Field(v, "system") # Null
               PROVE  RawOf(Field(v, "system")) \in Strings(v)
    BY <1>6 DEF RawOf
  <2>1. "system" \in DOMAIN v.obj /\ Field(v, "system") = v.obj["system"]
    BY DEF Field, Has
  <2>2. Is("str", v.obj["system"])
    BY <1>1, <2>1 DEF ValidLine, StrOrNull
  <2> QED
    BY <1>5, <2>1, <2>2 DEF RawOf
<1>10. \A m \in ToSet(r.messages) : TextsOfMessage(m) \subseteq Strings(v) \cup {<<>>}
  <2> SUFFICES ASSUME NEW m \in ToSet(r.messages)
               PROVE  TextsOfMessage(m) \subseteq Strings(v) \cup {<<>>}
    OBVIOUS
  <2> HIDE DEF messages, r
  <2>1. PICK k \in DOMAIN messages : m = MessageOf(messages[k])
    BY <1>6 DEF ToSet
  <2>2. /\ "messages" \in DOMAIN v.obj /\ messages = v.obj["messages"].arr
        /\ v.obj["messages"] # Null => Is("arr", v.obj["messages"])
        /\ IsList(v.obj["messages"], FALSE)
        /\ \A y \in ToSet(Items(v.obj["messages"])) : ValidMessage(y)
    BY <1>1 DEF ValidLine, Shape, ListOf, IsList, messages
  <2>3. Is("arr", v.obj["messages"]) /\ v.obj["messages"] # Null
    BY <2>2 DEF IsList, Is, Null
  <2>4. messages[k] \in Levels(v, MaxDepth)[2]
    <3>1. v.obj["messages"] \in Levels(v, MaxDepth)[1]
      BY <1>4, <2>2
    <3> QED
      BY <2>1, <2>2, <2>3, <3>1, OneDown, TopLevels
  <2>5. ValidMessage(messages[k])
    BY <2>1, <2>2, <2>3 DEF ToSet, Items
  <2> QED
    BY <2>1, <2>4, <2>5, MessageTexts
<1>11. r.tool_choice # None /\ r.tool_choice.function_name # None =>
         r.tool_choice.function_name \in Strings(v)
  <2> DEFINE choice == v.obj["tool_choice"]
  <2> SUFFICES ASSUME Has(v, "tool_choice"), ~Is("str", choice)
               PROVE  choice.obj["function"].obj["name"].str \in Strings(v)
    BY <1>6 DEF ToolChoice
  <2>1. IsFunctionChoice(choice)
    BY <1>1 DEF ParsesControls, IsModeChoice
  <2>2. /\ Is("obj", choice) /\ "function" \in DOMAIN choice.obj
        /\ Is("obj", choice.obj["function"]) /\ "name" \in DOMAIN choice.obj["function"].obj
        /\ Is("str", choice.obj["function"].obj["name"])
    BY <2>1 DEF IsFunctionChoice, NonEmptyStr
  <2>3. choice \in Levels(v, MaxDepth)[1]
    BY <1>4 DEF Has
  <2> HIDE DEF choice
  <2>4. choice.obj["function"] \in Levels(v, MaxDepth)[2]
    BY <2>2, <2>3, OneDown, TopLevels
  <2>5. choice.obj["function"].obj["name"] \in Levels(v, MaxDepth)[3]
    BY <2>2, <2>4, OneDown, TopLevels
  <2> QED
    BY <2>2, <2>5, StringsFound
<1> HIDE DEF r
<1>12. \A t \in TextsOf(r) :
         \/ t \in {r.request_id, r.model}
         \/ \E tool \in ToSet(r.tools), f \in {"name", "description"} : t = tool[f]
         \/ r.system # None /\ t = r.system
         \/ \E m \in ToSet(r.messages) : t \in TextsOfMessage(m)
         \/ r.tool_choice # None /\ t = r.tool_choice.function_name /\ t # None
  BY DEF TextsOf
<1> QED
  BY <1>7, <1>8, <1>9, <1>10, <1>11, <1>12 DEF r

(* What the strict reader accepts it reads verbatim, for every value a line   *)
(* may be: no number, null or object becomes a text (strict_jsonl.py:3-4).    *)
THEOREM StrictReaderIsVerbatim == Spec => []NothingCoerced
<1>1. NothingCoerced
  BY TextsAreStrings DEF NothingCoerced
<1> QED
  BY <1>1, PTL

-----------------------------------------------------------------------------
(* The router's counters (module ToolLoop)                                    *)

(* What can stand in a reply the loop takes over, and in a list of messages.  *)
CallSet == UNION {ToSet(CallsOf(reply)) : reply \in {r \in Replies : Completes(r)}}

MessageSet ==
  (UNION {{Opening(s)[1], Opening(s)[2]} : s \in Sessions})
    \cup {AssistantMessage(reply) : reply \in {r \in Replies : Completes(r)}}
    \cup {ResultOf(call) : call \in CallSet}

(* The counters of repo_tools.py:36-39.                                       *)
Counters == {"search", "read", "repeated", "rejected"}

(* What the parts of the loop can be; in each place there is what its step    *)
(* takes.                                                                     *)
LoopTypes ==
  /\ session = None \/ session \in Sessions
  /\ lists \in Seq(Seq(MessageSet))
  /\ pending \in Seq(CallSet)
  /\ counts \in [Counters -> Nat]
  /\ place \in {"calling", "routing"} => lists # <<>>
  /\ place = "routing" => pending # <<>>

(* Every call of the list but those of message k has its result.              *)
SettledBut(list, k) ==
  \A other \in DOMAIN list \ {k} : \A i \in DOMAIN CallsOf(list[other]) : other + i <= Len(list)

(* Every call of the list has its result.                                     *)
Settled(list) == SettledBut(list, 0)

(* Of message k, the results up to the end of the list are there, and the     *)
(* pending calls are the others.                                              *)
AwaitedAt(list, k) ==
  /\ Len(CallsOf(list[k])) = (Len(list) - k) + Len(pending)
  /\ \A j \in DOMAIN pending : CallsOf(list[k])[(Len(list) - k) + j] = Rebuilt(pending[j])
  /\ SettledBut(list, k)

(* The counters count the results, and the reads asked for are those that     *)
(* have one.                                                                  *)
Counted ==
  /\ counts.search + counts.read + counts.rejected = Cardinality(Results)
  /\ counts.read - counts.repeated = Cardinality(asked)
  /\ IsFiniteSet(Results) /\ IsFiniteSet(asked)
  /\ asked = {ReadOf(Arguments(call)) : call \in AnsweredReads}

(* The loop calls only with every result in place, and routes the calls of    *)
(* one message in their order: what the counters then say of the whole        *)
(* conversation is inductive.                                                 *)
LoopInv ==
  /\ LoopTypes
  /\ place = "calling" => Settled(Current)
  /\ place = "routing" => \E k \in DOMAIN Current : AwaitedAt(Current, k)
  /\ Counted

(* The calls of an answer that is taken over are a list.                      *)
LEMMA CallsOfReply ==
  ASSUME NEW reply \in Replies, Completes(reply)
  PROVE  CallsOf(reply) \in Seq(CallSet)
<1>1. CallsOf(reply) \in Seq(ToSet(CallsOf(reply)))
  <2>1. CASE Has(reply, "tool_calls")
    <3>1. Is("obj", reply) /\ "tool_calls" \in DOMAIN reply.obj /\ Is("arr", reply.obj["tool_calls"])
      BY <2>1 DEF Completes, Has
    <3>2. reply.obj["tool_calls"] \in Levels(reply, MaxDepth)[1]
      <4>1. reply \in Levels(reply, MaxDepth)[0]
        BY PartsUnfold
      <4>2. \A f \in DOMAIN reply.obj : reply.obj[f] \in Levels(reply, MaxDepth)[1]
        <5>1. 0 \in 0 .. MaxDepth - 1 /\ 0 + 1 = 1
          BY TopLevels
        <5>2. Is("obj", reply)
          BY <3>1
        <5> QED
          BY <4>1, <5>1, <5>2, OneDown
      <4> QED
        BY <3>1, <4>2
    <3>3. IsJson(reply)
      BY RepliesAssumption DEF RepliesAssumption
    <3>4. IsListOf(reply.obj["tool_calls"].arr)
      BY <3>1, <3>2, <3>3, JsonLists
    <3> QED
      BY <2>1, <3>4 DEF CallsOf, IsListOf
  <2>2. CASE ~Has(reply, "tool_calls")
    BY <2>2 DEF CallsOf
  <2> QED
    BY <2>1, <2>2
<1>2. ToSet(CallsOf(reply)) \subseteq CallSet
  BY DEF CallSet
<1> QED
  BY <1>1, <1>2

(* The assistant's message lists the calls of the reply, rebuilt; no other    *)
(* message has calls.                                                         *)
LEMMA CallsOfAssistant ==
  ASSUME NEW reply
  PROVE  CallsOf(AssistantMessage(reply)) =
           [k \in DOMAIN CallsOf(reply) |-> Rebuilt(CallsOf(reply)[k])]
<1> DEFINE calls == [k \in DOMAIN CallsOf(reply) |-> Rebuilt(CallsOf(reply)[k])]
<1>1. CASE CallsOf(reply) = <<>>
  <2>1. CallsOf(AssistantMessage(reply)) = <<>>
    BY <1>1 DEF AssistantMessage, CallsOf, Has, Obj
  <2> QED
    BY <1>1, <2>1
<1>2. CASE CallsOf(reply) # <<>>
  <2>1. AssistantMessage(reply) =
          Obj([role |-> Str(<<"assistant">>), content |-> OrElse(Field(reply, "content"), Str(<<>>)),
               tool_calls |-> Arr(calls)])
    BY <1>2 DEF AssistantMessage
  <2> HIDE DEF calls
  <2>2. CallsOf(AssistantMessage(reply)) = calls
    BY <2>1 DEF CallsOf, Has, Obj, Arr
  <2> QED
    BY <2>2 DEF calls
<1> QED
  BY <1>1, <1>2

(* No other message has calls.                                                *)
LEMMA CallsOfOthers ==
  /\ \A s : CallsOf(Opening(s)[1]) = <<>> /\ CallsOf(Opening(s)[2]) = <<>>
  /\ \A call : CallsOf(ResultOf(call)) = <<>>
BY DEF CallsOf, Has, Opening, ResultOf, Obj

(* Whichever the message, its calls are a list.                               *)
LEMMA CallsOfMessages ==
  ASSUME NEW m \in MessageSet
  PROVE  Len(CallsOf(m)) \in Nat /\ DOMAIN CallsOf(m) = 1 .. Len(CallsOf(m))
<1>1. CASE \E s \in Sessions : m = Opening(s)[1] \/ m = Opening(s)[2]
  BY <1>1, CallsOfOthers
<1>2. CASE \E reply \in Replies : Completes(reply) /\ m = AssistantMessage(reply)
  <2>1. PICK reply \in Replies : Completes(reply) /\ m = AssistantMessage(reply)
    BY <1>2
  <2>2. CallsOf(reply) \in Seq(CallSet)
    BY <2>1, CallsOfReply
  <2>3. CallsOf(m) = [k \in 1 .. Len(CallsOf(reply)) |-> Rebuilt(CallsOf(reply)[k])]
    BY <2>1, <2>2, CallsOfAssistant
  <2> QED
    BY <2>2, <2>3
<1>3. CASE \E call \in CallSet : m = ResultOf(call)
  BY <1>3, CallsOfOthers
<1> QED
  BY <1>1, <1>2, <1>3 DEF MessageSet

(* A rebuilt call asks for the same.                                          *)
LEMMA Rebuilding ==
  ASSUME NEW call
  PROVE  Kind(Rebuilt(call)) = Kind(call) /\ Arguments(Rebuilt(call)) = Arguments(call)
<1>1. /\ Rebuilt(call).obj.function.obj.name = call.obj.function.obj.name
      /\ Rebuilt(call).obj.function.obj.arguments = call.obj.function.obj.arguments
  BY DEF Rebuilt, Obj
<1> QED
  BY <1>1 DEF Kind, Arguments

(* A call is a search, a read, or is rejected.                                *)
LEMMA Kinds ==
  \A call : Kind(call) \in {"search", "read", "rejected"}
BY DEF Kind

(* A call is answered where its result's place is within the list.            *)
LEMMA AnsweredWhere ==
  ASSUME NEW list, NEW c
  PROVE  c \in AnsweredIn(list) <=>
           \E k \in DOMAIN list : \E i \in DOMAIN CallsOf(list[k]) :
             k + i <= Len(list) /\ c = CallsOf(list[k])[i]
BY DEF AnsweredIn

(* A message more answers no call where none waits, and with a result the     *)
(* first of those that wait.                                                  *)
LEMMA AppendSettled ==
  ASSUME NEW list \in Seq(MessageSet), NEW m \in MessageSet, Settled(list)
  PROVE  /\ AnsweredIn(Append(list, m)) = AnsweredIn(list)
         /\ SettledBut(Append(list, m), Len(list) + 1)
<1> DEFINE more == Append(list, m)
<1>1. /\ Len(more) = Len(list) + 1 /\ DOMAIN more = 1 .. Len(list) + 1 /\ DOMAIN list = 1 .. Len(list)
      /\ Len(list) \in Nat /\ more[Len(list) + 1] = m
      /\ \A k \in DOMAIN list : more[k] = list[k]
  OBVIOUS
<1>2. \A k \in DOMAIN list : \A i \in DOMAIN CallsOf(list[k]) : i \in Nat \ {0} /\ k + i <= Len(list)
  <2> TAKE k \in DOMAIN list
  <2> TAKE i \in DOMAIN CallsOf(list[k])
  <2>1. k # 0 /\ list[k] \in MessageSet
    BY <1>1
  <2>2. i \in Nat \ {0}
    BY <2>1, CallsOfMessages
  <2> QED
    BY <2>1, <2>2 DEF Settled, SettledBut
<1>3. \A i \in DOMAIN CallsOf(m) : i \in Nat \ {0}
  BY CallsOfMessages
<1> HIDE DEF more
<1>4. \A k \in DOMAIN more : \A i \in DOMAIN CallsOf(more[k]) :
         k + i <= Len(more) => k \in DOMAIN list /\ k + i <= Len(list)
  <2> SUFFICES ASSUME NEW k \in DOMAIN more, NEW i \in DOMAIN CallsOf(more[k]), k + i <= Len(more)
               PROVE  k \in DOMAIN list /\ k + i <= Len(list)
    OBVIOUS
  <2>1. CASE k \in DOMAIN list
    BY <1>1, <1>2, <2>1
  <2>2. CASE k = Len(list) + 1
    BY <1>1, <1>3, <2>2
  <2> QED
    BY <1>1, <2>1, <2>2
<1>5. ASSUME NEW c PROVE c \in AnsweredIn(more) <=> c \in AnsweredIn(list)
  <2>1. ASSUME c \in AnsweredIn(more) PROVE c \in AnsweredIn(list)
    <3>1. PICK k \in DOMAIN more : \E i \in DOMAIN CallsOf(more[k]) :
             k + i <= Len(more) /\ c = CallsOf(more[k])[i]
      BY <2>1, AnsweredWhere
    <3> QED
      BY <1>1, <1>4, <3>1, AnsweredWhere
  <2>2. ASSUME c \in AnsweredIn(list) PROVE c \in AnsweredIn(more)
    <3>1. PICK k \in DOMAIN list : \E i \in DOMAIN CallsOf(list[k]) :
             k + i <= Len(list) /\ c = CallsOf(list[k])[i]
      BY <2>2, AnsweredWhere
    <3>2. PICK i \in DOMAIN CallsOf(list[k]) : k + i <= Len(list) /\ c = CallsOf(list[k])[i]
      BY <3>1
    <3>3. k \in DOMAIN more /\ i \in DOMAIN CallsOf(more[k]) /\ c = CallsOf(more[k])[i]
      BY <1>1, <3>2
    <3>4. k + i <= Len(more)
      BY <1>1, <1>2, <3>2
    <3> QED
      BY <3>3, <3>4, AnsweredWhere
  <2> QED
    BY <2>1, <2>2
<1>6. SettledBut(more, Len(list) + 1)
  BY <1>1, <1>2 DEF SettledBut
<1> QED
  BY <1>5, <1>6 DEF more

(* As the first of the pending calls gets its result, it is answered, and     *)
(* the others still wait.                                                     *)
LEMMA AppendAwaited ==
  ASSUME NEW list \in Seq(MessageSet), NEW m \in MessageSet, CallsOf(m) = <<>>,
         NEW k \in DOMAIN list, AwaitedAt(list, k), pending \in Seq(CallSet), pending # <<>>
  PROVE  /\ AnsweredIn(Append(list, m)) = AnsweredIn(list) \cup {Rebuilt(Head(pending))}
         /\ SettledBut(Append(list, m), k)
         /\ Len(CallsOf(list[k])) = (Len(list) + 1 - k) + Len(Tail(pending))
         /\ \A j \in DOMAIN Tail(pending) :
              CallsOf(list[k])[(Len(list) + 1 - k) + j] = Rebuilt(Tail(pending)[j])
<1> DEFINE more == Append(list, m)
           calls == CallsOf(list[k])
           next == Len(list) + 1 - k
<1>1. /\ Len(more) = Len(list) + 1 /\ DOMAIN more = 1 .. Len(list) + 1 /\ DOMAIN list = 1 .. Len(list)
      /\ Len(list) \in Nat /\ more[Len(list) + 1] = m
      /\ \A g \in DOMAIN list : more[g] = list[g] /\ list[g] \in MessageSet
  OBVIOUS
<1>2. \A g \in DOMAIN list : \A i \in DOMAIN CallsOf(list[g]) :
        i \in Nat \ {0} /\ (g # k => g + i <= Len(list))
  BY <1>1, CallsOfMessages DEF AwaitedAt, SettledBut
<1>3. /\ Len(pending) \in Nat \ {0} /\ DOMAIN pending = 1 .. Len(pending)
      /\ Head(pending) = pending[1] /\ Tail(pending) \in Seq(CallSet)
      /\ Len(Tail(pending)) = Len(pending) - 1 /\ DOMAIN Tail(pending) = 1 .. Len(pending) - 1
      /\ \A j \in 1 .. Len(pending) - 1 : Tail(pending)[j] = pending[j + 1]
  OBVIOUS
<1>4. /\ Len(calls) = (Len(list) - k) + Len(pending)
      /\ \A j \in DOMAIN pending : calls[(Len(list) - k) + j] = Rebuilt(pending[j])
      /\ DOMAIN calls = 1 .. Len(calls)
  BY <1>1, CallsOfMessages DEF AwaitedAt
<1> HIDE DEF more, calls
<1>5. k \in Nat \ {0} /\ next \in DOMAIN calls /\ calls[next] = Rebuilt(Head(pending)) /\ k + next = Len(more)
  BY <1>1, <1>3, <1>4
<1>6. ASSUME NEW c
      PROVE  c \in AnsweredIn(more) <=> c \in AnsweredIn(list) \/ c = Rebuilt(Head(pending))
  <2>1. ASSUME c \in AnsweredIn(more) PROVE c \in AnsweredIn(list) \/ c = Rebuilt(Head(pending))
    <3>1. PICK g \in DOMAIN more : \E i \in DOMAIN CallsOf(more[g]) :
             g + i <= Len(more) /\ c = CallsOf(more[g])[i]
      BY <2>1, AnsweredWhere
    <3>2. PICK i \in DOMAIN CallsOf(more[g]) : g + i <= Len(more) /\ c = CallsOf(more[g])[i]
      BY <3>1
    <3>3. g \in DOMAIN list
      BY <1>1, <3>2
    <3>4. CASE g + i <= Len(list)
      BY <1>1, <3>2, <3>3, <3>4, AnsweredWhere
    <3>5. CASE ~(g + i <= Len(list))
      <4>1. g = k
        BY <1>1, <1>2, <3>2, <3>3, <3>5
      <4>2. i \in Nat \ {0}
        BY <1>1, <1>2, <3>2, <3>3
      <4>3. i = next
        BY <1>1, <1>5, <3>2, <3>5, <4>1, <4>2
      <4> QED
        BY <1>1, <1>5, <3>2, <4>1, <4>3 DEF calls
    <3> QED
      BY <3>4, <3>5
  <2>2. ASSUME c \in AnsweredIn(list) PROVE c \in AnsweredIn(more)
    <3>1. PICK g \in DOMAIN list : \E i \in DOMAIN CallsOf(list[g]) :
             g + i <= Len(list) /\ c = CallsOf(list[g])[i]
      BY <2>2, AnsweredWhere
    <3>2. PICK i \in DOMAIN CallsOf(list[g]) : g + i <= Len(list) /\ c = CallsOf(list[g])[i]
      BY <3>1
    <3>3. g \in DOMAIN more /\ i \in DOMAIN CallsOf(more[g]) /\ c = CallsOf(more[g])[i]
      BY <1>1, <3>2
    <3>4. g + i <= Len(more)
      BY <1>1, <1>2, <3>2
    <3> QED
      BY <3>3, <3>4, AnsweredWhere
  <2>3. Rebuilt(Head(pending)) \in AnsweredIn(more)
    <3>1. k \in DOMAIN more /\ CallsOf(more[k]) = calls /\ k + next <= Len(more)
      BY <1>1, <1>5 DEF calls
    <3> QED
      BY <1>5, <3>1, AnsweredWhere
  <2> QED
    BY <2>1, <2>2, <2>3
<1>7. SettledBut(more, k)
  <2> SUFFICES ASSUME NEW g \in DOMAIN more \ {k}, NEW i \in DOMAIN CallsOf(more[g])
               PROVE  g + i <= Len(more)
    BY DEF SettledBut
  <2>1. g \in DOMAIN list
    BY <1>1
  <2> QED
    BY <1>1, <1>2, <2>1
<1>8. /\ Len(calls) = next + Len(Tail(pending))
      /\ \A j \in DOMAIN Tail(pending) : calls[next + j] = Rebuilt(Tail(pending)[j])
  <2>1. Len(calls) = next + Len(Tail(pending))
    BY <1>1, <1>3, <1>4
  <2>2. ASSUME NEW j \in DOMAIN Tail(pending) PROVE calls[next + j] = Rebuilt(Tail(pending)[j])
    <3>1. j + 1 \in DOMAIN pending /\ next + j = (Len(list) - k) + (j + 1) /\ Tail(pending)[j] = pending[j + 1]
      BY <1>1, <1>3
    <3> QED
      BY <1>4, <3>1
  <2> QED
    BY <2>1, <2>2
<1> QED
  BY <1>6, <1>7, <1>8 DEF more, calls

(* What the current list gains, the sets of results and of reads gain.        *)
Tool(m) == m.obj.role = Str(<<"tool">>)

(* Only the last list grows, by one message at its end.                       *)
LEMMA ExtendedLists ==
  ASSUME lists \in Seq(Seq(MessageSet)), lists # <<>>, NEW m \in MessageSet, lists' = Extended(m)
  PROVE  /\ lists' \in Seq(Seq(MessageSet)) /\ lists' # <<>>
         /\ Current \in Seq(MessageSet) /\ Current' = Append(Current, m)
         /\ DOMAIN lists' = DOMAIN lists /\ Len(lists) \in DOMAIN lists
         /\ \A l \in DOMAIN lists \ {Len(lists)} : lists'[l] = lists[l]
         /\ lists'[Len(lists)] = Append(Current, m)
BY DEF Extended, Current

(* Results, of any lists.                                                     *)
ResultsOf(ls) == {at \in UNION {{l} \X DOMAIN ls[l] : l \in DOMAIN ls} :
                    ls[at[1]][at[2]].obj.role = Str(<<"tool">>)}

(* Where there is a result there is a message that says so.                   *)
LEMMA ResultsWhere ==
  ASSUME NEW ls, NEW at
  PROVE  at \in ResultsOf(ls) <=>
           \E l \in DOMAIN ls : \E k \in DOMAIN ls[l] : at = <<l, k>> /\ Tool(ls[l][k])
<1>1. ASSUME at \in ResultsOf(ls)
      PROVE  \E l \in DOMAIN ls : \E k \in DOMAIN ls[l] : at = <<l, k>> /\ Tool(ls[l][k])
  <2>1. PICK l \in DOMAIN ls : at \in {l} \X DOMAIN ls[l]
    BY <1>1 DEF ResultsOf
  <2>2. at = <<l, at[2]>> /\ at[1] = l /\ at[2] \in DOMAIN ls[l]
    BY <2>1
  <2>3. ls[at[1]][at[2]].obj.role = Str(<<"tool">>)
    BY <1>1 DEF ResultsOf
  <2> QED
    BY <2>2, <2>3 DEF Tool
<1>2. ASSUME NEW l \in DOMAIN ls, NEW k \in DOMAIN ls[l], Tool(ls[l][k])
      PROVE  <<l, k>> \in ResultsOf(ls)
  <2>1. <<l, k>> \in {l} \X DOMAIN ls[l]
    OBVIOUS
  <2> QED
    BY <1>2, <2>1 DEF ResultsOf, Tool
<1> QED
  BY <1>1, <1>2

(* A message at the end of the last list is one place more, and counts if it  *)
(* is a result.                                                               *)
LEMMA ExtendedResults ==
  ASSUME lists \in Seq(Seq(MessageSet)), lists # <<>>, NEW m \in MessageSet, lists' = Extended(m),
         IsFiniteSet(Results)
  PROVE  /\ IsFiniteSet(Results')
         /\ Cardinality(Results') = IF Tool(m) THEN Cardinality(Results) + 1 ELSE Cardinality(Results)
<1> DEFINE new == <<Len(lists), Len(Current) + 1>>
<1>1. /\ DOMAIN lists' = DOMAIN lists /\ Len(lists) \in DOMAIN lists
      /\ \A l \in DOMAIN lists \ {Len(lists)} : lists'[l] = lists[l]
      /\ lists'[Len(lists)] = Append(Current, m) /\ Current \in Seq(MessageSet)
      /\ Current = lists[Len(lists)]
  BY ExtendedLists DEF Current
<1>2. /\ DOMAIN Append(Current, m) = DOMAIN Current \cup {Len(Current) + 1}
      /\ Len(Current) + 1 \notin DOMAIN Current
      /\ Append(Current, m)[Len(Current) + 1] = m
      /\ \A k \in DOMAIN Current : Append(Current, m)[k] = Current[k]
  BY <1>1
<1>3. Results = ResultsOf(lists) /\ Results' = ResultsOf(lists')
  BY DEF Results, ResultsOf
<1>4. ASSUME NEW at PROVE at \in Results' <=> at \in Results \/ (at = new /\ Tool(m))
  <2>1. ASSUME NEW l \in DOMAIN lists, l # Len(lists), NEW k
        PROVE  (k \in DOMAIN lists'[l] /\ Tool(lists'[l][k])) <=> (k \in DOMAIN lists[l] /\ Tool(lists[l][k]))
    BY <1>1, <2>1
  <2>2. ASSUME NEW k
        PROVE  (k \in DOMAIN lists'[Len(lists)] /\ Tool(lists'[Len(lists)][k]))
                 <=> \/ k \in DOMAIN lists[Len(lists)] /\ Tool(lists[Len(lists)][k])
                     \/ k = Len(Current) + 1 /\ Tool(m)
    BY <1>1, <1>2
  <2>3. at \in Results' <=>
          \E l \in DOMAIN lists : \E k \in DOMAIN lists'[l] : at = <<l, k>> /\ Tool(lists'[l][k])
    BY <1>1, <1>3, ResultsWhere
  <2>4. at \in Results <=>
          \E l \in DOMAIN lists : \E k \in DOMAIN lists[l] : at = <<l, k>> /\ Tool(lists[l][k])
    BY <1>3, ResultsWhere
  <2>5. ASSUME at \in Results' PROVE at \in Results \/ (at = new /\ Tool(m))
    <3>1. PICK l \in DOMAIN lists : \E k \in DOMAIN lists'[l] : at = <<l, k>> /\ Tool(lists'[l][k])
      BY <2>3, <2>5
    <3>2. PICK k \in DOMAIN lists'[l] : at = <<l, k>> /\ Tool(lists'[l][k])
      BY <3>1
    <3>3. CASE l # Len(lists)
      BY <2>1, <2>4, <3>2, <3>3
    <3>4. CASE l = Len(lists)
      BY <1>1, <2>2, <2>4, <3>2, <3>4
    <3> QED
      BY <3>3, <3>4
  <2>6. ASSUME at \in Results PROVE at \in Results'
    <3>1. PICK l \in DOMAIN lists : \E k \in DOMAIN lists[l] : at = <<l, k>> /\ Tool(lists[l][k])
      BY <2>4, <2>6
    <3>2. PICK k \in DOMAIN lists[l] : at = <<l, k>> /\ Tool(lists[l][k])
      BY <3>1
    <3>3. CASE l # Len(lists)
      BY <2>1, <2>3, <3>2, <3>3
    <3>4. CASE l = Len(lists)
      BY <1>1, <2>2, <2>3, <3>2, <3>4
    <3> QED
      BY <3>3, <3>4
  <2>7. at = new /\ Tool(m) => at \in Results'
    BY <1>1, <2>2, <2>3
  <2> QED
    BY <2>5, <2>6, <2>7
<1>5. new \notin Results
  <2> SUFFICES ASSUME NEW l \in DOMAIN lists, NEW k \in DOMAIN lists[l], new = <<l, k>>
               PROVE  FALSE
    BY <1>3, ResultsWhere
  <2>1. l = Len(lists) /\ k = Len(Current) + 1
    OBVIOUS
  <2> QED
    BY <1>1, <1>2, <2>1
<1> HIDE DEF new
<1>6. CASE Tool(m)
  <2>1. Results' = Results \cup {new}
    BY <1>4, <1>6
  <2> QED
    BY <1>5, <1>6, <2>1, FS_AddElement
<1>7. CASE ~Tool(m)
  <2>1. Results' = Results
    BY <1>4, <1>7
  <2> QED
    BY <1>7, <2>1
<1> QED
  BY <1>6, <1>7

(* What a message adds to the answered reads it adds in the last list.        *)
LEMMA ExtendedAnswers ==
  ASSUME lists \in Seq(Seq(MessageSet)), lists # <<>>, NEW m \in MessageSet, lists' = Extended(m),
         NEW D, AnsweredIn(Append(Current, m)) = AnsweredIn(Current) \cup D
  PROVE  AnsweredReads' = AnsweredReads \cup {c \in D : Kind(c) = "read"}
<1>1. /\ DOMAIN lists' = DOMAIN lists /\ Len(lists) \in DOMAIN lists
      /\ \A l \in DOMAIN lists \ {Len(lists)} : lists'[l] = lists[l]
      /\ lists'[Len(lists)] = Append(Current, m)
      /\ Current = lists[Len(lists)]
  BY ExtendedLists DEF Current
<1>2. ASSUME NEW c
      PROVE  (\E l \in DOMAIN lists' : c \in AnsweredIn(lists'[l]))
               <=> (\E l \in DOMAIN lists : c \in AnsweredIn(lists[l])) \/ c \in D
  BY <1>1
<1> QED
  BY <1>2 DEF AnsweredReads

(* The roles tell a result from an answer.                                    *)
LEMMA RoleOfTool == Str(<<"tool">>) # Str(<<"assistant">>)
BY DEF Str

(* Of the messages of the loop, the results alone have the role tool.         *)
LEMMA RolesOfMessages ==
  /\ \A reply : ~Tool(AssistantMessage(reply))
  /\ \A call : Tool(ResultOf(call))
<1>1. \A reply : AssistantMessage(reply).obj.role = Str(<<"assistant">>)
  BY DEF AssistantMessage, Obj
<1>2. \A call : ResultOf(call).obj.role = Str(<<"tool">>)
  BY DEF ResultOf, Obj
<1> QED
  BY <1>1, <1>2, RoleOfTool DEF Tool

(* RouteCall: the first pending call gets its result, and one counter goes    *)
(* up; a read that was asked for is a repeated one, any other is new among    *)
(* the reads answered.                                                        *)
LEMMA RoutedCall ==
  ASSUME LoopInv, RouteCall
  PROVE  LoopInv'
<1> DEFINE call == Head(pending)
           kind == Kind(call)
           read == ReadOf(Arguments(call))
           m == ResultOf(call)
<1>1. /\ lists \in Seq(Seq(MessageSet)) /\ lists # <<>>
      /\ pending \in Seq(CallSet) /\ pending # <<>> /\ place = "routing"
      /\ counts \in [Counters -> Nat]
  BY DEF LoopInv, LoopTypes, RouteCall
<1>2. /\ lists' = Extended(m) /\ pending' = Tail(pending) /\ session' = session
      /\ place' = IF pending' = <<>> THEN "calling" ELSE "routing"
      /\ Count(kind, Arguments(call))
  BY DEF RouteCall
<1>3. call \in CallSet /\ m \in MessageSet /\ pending' \in Seq(CallSet)
  BY <1>1, <1>2 DEF MessageSet
<1>4. kind \in {"search", "read", "rejected"} /\ CallsOf(m) = <<>> /\ Tool(m)
  BY Kinds, CallsOfOthers, RolesOfMessages
<1>5. /\ lists' \in Seq(Seq(MessageSet)) /\ lists' # <<>>
      /\ Current \in Seq(MessageSet) /\ Current' = Append(Current, m)
  BY <1>1, <1>2, <1>3, ExtendedLists
<1>6. PICK k \in DOMAIN Current : AwaitedAt(Current, k)
  BY <1>1 DEF LoopInv
<1>7. /\ AnsweredIn(Append(Current, m)) = AnsweredIn(Current) \cup {Rebuilt(call)}
      /\ SettledBut(Append(Current, m), k)
      /\ Len(CallsOf(Current[k])) = (Len(Current) + 1 - k) + Len(Tail(pending))
      /\ \A j \in DOMAIN Tail(pending) :
           CallsOf(Current[k])[(Len(Current) + 1 - k) + j] = Rebuilt(Tail(pending)[j])
  BY <1>1, <1>3, <1>4, <1>5, <1>6, AppendAwaited
<1> HIDE DEF m, call, kind, read
<1>8. /\ Len(Current') = Len(Current) + 1 /\ k \in DOMAIN Current' /\ Current'[k] = Current[k]
      /\ k \in Nat \ {0} /\ Len(Current) \in Nat /\ Current[k] \in MessageSet
  BY <1>3, <1>5, <1>6
<1>9. AwaitedAt(Current, k)'
  BY <1>2, <1>5, <1>7, <1>8 DEF AwaitedAt, SettledBut
<1>10. pending' = <<>> => Settled(Current')
  <2> SUFFICES ASSUME pending' = <<>>, NEW g \in DOMAIN Current', NEW i \in DOMAIN CallsOf(Current'[g])
               PROVE  g + i <= Len(Current')
    BY DEF Settled, SettledBut
  <2>1. CASE g = k
    <3> DEFINE left == Len(Tail(pending))
    <3>0. left = 0
      <4>1. Tail(pending) = <<>>
        BY <1>2
      <4>2. Len(<<>>) = 0
        OBVIOUS
      <4> QED
        BY <4>1, <4>2
    <3>1. Len(CallsOf(Current[k])) = Len(Current) + 1 - k
      <4>1. Len(CallsOf(Current[k])) = (Len(Current) + 1 - k) + left
        BY <1>7
      <4> HIDE DEF left
      <4> QED
        BY <1>8, <3>0, <4>1
    <3>2. i \in 1 .. Len(Current) + 1 - k
      BY <1>8, <2>1, <3>1, CallsOfMessages
    <3> QED
      BY <1>8, <2>1, <3>2
  <2>2. CASE g # k
    BY <1>5, <1>7, <2>2 DEF SettledBut
  <2> QED
    BY <2>1, <2>2
<1> DEFINE again == IF kind = "read" /\ read \in asked THEN 1 ELSE 0
           gains == {kind} \cup (IF kind = "read" /\ read \in asked THEN {"repeated"} ELSE {})
<1>11. /\ counts' = [c \in DOMAIN counts |-> IF c \in gains THEN counts[c] + 1 ELSE counts[c]]
       /\ asked' = asked \cup (IF kind = "read" THEN {read} ELSE {})
  BY <1>2 DEF Count, read
<1>12. /\ counts' \in [Counters -> Nat]
       /\ counts'["repeated"] = counts["repeated"] + again
       /\ \A c \in {"search", "read", "rejected"} :
            counts'[c] = IF c = kind THEN counts[c] + 1 ELSE counts[c]
       /\ \A c \in Counters : counts[c] \in Nat
  <2>1. "repeated" \in gains <=> again = 1
    BY <1>4
  <2>2. \A c \in {"search", "read", "rejected"} : c \in gains <=> c = kind
    BY <1>4
  <2>3. again \in {0, 1}
    OBVIOUS
  <2> HIDE DEF gains, again
  <2>4. DOMAIN counts = Counters /\ \A c \in Counters : counts[c] \in Nat
    BY <1>1
  <2>5. counts' = [c \in Counters |-> IF c \in gains THEN counts[c] + 1 ELSE counts[c]]
    BY <1>11, <2>4
  <2>6. \A c \in Counters : counts'[c] = IF c \in gains THEN counts[c] + 1 ELSE counts[c]
    BY <2>5
  <2>7. counts' \in [Counters -> Nat]
    BY <2>4, <2>5
  <2>8. counts'["repeated"] = counts["repeated"] + again
    <3>1. "repeated" \in Counters
      BY DEF Counters
    <3>2. counts["repeated"] \in Nat
      BY <2>4, <3>1
    <3> QED
      BY <2>1, <2>3, <2>6, <3>1, <3>2
  <2>9. \A c \in {"search", "read", "rejected"} :
          counts'[c] = IF c = kind THEN counts[c] + 1 ELSE counts[c]
    <3>1. {"search", "read", "rejected"} \subseteq Counters
      BY DEF Counters
    <3> QED
      BY <2>2, <2>6, <3>1
  <2> QED
    BY <2>4, <2>7, <2>8, <2>9
<1>13. again \in {0, 1} /\ (again = 1 <=> kind = "read" /\ read \in asked)
  OBVIOUS
<1> HIDE DEF again, gains
<1>14. LoopTypes'
  BY <1>1, <1>2, <1>3, <1>5, <1>12 DEF LoopInv, LoopTypes
<1>15. Counted'
  <2>1. IsFiniteSet(Results') /\ Cardinality(Results') = Cardinality(Results) + 1
    BY <1>1, <1>2, <1>3, <1>4, ExtendedResults DEF LoopInv, Counted
  <2>2. /\ counts.search \in Nat /\ counts.read \in Nat /\ counts.rejected \in Nat
        /\ counts.repeated \in Nat /\ counts'.repeated = counts.repeated + again
        /\ counts'.search = IF kind = "search" THEN counts.search + 1 ELSE counts.search
        /\ counts'.read = IF kind = "read" THEN counts.read + 1 ELSE counts.read
        /\ counts'.rejected = IF kind = "rejected" THEN counts.rejected + 1 ELSE counts.rejected
    BY <1>12 DEF Counters
  <2>3. counts'.search + counts'.read + counts'.rejected
          = counts.search + counts.read + counts.rejected + 1
    <3>1. CASE kind = "search"
      BY <2>2, <3>1
    <3>2. CASE kind = "read"
      BY <2>2, <3>2
    <3>3. CASE kind = "rejected"
      BY <2>2, <3>3
    <3> QED
      BY <1>4, <3>1, <3>2, <3>3
  <2>4. AnsweredReads' = AnsweredReads \cup {c \in {Rebuilt(call)} : Kind(c) = "read"}
    BY <1>1, <1>2, <1>3, <1>7, ExtendedAnswers
  <2>5. Kind(Rebuilt(call)) = kind /\ ReadOf(Arguments(Rebuilt(call))) = read
    BY Rebuilding DEF kind, read
  <2>6. asked' = {ReadOf(Arguments(c)) : c \in AnsweredReads'}
    BY <1>11, <2>4, <2>5 DEF LoopInv, Counted
  <2>7. IsFiniteSet(asked) /\ counts.read - counts.repeated = Cardinality(asked)
    BY DEF LoopInv, Counted
  <2>8. /\ IsFiniteSet(asked')
        /\ counts'.read - counts'.repeated = Cardinality(asked')
    <3>1. CASE kind # "read"
      <4>1. asked' = asked /\ again = 0
        BY <1>11, <1>13, <3>1
      <4> QED
        BY <2>2, <2>7, <3>1, <4>1
    <3>2. CASE kind = "read" /\ read \in asked
      <4>1. asked' = asked /\ again = 1
        BY <1>11, <1>13, <3>2
      <4>2. counts'.read - counts'.repeated = counts.read - counts.repeated
        BY <2>2, <3>2, <4>1
      <4> QED
        BY <2>7, <4>1, <4>2
    <3>3. CASE kind = "read" /\ read \notin asked
      <4>1. IsFiniteSet(asked') /\ Cardinality(asked') = Cardinality(asked) + 1
        BY <1>11, <2>7, <3>3, FS_AddElement
      <4>2. again = 0
        BY <1>13, <3>3
      <4>3. counts'.read - counts'.repeated = (counts.read - counts.repeated) + 1
        BY <2>2, <3>3, <4>2
      <4> QED
        BY <2>7, <4>1, <4>3
    <3> QED
      BY <3>1, <3>2, <3>3
  <2>9. counts'.search + counts'.read + counts'.rejected = Cardinality(Results')
    BY <2>1, <2>2, <2>3 DEF LoopInv, Counted
  <2> QED
    BY <2>1, <2>6, <2>8, <2>9 DEF Counted
<1> QED
  BY <1>2, <1>8, <1>9, <1>10, <1>14, <1>15 DEF LoopInv

(* A conversation opens without calls and results.                            *)
LEMMA OpeningHasNoCalls ==
  ASSUME NEW s \in Sessions
  PROVE  /\ Opening(s) \in Seq(MessageSet) /\ Opening(s) # <<>> /\ DOMAIN Opening(s) = {1, 2}
         /\ \A k \in DOMAIN Opening(s) : CallsOf(Opening(s)[k]) = <<>> /\ ~Tool(Opening(s)[k])
<1>1. Opening(s)[1] \in MessageSet /\ Opening(s)[2] \in MessageSet
  BY DEF MessageSet
<1>2. /\ Len(Opening(s)) = 2 /\ DOMAIN Opening(s) = 1 .. 2
      /\ Opening(s) = [k \in 1 .. 2 |-> Opening(s)[k]]
  BY DEF Opening
<1>3. Opening(s) \in Seq(MessageSet) /\ Opening(s) # <<>> /\ DOMAIN Opening(s) = {1, 2}
  <2>1. \A k \in 1 .. 2 : Opening(s)[k] \in MessageSet
    BY <1>1
  <2>2. [k \in 1 .. 2 |-> Opening(s)[k]] \in Seq(MessageSet)
    BY <2>1
  <2>3. DOMAIN Opening(s) = {1, 2}
    BY <1>2
  <2> QED
    BY <1>2, <2>2, <2>3
<1>4. /\ Opening(s)[1].obj.role = Str(<<"system">>)
      /\ Opening(s)[2].obj.role = Str(<<"user">>)
  BY DEF Opening, Obj
<1>5. Str(<<"system">>) # Str(<<"tool">>) /\ Str(<<"user">>) # Str(<<"tool">>)
  BY DEF Str
<1> QED
  BY <1>3, <1>4, <1>5, CallsOfOthers DEF Tool

(* StartLoop: a list more, in which nothing waits.                            *)
LEMMA StartedLoop ==
  ASSUME LoopInv, StartLoop
  PROVE  LoopInv'
<1> DEFINE list == Opening(session')
<1>1. /\ lists' = Append(lists, list) /\ session' \in Sessions /\ place' = "calling"
      /\ pending' = pending /\ counts' = counts /\ asked' = asked
      /\ lists \in Seq(Seq(MessageSet)) /\ pending \in Seq(CallSet) /\ counts \in [Counters -> Nat]
  BY DEF StartLoop, LoopInv, LoopTypes
<1>2. /\ list \in Seq(MessageSet) /\ DOMAIN list = {1, 2}
      /\ \A k \in DOMAIN list : CallsOf(list[k]) = <<>> /\ ~Tool(list[k])
  BY <1>1, OpeningHasNoCalls
<1> HIDE DEF list
<1>3. /\ lists' \in Seq(Seq(MessageSet)) /\ lists' # <<>> /\ Current' = list
      /\ DOMAIN lists' = DOMAIN lists \cup {Len(lists) + 1} /\ lists'[Len(lists) + 1] = list
      /\ \A l \in DOMAIN lists : lists'[l] = lists[l]
  <2>1. /\ lists' \in Seq(Seq(MessageSet)) /\ Len(lists') = Len(lists) + 1 /\ lists' # <<>>
        /\ DOMAIN lists' = 1 .. Len(lists) + 1 /\ DOMAIN lists = 1 .. Len(lists) /\ Len(lists) \in Nat
        /\ lists'[Len(lists) + 1] = list
        /\ \A l \in DOMAIN lists : lists'[l] = lists[l]
    BY <1>1, <1>2
  <2>2. Current' = list
    BY <2>1 DEF Current
  <2>3. DOMAIN lists' = DOMAIN lists \cup {Len(lists) + 1}
    BY <2>1
  <2> QED
    BY <2>1, <2>2, <2>3
<1>4. LoopTypes'
  BY <1>1, <1>3 DEF LoopTypes
<1>5. Settled(Current')
  BY <1>2, <1>3 DEF Settled, SettledBut
<1>6. Results' = Results
  <2>1. Results = ResultsOf(lists) /\ Results' = ResultsOf(lists')
    BY DEF Results, ResultsOf
  <2>2. ASSUME NEW at PROVE at \in ResultsOf(lists') => at \in ResultsOf(lists)
    <3> SUFFICES ASSUME NEW l \in DOMAIN lists', NEW k \in DOMAIN lists'[l],
                        at = <<l, k>>, Tool(lists'[l][k])
                 PROVE  at \in ResultsOf(lists)
      BY ResultsWhere
    <3>1. l \in DOMAIN lists
      BY <1>2, <1>3
    <3> QED
      BY <1>3, <3>1, ResultsWhere
  <2>3. ASSUME NEW at PROVE at \in ResultsOf(lists) => at \in ResultsOf(lists')
    BY <1>3, ResultsWhere
  <2> QED
    BY <2>1, <2>2, <2>3
<1>7. AnsweredReads' = AnsweredReads
  <2>1. \A c : c \notin AnsweredIn(list)
    BY <1>2, AnsweredWhere
  <2>2. ASSUME NEW c
        PROVE  (\E l \in DOMAIN lists' : c \in AnsweredIn(lists'[l]))
                 <=> (\E l \in DOMAIN lists : c \in AnsweredIn(lists[l]))
    BY <1>3, <2>1
  <2> QED
    BY <2>2 DEF AnsweredReads
<1>8. Counted'
  BY <1>1, <1>6, <1>7 DEF LoopInv, Counted
<1> QED
  BY <1>1, <1>4, <1>5, <1>8 DEF LoopInv

(* Answer: the assistant's message, after which all its calls wait.           *)
LEMMA AnsweredCall ==
  ASSUME LoopInv, NEW reply \in Replies, Answer(reply)
  PROVE  LoopInv'
<1> DEFINE m == AssistantMessage(reply)
           calls == CallsOf(reply)
<1>1. /\ lists \in Seq(Seq(MessageSet)) /\ lists # <<>> /\ Settled(Current)
      /\ counts \in [Counters -> Nat] /\ session' = session /\ Completes(reply)
      /\ lists' = Extended(m) /\ pending' = calls /\ counts' = counts /\ asked' = asked
      /\ place' = IF calls = <<>> THEN "idle" ELSE "routing"
  BY DEF LoopInv, LoopTypes, Answer
<1>2. m \in MessageSet /\ ~Tool(m)
  BY <1>1, RolesOfMessages DEF MessageSet
<1>3. calls \in Seq(CallSet) /\ CallsOf(m) = [k \in DOMAIN calls |-> Rebuilt(calls[k])]
  BY <1>1, CallsOfReply, CallsOfAssistant
<1> HIDE DEF m, calls
<1>4. /\ lists' \in Seq(Seq(MessageSet)) /\ lists' # <<>>
      /\ Current \in Seq(MessageSet) /\ Current' = Append(Current, m)
  BY <1>1, <1>2, ExtendedLists
<1>5. /\ AnsweredIn(Append(Current, m)) = AnsweredIn(Current)
      /\ SettledBut(Append(Current, m), Len(Current) + 1)
  BY <1>1, <1>2, <1>4, AppendSettled
<1>6. LoopTypes'
  BY <1>1, <1>3, <1>4 DEF LoopInv, LoopTypes
<1>7. /\ Len(Current) \in Nat /\ Len(Current') = Len(Current) + 1
      /\ Len(Current) + 1 \in DOMAIN Current' /\ Current'[Len(Current) + 1] = m
  BY <1>4
<1>8. /\ Len(CallsOf(m)) = Len(calls) /\ Len(calls) \in Nat /\ DOMAIN calls = 1 .. Len(calls)
      /\ \A j \in DOMAIN calls : CallsOf(m)[j] = Rebuilt(calls[j])
  BY <1>3
<1>9. \E k \in DOMAIN Current' : AwaitedAt(Current, k)'
  <2> DEFINE n == Len(Current) + 1
             more == Append(Current, m)
  <2>1. /\ Len(more) - n = 0 /\ more[n] = m
        /\ Len(CallsOf(m)) = (Len(more) - n) + Len(calls)
        /\ \A j \in DOMAIN calls : (Len(more) - n) + j = j
    BY <1>4, <1>7, <1>8
  <2> HIDE DEF n, more
  <2>2. /\ Len(CallsOf(more[n])) = (Len(more) - n) + Len(calls)
        /\ \A j \in DOMAIN calls : CallsOf(more[n])[(Len(more) - n) + j] = Rebuilt(calls[j])
        /\ SettledBut(more, n)
    BY <1>5, <1>8, <2>1 DEF n, more
  <2>3. Current' = more /\ pending' = calls
    BY <1>1, <1>4 DEF more
  <2>4. ASSUME NEW k, k = n PROVE AwaitedAt(Current, k)'
    BY <2>2, <2>3, <2>4 DEF AwaitedAt, SettledBut
  <2>5. n \in DOMAIN Current'
    BY <1>7 DEF n
  <2> QED
    BY <2>4, <2>5
<1>10. Counted'
  <2>1. IsFiniteSet(Results') /\ Cardinality(Results') = Cardinality(Results)
    BY <1>1, <1>2, ExtendedResults DEF LoopInv, Counted
  <2>2. AnsweredReads' = AnsweredReads
    <3>1. AnsweredIn(Append(Current, m)) = AnsweredIn(Current) \cup {}
      BY <1>5
    <3>2. AnsweredReads' = AnsweredReads \cup {c \in {} : Kind(c) = "read"}
      BY <1>1, <1>2, <3>1, ExtendedAnswers
    <3> QED
      BY <3>2
  <2> QED
    BY <1>1, <2>1, <2>2 DEF LoopInv, Counted
<1> QED
  BY <1>1, <1>6, <1>9, <1>10 DEF LoopInv

(* The other steps of the loop leave its lists, counters and calls alone.     *)
LEMMA LoopStays ==
  ASSUME LoopInv, UNCHANGED <<session, lists, pending, counts, asked>>,
         place' = place \/ place' \notin {"calling", "routing"}
  PROVE  LoopInv'
<1>1. Current' = Current /\ Results' = Results /\ AnsweredReads' = AnsweredReads
  BY DEF Current, Results, AnsweredReads
<1>2. LoopTypes'
  BY DEF LoopInv, LoopTypes
<1>3. Counted'
  BY <1>1 DEF LoopInv, Counted
<1>4. place' = "calling" => Settled(Current')
  BY <1>1 DEF LoopInv
<1>5. place' = "routing" => \E k \in DOMAIN Current' : AwaitedAt(Current, k)'
  BY <1>1 DEF LoopInv, AwaitedAt
<1> QED
  BY <1>2, <1>3, <1>4, <1>5 DEF LoopInv

(* Each step of the loop keeps the invariant.                                 *)
LEMMA LoopStepKeeps ==
  ASSUME LoopInv, LoopStep
  PROVE  LoopInv'
<1>1. CASE StartLoop
  BY <1>1, StartedLoop
<1>2. CASE \E reply \in Replies : Answer(reply)
  BY <1>2, AnsweredCall
<1>3. CASE RouteCall
  BY <1>3, RoutedCall
<1>4. CASE CreateRaises \/ CallFails \/ LoopEnds \/ Drift
  BY <1>4, LoopStays DEF CreateRaises, CallFails, LoopEnds, Drift
<1>5. CASE AnalyzeCaptured
  BY <1>5, LoopStays DEF AnalyzeCaptured
<1> QED
  BY <1>1, <1>2, <1>3, <1>4, <1>5 DEF LoopStep

(* Every other step of the programs leaves the loop alone.                    *)
LEMMA LoopOrNot ==
  ASSUME [Next]_vars
  PROVE  LoopStep \/ UNCHANGED loopVars
BY DEF Next, vars, ByFile, ByScript, Main, Around, InferenceStep, LocalExit

(* At first there is no conversation, and nothing to count.                   *)
LEMMA LoopStarts == Init => LoopInv
<1> SUFFICES ASSUME ToolLoopInit PROVE LoopInv
  BY DEF Init
<1>1. Results = {} /\ AnsweredReads = {}
  BY DEF ToolLoopInit, Results, AnsweredReads
<1>2. Counted
  BY <1>1, FS_EmptySet DEF ToolLoopInit, Counted
<1>3. LoopTypes
  BY DEF ToolLoopInit, LoopTypes, Counters
<1> QED
  BY <1>2, <1>3 DEF ToolLoopInit, LoopInv

(* The invariant of the loop is one of the three programs.                    *)
LEMMA LoopNext == LoopInv /\ [Next]_vars => LoopInv'
<1>1. ASSUME LoopInv, UNCHANGED loopVars PROVE LoopInv'
  BY <1>1, LoopStays DEF loopVars
<1> QED
  BY <1>1, LoopStepKeeps, LoopOrNot

(* The router's counters are those of the conversation, for any sessions,     *)
(* replies, files and number of loops: the searches, the reads and the        *)
(* refusals add up to the tool results in the lists, and the reads that are   *)
(* not repeated to the distinct reads answered in them (repo_tools.py:72-95). *)
THEOREM CountersAreTheConversation == Spec => []ToolCountsAddUp
<1>1. LoopInv => ToolCountsAddUp
  BY DEF LoopInv, Counted, ToolCountsAddUp
<1> QED
  BY <1>1, LoopStarts, LoopNext, PTL DEF Spec

-----------------------------------------------------------------------------
(* The bridge and the strict reader (modules ToolLoop and JsonLines)          *)

(* A value is read back as what it was made of, and is not null.              *)
LEMMA JsonValues ==
  /\ \A text : Is("str", Str(text)) /\ Str(text) # Null /\ Str(text).str = text
  /\ \A n : Is("num", Num(n)) /\ Num(n).num = n
  /\ \A items : Is("arr", Arr(items)) /\ Arr(items) # Null /\ Arr(items).arr = items
  /\ \A fields : Is("obj", Obj(fields)) /\ Obj(fields).obj = fields
  /\ \A v : Is("str", v) \/ Is("arr", v) \/ Is("obj", v) => v # Null
BY DEF Is, Str, Num, Arr, Obj, Null

(* A tool, a call and a message of the loop, as the bridge takes them over    *)
(* and as the strict reader reads their lines.                                *)
LEMMA ToolsAgree ==
  ASSUME NEW t, BridgesTool(t)
  PROVE  /\ ValidTool(LineTool(t)) /\ ParsesTool(LineTool(t))
         /\ ToolOf(LineTool(t)) = BridgedTool(t)
<1> DEFINE f == t.obj["function"]
           line == LineTool(t)
           description == OrElse(Field(f, "description"), Str(<<>>))
           schema == OrElse(Field(f, "parameters"), Obj(<<>>))
<1>1. /\ Is("obj", f) /\ "name" \in DOMAIN f.obj
      /\ Is("str", f.obj["name"]) /\ f.obj["name"].str # <<>>
      /\ Has(f, "description") => Is("str", f.obj["description"])
      /\ Has(f, "parameters") => Is("obj", f.obj["parameters"])
  <2>1. KeysWithin(Field(t, "function"), {"name", "description", "parameters"})
    BY DEF BridgesTool, IsFunction
  <2>2. Field(t, "function") = f
    BY <2>1, JsonValues DEF KeysWithin, Field
  <2>3. NonEmptyStr(Field(f, "name"))
    BY DEF BridgesTool, IsFunction
  <2>4. "name" \in DOMAIN f.obj /\ Field(f, "name") = f.obj["name"]
    BY <2>3, JsonValues DEF NonEmptyStr, Field, Has
  <2> QED
    BY <2>1, <2>2, <2>3, <2>4 DEF KeysWithin, NonEmptyStr, BridgesTool
<1> HIDE DEF f
<1>2. Is("str", description)
  BY <1>1, JsonValues DEF OrElse, Field, Has
<1>3. Is("obj", schema)
  BY <1>1, JsonValues DEF OrElse, Field, Has
<1> HIDE DEF description, schema
<1>4. /\ Is("obj", line) /\ DOMAIN line.obj = {"name", "description", "schema"}
      /\ line.obj["name"] = f.obj["name"]
      /\ line.obj["description"] = description /\ line.obj["schema"] = schema
  BY JsonValues DEF LineTool, f, description, schema
<1>5. BridgedTool(t) = [name |-> f.obj["name"].str, description |-> description.str,
                        schema_json |-> CanonicalJson(schema)]
  BY DEF BridgedTool, f, description, schema
<1> HIDE DEF line
<1>6. ToolOf(line) = [name |-> f.obj["name"].str, description |-> description.str,
                      schema_json |-> CanonicalJson(schema)]
  BY <1>1, <1>2, <1>4 DEF ToolOf, Has, StrOf
<1>7. ValidTool(line) /\ ParsesTool(line)
  BY <1>1, <1>2, <1>3, <1>4 DEF ValidTool, ParsesTool, Shape, NonEmptyStr, Has
<1> QED
  BY <1>5, <1>6, <1>7 DEF line

LEMMA CallsAgree ==
  ASSUME NEW c, BridgesCall(c)
  PROVE  /\ ValidCall(LineCall(c)) /\ ParsesCall(LineCall(c))
         /\ CallOf(LineCall(c)) = BridgedCall(c)
<1> DEFINE f == c.obj["function"]
           line == LineCall(c)
<1>1. /\ Is("str", c.obj["id"]) /\ c.obj["id"].str # <<>>
      /\ Is("str", f.obj["name"]) /\ f.obj["name"].str # <<>>
      /\ Is("str", f.obj["arguments"])
  <2>1. /\ NonEmptyStr(Field(c, "id")) /\ NonEmptyStr(Field(f, "name"))
        /\ Is("str", Field(f, "arguments"))
    BY DEF BridgesCall, IsFunction
  <2>2. /\ Field(c, "id") = c.obj["id"] /\ Field(f, "name") = f.obj["name"]
        /\ Field(f, "arguments") = f.obj["arguments"]
    BY <2>1, JsonValues DEF NonEmptyStr, Field
  <2> QED
    BY <2>1, <2>2 DEF NonEmptyStr
<1> HIDE DEF f
<1>2. /\ Is("obj", line) /\ DOMAIN line.obj = {"id", "name", "arguments"}
      /\ line.obj["id"] = c.obj["id"] /\ line.obj["name"] = f.obj["name"]
      /\ line.obj["arguments"] = f.obj["arguments"]
  BY JsonValues DEF LineCall, f
<1>3. BridgedCall(c) = [id |-> c.obj["id"].str, name |-> f.obj["name"].str,
                        arguments_raw |-> f.obj["arguments"].str]
  BY DEF BridgedCall, f
<1> HIDE DEF line
<1>4. CallOf(line) = [id |-> c.obj["id"].str, name |-> f.obj["name"].str,
                      arguments_raw |-> f.obj["arguments"].str]
  BY <1>1, <1>2 DEF CallOf, Has, StrOf
<1>5. ValidCall(line) /\ ParsesCall(line)
  BY <1>1, <1>2 DEF ValidCall, ParsesCall, Shape, NonEmptyStr, Has
<1> QED
  BY <1>3, <1>4, <1>5 DEF line

LEMMA MessagesAgree ==
  ASSUME NEW m, BridgesMessage(m)
  PROVE  /\ ValidMessage(LineMessage(m)) /\ ParsesMessage(LineMessage(m))
         /\ MessageOf(LineMessage(m)) = BridgedMessage(m)
<1> DEFINE line == LineMessage(m)
           calls == CallsOf(m)
           lines == [k \in DOMAIN calls |-> LineCall(calls[k])]
           content == Field(m, "content")
           answers == Field(m, "tool_call_id")
           role == m.obj["role"]
           read == [k \in DOMAIN calls |-> BridgedCall(calls[k])]
<1>1. /\ Is("str", role) /\ role.str \in {<<"user">>, <<"assistant">>, <<"tool">>}
      /\ role = Str(role.str)
  <2>1. Field(m, "role") \in {Str(<<"user">>), Str(<<"assistant">>), Str(<<"tool">>)}
    BY DEF BridgesMessage
  <2>2. Field(m, "role") = role
    BY <2>1, JsonValues DEF Field
  <2> QED
    BY <2>1, <2>2, JsonValues
<1>2. StrOrNull(content)
  BY DEF BridgesMessage
<1>3. IF role = Str(<<"tool">>) THEN NonEmptyStr(answers) ELSE answers = Null
  BY DEF BridgesMessage
<1>4. \A k \in DOMAIN calls : BridgesCall(calls[k])
  <2>1. CASE Has(m, "tool_calls")
    <3>1. IsList(m.obj.tool_calls, FALSE) /\ \A x \in ToSet(Items(m.obj.tool_calls)) : BridgesCall(x)
      BY <2>1 DEF BridgesMessage, ListOf
    <3>2. m.obj.tool_calls # Null
      BY <3>1, JsonValues DEF IsList
    <3>3. Items(m.obj.tool_calls) = calls
      BY <2>1, <3>2 DEF Items, CallsOf
    <3> QED
      BY <3>1, <3>3 DEF ToSet
  <2>2. CASE ~Has(m, "tool_calls")
    BY <2>2 DEF CallsOf
  <2> QED
    BY <2>1, <2>2
<1>5. calls # <<>> => role = Str(<<"assistant">>)
  BY DEF BridgesMessage
<1>6. BridgedMessage(m) = [role |-> role.str, content |-> OrElse(content, Str(<<>>)).str,
                           tool_call_id |-> RawOf(answers), tool_calls |-> read]
  BY DEF BridgedMessage
<1>7. /\ Is("obj", line) /\ DOMAIN line.obj = {"role", "content", "tool_call_id", "tool_calls"}
      /\ line.obj["role"] = role /\ line.obj["content"] = content
      /\ line.obj["tool_call_id"] = answers /\ line.obj["tool_calls"] = Arr(lines)
  BY JsonValues DEF LineMessage
<1> HIDE DEF line, calls, content, answers, role
<1>8. /\ \A k \in DOMAIN lines : ValidCall(lines[k]) /\ ParsesCall(lines[k])
      /\ read = [k \in DOMAIN lines |-> CallOf(lines[k])]
  BY <1>4, CallsAgree
<1>9. lines # <<>> => calls # <<>>
  BY DEF lines
<1> HIDE DEF lines, read
<1>10. /\ Field(line, "content") = content /\ Field(line, "tool_call_id") = answers
       /\ Field(line, "tool_calls") = Arr(lines) /\ Items(Field(line, "tool_calls")) = lines
  BY <1>7, JsonValues DEF Field, Has, Items
<1>11. ListOf(Field(line, "tool_calls"), TRUE, ValidCall)
  BY <1>8, <1>10, JsonValues DEF ListOf, IsList, ToSet
<1>12. ListOf(Field(line, "tool_calls"), TRUE, ParsesCall)
  BY <1>8, <1>10, JsonValues DEF ListOf, IsList, ToSet
<1>13. <<"tool">> # <<"assistant">> /\ <<"tool">> # <<"user">>
  OBVIOUS
<1>14. role.str = <<"tool">> <=> role = Str(<<"tool">>)
  BY <1>1, JsonValues
<1>15. role = Str(<<"assistant">>) => role.str = <<"assistant">>
  BY JsonValues
<1>16. ValidMessage(line)
  BY <1>1, <1>2, <1>3, <1>5, <1>7, <1>9, <1>10, <1>11, <1>14, <1>15 DEF ValidMessage, Shape, Roles
<1>17. ParsesMessage(line)
  BY <1>1, <1>7, <1>12 DEF ParsesMessage, Has, Roles
<1>18. (IF content = Null THEN <<>> ELSE StrOf(content)) = OrElse(content, Str(<<>>)).str
  BY <1>2, JsonValues DEF StrOrNull, StrOf, OrElse
<1>19. MessageOf(line) = [role |-> role.str, content |-> OrElse(content, Str(<<>>)).str,
                          tool_call_id |-> RawOf(answers), tool_calls |-> read]
  BY <1>7, <1>8, <1>10, <1>18 DEF MessageOf
<1> QED
  BY <1>6, <1>16, <1>17, <1>19 DEF line

(* The two ways in agree on every call the bridge takes over, whatever it     *)
(* holds: written as a line without a number that is not finite, the strict   *)
(* reader accepts it and reads the same request (bridge.py:59-104,            *)
(* ingest/strict_jsonl.py:1-13).                                              *)
THEOREM BridgedIsWithinFormat ==
  ASSUME NEW call, NEW index, NEW S, call.messages \in Seq(S), call.messages # <<>>,
         Bridges(call), WellFormed(Line(call, index))
  PROVE  /\ Accepts(Line(call, index))
         /\ RequestOf(Line(call, index)) = BridgedRequest(call, index)
<1> DEFINE v == Line(call, index)
           extra == call.extra.obj
           id == <<"pilot_", ToString(index)>>
           system == call.messages[1].obj["content"]
           toolLines == [k \in DOMAIN call.tools.arr |-> LineTool(call.tools.arr[k])]
           count == Len(call.messages) - 1
           messageLines == [k \in 1 .. count |-> LineMessage(call.messages[k + 1])]
           choice == IF "tool_choice" \in DOMAIN extra THEN ToolChoice(extra["tool_choice"]) ELSE None

(* What the bridge has checked.                                               *)
<1>1. /\ DOMAIN extra \subseteq {"tool_choice"}
      /\ "tool_choice" \in DOMAIN extra =>
           IsModeChoice(extra["tool_choice"]) \/ IsFunctionChoice(extra["tool_choice"])
  <2>1. DOMAIN extra \subseteq {"tool_choice"}
    BY DEF Bridges, KeysWithin
  <2>2. \A c \in Range(extra) : IsModeChoice(c) \/ IsFunctionChoice(c)
    BY DEF Bridges
  <2> QED
    BY <2>1, <2>2 DEF Range
<1>2. Is("str", call.model) /\ call.model.str # <<>>
  BY DEF Bridges, NonEmptyStr
<1>3. Is("str", system)
  <2>1. Is("str", Field(call.messages[1], "content"))
    BY DEF Bridges
  <2>2. Field(call.messages[1], "content") = system
    BY <2>1, JsonValues DEF Field
  <2> QED
    BY <2>1, <2>2
<1>4. \A k \in DOMAIN call.tools.arr : BridgesTool(call.tools.arr[k])
  <2>1. Is("arr", call.tools) /\ \A x \in ToSet(Items(call.tools)) : BridgesTool(x)
    BY DEF Bridges, ListOf, IsList
  <2>2. Items(call.tools) = call.tools.arr
    BY <2>1, JsonValues DEF Items
  <2> QED
    BY <2>1, <2>2 DEF ToSet
<1>5. count \in Nat /\ \A k \in 1 .. count : BridgesMessage(call.messages[k + 1])
  <2>1. \A m \in ToSet(Tail(call.messages)) : BridgesMessage(m)
    BY DEF Bridges
  <2>2. /\ Len(call.messages) \in Nat \ {0} /\ Len(Tail(call.messages)) = count
        /\ DOMAIN Tail(call.messages) = 1 .. count
        /\ \A k \in 1 .. count : Tail(call.messages)[k] = call.messages[k + 1]
    OBVIOUS
  <2> HIDE DEF count
  <2>3. \A k \in 1 .. count : call.messages[k + 1] \in ToSet(Tail(call.messages))
    BY <2>2 DEF ToSet
  <2>4. count \in Nat
    BY <2>2 DEF count
  <2> QED
    BY <2>1, <2>3, <2>4

(* What the line holds.                                                       *)
<1>6. /\ Is("obj", v)
      /\ DOMAIN v.obj = {"request_id", "timestamp", "model", "system", "tools", "messages"}
                          \cup DOMAIN extra
      /\ v.obj["request_id"] = Str(id) /\ v.obj["timestamp"] = Num("7")
      /\ v.obj["model"] = call.model /\ v.obj["system"] = system
      /\ v.obj["tools"] = Arr(toolLines) /\ v.obj["messages"] = Arr(messageLines)
      /\ "tool_choice" \in DOMAIN extra => v.obj["tool_choice"] = extra["tool_choice"]
  <2> DEFINE fields == LineFields(call, index)
             all == [f \in DOMAIN fields \cup DOMAIN extra |->
                       IF f \in DOMAIN fields THEN fields[f] ELSE extra[f]]
  <2>1. v = Obj(all)
    BY DEF Line
  <2>2. /\ DOMAIN fields = {"request_id", "timestamp", "model", "system", "tools", "messages"}
        /\ fields["request_id"] = Str(id) /\ fields["timestamp"] = Num("7")
        /\ fields["model"] = call.model /\ fields["system"] = system
        /\ fields["tools"] = Arr(toolLines) /\ fields["messages"] = Arr(messageLines)
    BY DEF LineFields
  <2> HIDE DEF fields, extra, id, system, toolLines, messageLines
  <2>3. /\ DOMAIN all = {"request_id", "timestamp", "model", "system", "tools", "messages"}
                           \cup DOMAIN extra
        /\ \A f \in DOMAIN fields : all[f] = fields[f]
        /\ "tool_choice" \in DOMAIN extra => all["tool_choice"] = extra["tool_choice"]
    BY <2>2
  <2> HIDE DEF all
  <2>4. Is("obj", v) /\ v.obj = all
    BY <2>1, JsonValues
  <2> QED
    BY <2>2, <2>3, <2>4
<1> HIDE DEF extra, system, v
<1>7. /\ \A k \in DOMAIN toolLines : ValidTool(toolLines[k]) /\ ParsesTool(toolLines[k])
      /\ [k \in DOMAIN toolLines |-> ToolOf(toolLines[k])]
           = [k \in DOMAIN call.tools.arr |-> BridgedTool(call.tools.arr[k])]
  BY <1>4, ToolsAgree
<1> HIDE DEF count
<1>8. /\ \A k \in DOMAIN messageLines : ValidMessage(messageLines[k]) /\ ParsesMessage(messageLines[k])
      /\ [k \in DOMAIN messageLines |-> MessageOf(messageLines[k])]
           = [k \in 1 .. count |-> BridgedMessage(call.messages[k + 1])]
  BY <1>5, MessagesAgree
<1> HIDE DEF toolLines, messageLines
<1>9. /\ Field(v, "tools") = Arr(toolLines) /\ Items(Field(v, "tools")) = toolLines
      /\ Field(v, "system") = system /\ Field(v, "usage") = Null
      /\ Has(v, "tool_choice") <=> "tool_choice" \in DOMAIN extra
      /\ v.obj["messages"].arr = messageLines /\ Items(v.obj["messages"]) = messageLines
  BY <1>1, <1>6, JsonValues DEF Field, Has, Items
<1>10. /\ ListOf(Field(v, "tools"), TRUE, ValidTool) /\ ListOf(Field(v, "tools"), TRUE, ParsesTool)
  BY <1>7, <1>9, JsonValues DEF ListOf, IsList, ToSet
<1>11. /\ ListOf(v.obj["messages"], FALSE, ValidMessage)
       /\ ListOf(v.obj["messages"], FALSE, ParsesMessage)
  BY <1>6, <1>8, <1>9, JsonValues DEF ListOf, IsList, ToSet
<1>12. id # <<>>
  OBVIOUS
<1> HIDE DEF id
<1>13. ParsesControls(v)
  BY <1>1, <1>6, <1>9 DEF ParsesControls, IsFalse
<1>14. ParsesLine(v)
  BY <1>6, <1>10, <1>11, <1>13, JsonValues DEF ParsesLine, IsFloat, Has, Num
<1>15. ValidLine(v)
  <2>1. Shape(v, {"request_id", "timestamp", "model", "system", "tools", "messages", "usage",
                  "tool_choice"}, {"request_id", "timestamp", "model", "messages"})
    BY <1>1, <1>6 DEF Shape
  <2>2. NonEmptyStr(v.obj["request_id"]) /\ NonEmptyStr(v.obj["model"])
    BY <1>2, <1>6, <1>12, JsonValues DEF NonEmptyStr
  <2>3. Is("num", v.obj["timestamp"]) /\ v.obj["timestamp"].num \notin NonFinite \cup {"10**400"}
    BY <1>6, JsonValues DEF NonFinite
  <2>4. StrOrNull(Field(v, "system")) /\ ValidUsage(Field(v, "usage"))
    BY <1>3, <1>9 DEF StrOrNull, ValidUsage
  <2> QED
    BY <1>10, <1>11, <2>1, <2>2, <2>3, <2>4 DEF ValidLine
<1>16. Accepts(v)
  BY <1>14, <1>15 DEF Accepts, v

(* The request, both ways.                                                    *)
<1>17. RequestOf(v) =
         [request_id |-> id, timestamp |-> <<"7">>, model |-> call.model.str, system |-> system.str,
          tools |-> [k \in DOMAIN toolLines |-> ToolOf(toolLines[k])],
          messages |-> [k \in DOMAIN messageLines |-> MessageOf(messageLines[k])],
          usage |-> UsageOf(Null), tool_choice |-> choice]
  <2>1. StrOf(v.obj["request_id"]) = id /\ StrOf(v.obj["model"]) = call.model.str
    BY <1>2, <1>6, JsonValues DEF StrOf
  <2>2. StrOf(v.obj["timestamp"]) = <<"7">>
    BY <1>6, JsonValues DEF StrOf, Is, Num
  <2>3. RawOf(Field(v, "system")) = system.str
    BY <1>3, <1>9, JsonValues DEF RawOf
  <2>4. (IF Has(v, "tool_choice") THEN ToolChoice(v.obj["tool_choice"]) ELSE None) = choice
    BY <1>6, <1>9
  <2> HIDE DEF choice
  <2> QED
    BY <1>9, <2>1, <2>2, <2>3, <2>4 DEF RequestOf
<1>18. BridgedRequest(call, index) =
         [request_id |-> id, timestamp |-> <<"7">>, model |-> call.model.str, system |-> system.str,
          tools |-> [k \in DOMAIN call.tools.arr |-> BridgedTool(call.tools.arr[k])],
          messages |-> [k \in 1 .. count |-> BridgedMessage(call.messages[k + 1])],
          usage |-> UsageOf(Null), tool_choice |-> choice]
  BY DEF BridgedRequest, id, system, count, extra, Has
<1> QED
  BY <1>7, <1>8, <1>16, <1>17, <1>18 DEF v

-----------------------------------------------------------------------------
(* The calls captured, and the exit code of the local pilot                   *)

(* The ids of the calls of a list, and those its results name.                *)
IdsOf(calls) == {c.obj.id : c \in calls}
CallIds(list) == IdsOf(UNION {ToSet(CallsOf(m)) : m \in ToSet(list)})
ResultIds(list) ==
  {m.obj.tool_call_id : m \in {x \in ToSet(list) : x.obj.role = Str(<<"tool">>)}}

(* What is captured is a list of calls with messages.                         *)
CapturedLists ==
  /\ IsListOf(captured)
  /\ \A i \in DOMAIN captured :
       /\ "messages" \in DOMAIN captured[i]
       /\ IsListOf(captured[i].messages) /\ captured[i].messages # <<>>
  /\ \A l \in DOMAIN lists : lists[l] # <<>>

(* Every call of the current list has its result, or waits for it.            *)
CallsBound ==
  /\ place # "routing" => pending = <<>>
  /\ lists # <<>> => CallIds(Current) = ResultIds(Current) \cup IdsOf(ToSet(pending))

(* The ways the loop returns.                                                 *)
Finals == {"complete", "failure", "max_turns", "escalated"}

(* Of the local pilot's one loop.                                             *)
LocalLoop ==
  /\ place \in {"calling", "routing"} \/ lists = <<>> => status = "incomplete"
  /\ place \in {"idle", "analysed"} /\ lists # <<>> => status \in Finals
  /\ status = "complete" =>
       Last(Current).obj.role = Str(<<"assistant">>) /\ CallsOf(Last(Current)) = <<>>
  /\ place = "analysed" => lists # <<>> /\ IsListOf(trace) /\ Len(trace) = Len(captured)
  /\ exit = 0 => place = "analysed" /\ Len(captured) >= 2 /\ RunOutcome = "finished_with_text"

(* What the exit code of the local pilot rests on.                            *)
ExitInv == CapturedLists /\ CallsBound /\ (route = "local" => LocalLoop)

(* A list grows by one entry, at its end.                                     *)
LEMMA ListsAreLists ==
  /\ \A S : \A s \in Seq(S) : IsListOf(s)
  /\ \A s, x : IsListOf(s) =>
       /\ IsListOf(Append(s, x)) /\ Append(s, x) # <<>>
       /\ Len(s) \in Nat /\ Len(Append(s, x)) = Len(s) + 1 /\ DOMAIN s = 1 .. Len(s)
       /\ DOMAIN Append(s, x) = 1 .. Len(s) + 1
       /\ \A i \in DOMAIN s : Append(s, x)[i] = s[i]
       /\ Append(s, x)[Len(s) + 1] = x
<1>1. ASSUME NEW S, NEW s \in Seq(S) PROVE IsListOf(s)
  <2>1. Len(s) \in Nat /\ DOMAIN s = 1 .. Len(s) /\ s = [i \in 1 .. Len(s) |-> s[i]]
    OBVIOUS
  <2>2. \A i \in 1 .. Len(s) : s[i] \in ToSet(s)
    BY <2>1 DEF ToSet
  <2>3. [i \in 1 .. Len(s) |-> s[i]] \in Seq(ToSet(s))
    BY <2>1, <2>2
  <2> QED
    BY <2>1, <2>3 DEF IsListOf
<1>2. ASSUME NEW s, NEW x, IsListOf(s)
      PROVE  /\ IsListOf(Append(s, x)) /\ Append(s, x) # <<>>
             /\ Len(s) \in Nat /\ Len(Append(s, x)) = Len(s) + 1 /\ DOMAIN s = 1 .. Len(s)
             /\ DOMAIN Append(s, x) = 1 .. Len(s) + 1
             /\ \A i \in DOMAIN s : Append(s, x)[i] = s[i]
             /\ Append(s, x)[Len(s) + 1] = x
  <2> DEFINE T == ToSet(s)
             more == Append(s, x)
  <2>1. s \in Seq(T)
    BY <1>2 DEF IsListOf
  <2> HIDE DEF T
  <2>2. Len(s) \in Nat /\ DOMAIN s = 1 .. Len(s)
    BY <2>1
  <2>3. /\ more \in Seq(T \cup {x}) /\ Len(more) = Len(s) + 1
        /\ \A i \in 1 .. Len(s) : more[i] = s[i]
        /\ more[Len(s) + 1] = x
    BY <2>1, AppendProperties
  <2> HIDE DEF more
  <2>4. DOMAIN more = 1 .. Len(s) + 1
    BY <2>3
  <2>5. more # <<>>
    BY <2>2, <2>3
  <2> QED
    BY <1>1, <2>2, <2>3, <2>4, <2>5 DEF more
<1> QED
  BY <1>1, <1>2

(* A message adds its own calls, and the one it answers, to a list.           *)
LEMMA IdsOfAppend ==
  ASSUME NEW list \in Seq(MessageSet), NEW m
  PROVE  /\ CallIds(Append(list, m)) = CallIds(list) \cup IdsOf(ToSet(CallsOf(m)))
         /\ ResultIds(Append(list, m)) =
              ResultIds(list) \cup (IF Tool(m) THEN {m.obj.tool_call_id} ELSE {})
<1>1. ToSet(Append(list, m)) = ToSet(list) \cup {m}
  <2>1. IsListOf(list)
    BY ListsAreLists
  <2>2. ASSUME NEW x \in ToSet(Append(list, m)) PROVE x \in ToSet(list) \cup {m}
    <3>1. PICK i \in DOMAIN Append(list, m) : x = Append(list, m)[i]
      BY <2>2 DEF ToSet
    <3>2. CASE i \in DOMAIN list
      BY <2>1, <3>1, <3>2, ListsAreLists DEF ToSet
    <3>3. CASE i = Len(list) + 1
      BY <2>1, <3>1, <3>3, ListsAreLists
    <3> QED
      BY <2>1, <3>1, <3>2, <3>3, ListsAreLists
  <2>3. ASSUME NEW x \in ToSet(list) PROVE x \in ToSet(Append(list, m))
    <3>1. PICK i \in DOMAIN list : x = list[i]
      BY <2>3 DEF ToSet
    <3>2. i \in DOMAIN Append(list, m) /\ Append(list, m)[i] = x
      BY <2>1, <3>1, ListsAreLists
    <3> QED
      BY <3>2 DEF ToSet
  <2>4. m \in ToSet(Append(list, m))
    <3>1. Len(list) + 1 \in DOMAIN Append(list, m) /\ Append(list, m)[Len(list) + 1] = m
      BY <2>1, ListsAreLists
    <3> QED
      BY <3>1 DEF ToSet
  <2> QED
    BY <2>2, <2>3, <2>4
<1> HIDE DEF Tool
<1>2. ASSUME NEW c
      PROVE  c \in CallIds(Append(list, m)) <=> c \in CallIds(list) \/ c \in IdsOf(ToSet(CallsOf(m)))
  BY <1>1 DEF CallIds, IdsOf
<1>3. ResultIds(Append(list, m)) =
              ResultIds(list) \cup (IF Tool(m) THEN {m.obj.tool_call_id} ELSE {})
  BY <1>1 DEF ResultIds, Tool
<1> QED
  BY <1>2, <1>3

(* An entry replaced leaves a list.                                           *)
LEMMA ListExcept ==
  ASSUME NEW s, NEW i \in DOMAIN s, NEW x, IsListOf(s)
  PROVE  /\ IsListOf([s EXCEPT ![i] = x]) /\ [s EXCEPT ![i] = x] # <<>>
         /\ DOMAIN [s EXCEPT ![i] = x] = DOMAIN s /\ [s EXCEPT ![i] = x][i] = x
         /\ \A j \in DOMAIN s : j # i => [s EXCEPT ![i] = x][j] = s[j]
<1> DEFINE new == [s EXCEPT ![i] = x]
           T == ToSet(s)
<1>1. s \in Seq(T)
  BY DEF IsListOf
<1> HIDE DEF T
<1>2. Len(s) \in Nat /\ DOMAIN s = 1 .. Len(s) /\ \A j \in DOMAIN s : s[j] \in T
  BY <1>1
<1>3. s = [j \in 1 .. Len(s) |-> s[j]]
  BY <1>1
<1>4. new = [j \in 1 .. Len(s) |-> IF j = i THEN x ELSE s[j]]
  BY <1>2, <1>3
<1>5. new \in Seq(T \cup {x})
  <2> DEFINE W == T \cup {x}
  <2>1. \A j \in 1 .. Len(s) : (IF j = i THEN x ELSE s[j]) \in W
    BY <1>2
  <2> HIDE DEF W, new
  <2>2. new \in Seq(W)
    BY <1>2, <1>4, <2>1
  <2> QED
    BY <2>2 DEF W
<1>6. new[i] = x /\ DOMAIN new = DOMAIN s /\ \A j \in DOMAIN s : j # i => new[j] = s[j]
  BY <1>2, <1>4
<1>7. new # <<>>
  BY <1>6
<1> HIDE DEF new
<1>8. IsListOf(new)
  BY <1>5, ListsAreLists
<1> QED
  BY <1>6, <1>7, <1>8 DEF new

(* Answer captures one more, the demo edits one, nothing else changes them.   *)
LEMMA CapturedListsKept ==
  ASSUME LoopInv, CapturedLists, LoopStep
  PROVE  CapturedLists'
<1>0. lists \in Seq(Seq(MessageSet)) /\ IsListOf(lists)
  BY ListsAreLists DEF LoopInv, LoopTypes
<1>1. ASSUME NEW m \in MessageSet, lists # <<>>, lists' = Extended(m)
      PROVE  \A l \in DOMAIN lists' : lists'[l] # <<>>
  BY <1>0, <1>1, ExtendedLists DEF CapturedLists
<1>2. ASSUME captured' = captured, \A l \in DOMAIN lists' : lists'[l] # <<>> PROVE CapturedLists'
  BY <1>2 DEF CapturedLists
<1>3. CASE StartLoop
  <2>1. session' \in Sessions /\ lists' = Append(lists, Opening(session')) /\ captured' = captured
    BY <1>3 DEF StartLoop, LoopInv, LoopTypes
  <2>2. Opening(session') # <<>>
    BY <2>1, OpeningHasNoCalls
  <2>3. \A l \in DOMAIN lists' : lists'[l] # <<>>
    BY <1>0, <2>1, <2>2, ListsAreLists DEF CapturedLists
  <2> QED
    BY <1>2, <2>1, <2>3
<1>4. CASE \E reply \in Replies : Answer(reply)
  <2>1. PICK reply \in Replies : Answer(reply)
    BY <1>4
  <2>2. /\ captured' = Append(captured, Call(reply)) /\ lists' = Extended(AssistantMessage(reply))
        /\ AssistantMessage(reply) \in MessageSet /\ lists # <<>>
    BY <2>1 DEF Answer, MessageSet, LoopInv, LoopTypes
  <2>3. Current \in Seq(MessageSet) /\ Current # <<>>
    BY <1>0, <2>2, ExtendedLists DEF CapturedLists, Current
  <2>4. Call(reply).messages = Current /\ "messages" \in DOMAIN Call(reply)
    BY DEF Call
  <2>5. \A i \in DOMAIN captured' :
           /\ "messages" \in DOMAIN captured'[i]
           /\ IsListOf(captured'[i].messages) /\ captured'[i].messages # <<>>
    BY <2>2, <2>3, <2>4, ListsAreLists DEF CapturedLists
  <2>6. IsListOf(captured')
    BY <2>2, ListsAreLists DEF CapturedLists
  <2> QED
    BY <1>1, <2>2, <2>5, <2>6 DEF CapturedLists
<1>5. CASE RouteCall
  <2>1. /\ lists' = Extended(ResultOf(Head(pending))) /\ captured' = captured
        /\ lists # <<>> /\ pending \in Seq(CallSet) /\ pending # <<>>
    BY <1>5 DEF RouteCall, LoopInv, LoopTypes
  <2>2. ResultOf(Head(pending)) \in MessageSet
    BY <2>1 DEF MessageSet
  <2> QED
    BY <1>1, <1>2, <2>1, <2>2
<1>6. CASE Drift
  <2> DEFINE messages == captured[2].messages
             text == messages[1].obj.content.str \o <<"drift">>
             first == [messages[1] EXCEPT !.obj.content.str = text]
             edited == [captured[2] EXCEPT !.messages = [messages EXCEPT ![1] = first]]
  <2>1. captured' = [captured EXCEPT ![2] = edited] /\ lists' = lists
    BY <1>6 DEF Drift
  <2>2. 2 \in DOMAIN captured /\ IsListOf(captured)
    <3>1. Len(captured) >= 2 /\ IsListOf(captured)
      BY <1>6 DEF Drift, CapturedLists
    <3>2. Len(captured) \in Nat /\ DOMAIN captured = 1 .. Len(captured)
      BY <3>1, ListsAreLists
    <3> QED
      BY <3>1, <3>2
  <2>3. /\ IsListOf(messages) /\ messages # <<>> /\ "messages" \in DOMAIN captured[2]
    BY <2>2 DEF CapturedLists
  <2> HIDE DEF first
  <2>4. 1 \in DOMAIN messages
    BY <2>3 DEF IsListOf
  <2> DEFINE changed == [messages EXCEPT ![1] = first]
  <2>5. IsListOf(changed) /\ changed # <<>>
    BY <2>3, <2>4, ListExcept
  <2>6. edited.messages = changed /\ "messages" \in DOMAIN edited
    BY <2>3
  <2> HIDE DEF edited, changed
  <2>7. /\ IsListOf(captured') /\ DOMAIN captured' = DOMAIN captured /\ captured'[2] = edited
        /\ \A j \in DOMAIN captured : j # 2 => captured'[j] = captured[j]
    BY <2>1, <2>2, ListExcept
  <2> QED
    BY <2>1, <2>5, <2>6, <2>7 DEF CapturedLists
<1>7. CASE CreateRaises \/ CallFails \/ LoopEnds \/ AnalyzeCaptured
  BY <1>2, <1>7 DEF CreateRaises, CallFails, LoopEnds, AnalyzeCaptured, CapturedLists
<1> QED
  BY <1>3, <1>4, <1>5, <1>6, <1>7 DEF LoopStep

(* The bridge takes every call over as a line the strict reader would accept, *)
(* and as the same request, in any conversation, whatever the demo edited:    *)
(* the two ways into the comparison agree on what a request is (bridge.py:19, *)
(* ingest/strict_jsonl.py:1-13).                                              *)
THEOREM BridgeAndReaderAgree == Spec => []BridgeWithinFormat
<1>1. Init => LoopInv /\ CapturedLists
  <2>1. Init => LoopInv
    BY LoopStarts
  <2>2. Init => CapturedLists
    <3>1. IsListOf(<<>>) /\ DOMAIN <<>> = {}
      BY DEF IsListOf
    <3> QED
      BY <3>1 DEF Init, ToolLoopInit, CapturedLists
  <2> QED
    BY <2>1, <2>2
<1>2. LoopInv /\ CapturedLists /\ [Next]_vars => LoopInv' /\ CapturedLists'
  <2>1. ASSUME CapturedLists, UNCHANGED loopVars PROVE CapturedLists'
    BY <2>1 DEF CapturedLists, loopVars
  <2> QED
    BY <2>1, LoopNext, CapturedListsKept, LoopOrNot
<1>3. CapturedLists => BridgeWithinFormat
  <2> SUFFICES ASSUME CapturedLists, NEW i \in DOMAIN captured,
                      Bridges(captured[i]), WellFormed(Line(captured[i], i))
               PROVE  /\ Accepts(Line(captured[i], i))
                      /\ RequestOf(Line(captured[i], i)) = BridgedRequest(captured[i], i)
    BY DEF BridgeWithinFormat
  <2>1. captured[i].messages \in Seq(ToSet(captured[i].messages)) /\ captured[i].messages # <<>>
    BY DEF CapturedLists, IsListOf
  <2> QED
    BY <2>1, BridgedIsWithinFormat
<1> QED
  BY <1>1, <1>2, <1>3, PTL DEF Spec

(* An answer leaves its calls pending, and a result takes the first of them   *)
(* from the pending to the answered ones.                                     *)
LEMMA CallsBoundKept ==
  ASSUME LoopInv, CallsBound, LoopStep
  PROVE  CallsBound'
<1>0. /\ lists \in Seq(Seq(MessageSet)) /\ pending \in Seq(CallSet)
      /\ place \in {"calling", "routing"} => lists # <<>>
  BY DEF LoopInv, LoopTypes
<1>1. ASSUME pending' = pending, lists' = lists, place' = "routing" => place = "routing",
             place = "routing" => place' = "routing"
      PROVE  CallsBound'
  BY <1>1 DEF CallsBound, Current
<1>2. CASE StartLoop
  <2> DEFINE list == Opening(session')
  <2>1. /\ session' \in Sessions /\ lists' = Append(lists, list) /\ pending' = pending
        /\ place = "idle" /\ place' = "calling"
    BY <1>2 DEF StartLoop, LoopInv, LoopTypes
  <2>2. /\ list \in Seq(MessageSet) /\ \A k \in DOMAIN list : CallsOf(list[k]) = <<>> /\ ~Tool(list[k])
    BY <2>1, OpeningHasNoCalls
  <2> HIDE DEF list
  <2>3. Current' = list
    <3>1. IsListOf(lists)
      BY <1>0, ListsAreLists
    <3> QED
      BY <2>1, <3>1, ListsAreLists DEF Current
  <2>4. pending = <<>> /\ ToSet(<<>>) = {}
    BY <2>1 DEF CallsBound, ToSet
  <2>5. \A m \in ToSet(list) : ToSet(CallsOf(m)) = {} /\ m.obj.role # Str(<<"tool">>)
    BY <2>2, <2>4 DEF ToSet, Tool
  <2>6. CallIds(list) = {} /\ ResultIds(list) = {} /\ IdsOf(ToSet(<<>>)) = {}
    BY <2>4, <2>5 DEF CallIds, ResultIds, IdsOf
  <2> QED
    BY <2>1, <2>3, <2>4, <2>6 DEF CallsBound
<1>3. CASE \E reply \in Replies : Answer(reply)
  <2>1. PICK reply \in Replies : Answer(reply)
    BY <1>3
  <2> DEFINE m == AssistantMessage(reply)
             calls == CallsOf(reply)
  <2>2. /\ lists' = Extended(m) /\ m \in MessageSet /\ lists # <<>> /\ pending' = calls
        /\ place' = IF calls = <<>> THEN "idle" ELSE "routing"
        /\ Completes(reply) /\ pending = <<>>
    BY <1>0, <2>1 DEF Answer, MessageSet, CallsBound
  <2>3. calls \in Seq(CallSet) /\ CallsOf(m) = [k \in DOMAIN calls |-> Rebuilt(calls[k])] /\ ~Tool(m)
    BY <2>2, CallsOfReply, CallsOfAssistant, RolesOfMessages
  <2> HIDE DEF m, calls
  <2>4. Current \in Seq(MessageSet) /\ Current' = Append(Current, m) /\ lists' # <<>>
    BY <1>0, <2>2, ExtendedLists
  <2>5. IdsOf(ToSet(CallsOf(m))) = IdsOf(ToSet(calls))
    <3>1. \A c : Rebuilt(c).obj.id = c.obj.id
      BY DEF Rebuilt, Obj
    <3>2. ASSUME NEW id PROVE id \in IdsOf(ToSet(CallsOf(m))) <=> \E k \in DOMAIN calls : id = calls[k].obj.id
      BY <2>3, <3>1 DEF IdsOf, ToSet
    <3>3. ASSUME NEW id PROVE id \in IdsOf(ToSet(calls)) <=> \E k \in DOMAIN calls : id = calls[k].obj.id
      BY DEF IdsOf, ToSet
    <3> QED
      BY <3>2, <3>3
  <2>6. /\ CallIds(Append(Current, m)) = CallIds(Current) \cup IdsOf(ToSet(calls))
        /\ ResultIds(Append(Current, m)) = ResultIds(Current)
    BY <2>3, <2>4, <2>5, IdsOfAppend
  <2>7. CallIds(Current) = ResultIds(Current) \cup IdsOf(ToSet(<<>>)) /\ IdsOf(ToSet(<<>>)) = {}
    <3>1. ToSet(<<>>) = {}
      BY DEF ToSet
    <3> QED
      BY <2>2, <3>1 DEF CallsBound, IdsOf
  <2> QED
    BY <2>2, <2>4, <2>6, <2>7 DEF CallsBound
<1>4. CASE RouteCall
  <2> DEFINE m == ResultOf(Head(pending))
  <2>1. /\ lists' = Extended(m) /\ lists # <<>> /\ pending # <<>> /\ pending' = Tail(pending)
        /\ place' = IF pending' = <<>> THEN "calling" ELSE "routing"
    BY <1>0, <1>4 DEF RouteCall, LoopInv, LoopTypes
  <2>2. /\ m \in MessageSet /\ Tool(m) /\ CallsOf(m) = <<>>
        /\ m.obj.tool_call_id = Head(pending).obj.id
    <3>1. Head(pending) \in CallSet
      BY <1>0, <2>1
    <3>2. m.obj.tool_call_id = Head(pending).obj.id
      BY DEF ResultOf, Obj
    <3> QED
      BY <3>1, <3>2, RolesOfMessages, CallsOfOthers DEF MessageSet
  <2> HIDE DEF m
  <2>3. Current \in Seq(MessageSet) /\ Current' = Append(Current, m) /\ lists' # <<>>
    BY <1>0, <2>1, <2>2, ExtendedLists
  <2>4. ToSet(pending) = {Head(pending)} \cup ToSet(Tail(pending))
    <3>1. /\ Len(pending) \in Nat \ {0} /\ DOMAIN pending = 1 .. Len(pending) /\ Head(pending) = pending[1]
          /\ DOMAIN Tail(pending) = 1 .. Len(pending) - 1
          /\ \A j \in 1 .. Len(pending) - 1 : Tail(pending)[j] = pending[j + 1]
      BY <1>0, <2>1
    <3>2. ASSUME NEW j \in DOMAIN pending PROVE pending[j] \in {Head(pending)} \cup ToSet(Tail(pending))
      <4>1. CASE j = 1
        BY <3>1, <4>1
      <4>2. CASE j # 1
        <5>1. j - 1 \in DOMAIN Tail(pending) /\ Tail(pending)[j - 1] = pending[j]
          BY <3>1, <4>2
        <5> QED
          BY <5>1 DEF ToSet
      <4> QED
        BY <4>1, <4>2
    <3>3. ASSUME NEW j \in DOMAIN Tail(pending) PROVE Tail(pending)[j] \in ToSet(pending)
      <4>1. j + 1 \in DOMAIN pending /\ Tail(pending)[j] = pending[j + 1]
        BY <3>1
      <4> QED
        BY <4>1 DEF ToSet
    <3>4. Head(pending) \in ToSet(pending)
      BY <3>1 DEF ToSet
    <3> QED
      BY <3>2, <3>3, <3>4 DEF ToSet
  <2>5. IdsOf(ToSet(pending)) = {Head(pending).obj.id} \cup IdsOf(ToSet(Tail(pending)))
    BY <2>4 DEF IdsOf
  <2>6. /\ CallIds(Append(Current, m)) = CallIds(Current) \cup IdsOf(ToSet(<<>>))
        /\ ResultIds(Append(Current, m)) = ResultIds(Current) \cup {Head(pending).obj.id}
    BY <2>2, <2>3, IdsOfAppend
  <2>7. IdsOf(ToSet(<<>>)) = {}
    <3>1. ToSet(<<>>) = {}
      BY DEF ToSet
    <3> QED
      BY <3>1 DEF IdsOf
  <2> QED
    BY <2>1, <2>3, <2>5, <2>6, <2>7 DEF CallsBound
<1>5. CASE CreateRaises \/ CallFails \/ LoopEnds \/ Drift \/ AnalyzeCaptured
  BY <1>1, <1>5 DEF CreateRaises, CallFails, LoopEnds, Drift, AnalyzeCaptured
<1> QED
  BY <1>2, <1>3, <1>4, <1>5 DEF LoopStep

(* Where the loop of the local pilot has ended, the steps of the loop are     *)
(* over; where it goes on, no exit code is there yet.                         *)
LEMMA LocalLoopKept ==
  ASSUME LoopInv, CapturedLists, route = "local", LocalLoop, LoopStep, exit' = exit
  PROVE  LocalLoop'
<1>0. /\ lists \in Seq(Seq(MessageSet))
      /\ place \in {"calling", "routing"} => lists # <<>>
  BY DEF LoopInv, LoopTypes
<1>1. exit # 0
  <2> SUFFICES ASSUME place = "analysed" PROVE FALSE
    BY DEF LocalLoop
  <2> QED
    BY DEF LoopStep, StartLoop, CreateRaises, CallFails, LoopEnds, RouteCall, Drift, Answer,
           AnalyzeCaptured
<1>2. CASE StartLoop
  <2>1. lists = <<>>
    <3>1. Len(lists) < 1 /\ lists \in Seq(Seq(MessageSet))
      BY <1>0, <1>2 DEF StartLoop, LoopInv, LoopTypes
    <3> QED
      BY <3>1
  <2>2. status' = "incomplete" /\ place' = "calling"
    BY <1>2, <2>1 DEF StartLoop, LocalLoop
  <2> QED
    BY <1>1, <2>2 DEF LocalLoop
<1>3. CASE \E reply \in Replies : Answer(reply)
  <2>1. PICK reply \in Replies : Answer(reply)
    BY <1>3
  <2> DEFINE m == AssistantMessage(reply)
             calls == CallsOf(reply)
  <2>2. /\ lists' = Extended(m) /\ m \in MessageSet /\ lists # <<>> /\ place = "calling"
        /\ place' = IF calls = <<>> THEN "idle" ELSE "routing"
        /\ status' = IF calls = <<>> THEN "complete" ELSE status
    BY <1>0, <2>1 DEF Answer, MessageSet, LoopInv, LoopTypes
  <2>3. m.obj.role = Str(<<"assistant">>) /\ (calls = <<>> => CallsOf(m) = <<>>)
    BY CallsOfAssistant DEF AssistantMessage, Obj
  <2> HIDE DEF m, calls
  <2>4. Current \in Seq(MessageSet) /\ Current' = Append(Current, m) /\ lists' # <<>>
    BY <1>0, <2>2, ExtendedLists DEF LoopInv, LoopTypes
  <2>5. Last(Append(Current, m)) = m
    BY <2>2, <2>4 DEF Last
  <2> QED
    BY <1>1, <2>2, <2>3, <2>4, <2>5 DEF LocalLoop, Finals
<1>4. CASE RouteCall
  <2>1. status' = status /\ status = "incomplete" /\ place' \in {"calling", "routing"} /\ lists # <<>>
    BY <1>0, <1>4 DEF RouteCall, LocalLoop
  <2> QED
    BY <1>1, <2>1 DEF LocalLoop
<1>5. CASE CreateRaises
  <2>1. status' = status /\ status = "incomplete" /\ place' = "raised" /\ lists' = lists /\ lists # <<>>
    BY <1>0, <1>5 DEF CreateRaises, LocalLoop
  <2> QED
    BY <1>1, <2>1 DEF LocalLoop
<1>6. CASE CallFails \/ LoopEnds
  <2>1. /\ status' \in Finals \ {"complete"} /\ place' = "idle" /\ lists' = lists /\ lists # <<>>
    BY <1>0, <1>6 DEF CallFails, LoopEnds, Finals
  <2> QED
    BY <1>1, <2>1 DEF LocalLoop
<1>7. CASE Drift
  BY <1>7 DEF Drift
<1>8. CASE AnalyzeCaptured
  <2>1. /\ status' = status /\ lists' = lists /\ captured' = captured /\ lists # <<>> /\ place = "idle"
        /\ status \in Finals /\ place' \in {"analysed", "refused"}
    BY <1>8 DEF AnalyzeCaptured, LocalLoop
  <2>2. place' = "analysed" => IsListOf(trace') /\ Len(trace') = Len(captured)
    <3> SUFFICES ASSUME place' = "analysed"
                 PROVE  IsListOf(trace') /\ Len(trace') = Len(captured)
      OBVIOUS
    <3> DEFINE calls == [i \in DOMAIN captured |->
                           [captured[i] EXCEPT !.messages = Snapshot(captured[i].list, @)]]
               requests == [i \in DOMAIN calls |-> BridgedRequest(calls[i], i - 1)]
    <3>1. trace' = requests
      BY <1>8 DEF AnalyzeCaptured, Analyze
    <3>2. Len(captured) \in Nat /\ DOMAIN calls = 1 .. Len(captured)
      BY ListsAreLists DEF CapturedLists, IsListOf
    <3> HIDE DEF calls
    <3> DEFINE Made == {BridgedRequest(calls[i], i - 1) : i \in DOMAIN calls}
    <3>3. \A i \in 1 .. Len(captured) : requests[i] \in Made
      BY <3>2
    <3>4. requests = [i \in 1 .. Len(captured) |-> requests[i]]
      BY <3>2
    <3> HIDE DEF Made, requests
    <3>5. requests \in Seq(Made) /\ Len(requests) = Len(captured)
      BY <3>2, <3>3, <3>4
    <3> QED
      BY <3>1, <3>5, ListsAreLists
  <2>3. Current' = Current
    BY <2>1 DEF Current
  <2> QED
    BY <1>1, <2>1, <2>2, <2>3 DEF LocalLoop
<1> QED
  BY <1>2, <1>3, <1>4, <1>5, <1>6, <1>7, <1>8 DEF LoopStep

(* Outside the loop's steps, the local pilot only comes to its exit code.     *)
LEMMA LoopOrExit ==
  ASSUME [Next]_vars
  PROVE  /\ route' = route
         /\ \/ LoopStep /\ exit' = exit
            \/ UNCHANGED loopVars
         /\ route = "local" =>
              \/ LoopStep /\ exit' = exit
              \/ UNCHANGED <<loopVars, trace, exit>>
              \/ UNCHANGED <<loopVars, trace>> /\ LocalExit
BY DEF Next, vars, cliVars, ByFile, ByScript, Main, Around, InferenceStep, LocalExit

(* The exit code is given out once, after the last step of the loop.          *)
LEMMA ExitInvKept ==
  ASSUME LoopInv, ExitInv, [Next]_vars
  PROVE  ExitInv'
<1>1. CASE LoopStep /\ exit' = exit
  BY <1>1, CapturedListsKept, CallsBoundKept, LocalLoopKept, LoopOrExit DEF ExitInv
<1>2. CASE UNCHANGED loopVars
  <2>1. CapturedLists'
    BY <1>2 DEF ExitInv, CapturedLists, loopVars
  <2>2. CallsBound'
    BY <1>2 DEF ExitInv, CallsBound, Current, loopVars
  <2>3. ASSUME LocalLoop, UNCHANGED <<trace, exit>> PROVE LocalLoop'
    BY <1>2, <2>3 DEF LocalLoop, Current, RunOutcome, LastText, loopVars
  <2>4. ASSUME LocalLoop, trace' = trace, LocalExit PROVE LocalLoop'
    BY <1>2, <2>4 DEF LocalLoop, LocalExit, Current, RunOutcome, LastText, loopVars
  <2>5. ASSUME route = "local", LoopStep, exit' = exit PROVE LocalLoop'
    BY <2>5, LocalLoopKept DEF ExitInv
  <2> QED
    BY <1>2, <2>1, <2>2, <2>3, <2>4, <2>5, LoopOrExit DEF ExitInv
<1> QED
  BY <1>1, <1>2, LoopOrExit

(* With the exit code 0 of the local pilot two requests were compared, the    *)
(* last was answered by text, the model stopped by itself, and every tool     *)
(* call has its result: whatever it was asked, the model answered, the server *)
(* did and interrupted it (local_run.py:27-39, 107-111).                      *)
THEOREM SuccessIsEarned == Spec => []LocalExitIsEarned
<1>1. Init => ExitInv
  <2> SUFFICES ASSUME ToolLoopInit, exit = None PROVE ExitInv
    BY DEF Init, CommandLineInit
  <2>1. IsListOf(<<>>) /\ DOMAIN <<>> = {} /\ None # 0
    BY NoneAssumption DEF IsListOf, NoneAssumption
  <2> QED
    BY <2>1 DEF ToolLoopInit, ExitInv, CapturedLists, CallsBound, LocalLoop
<1>2. ExitInv => LocalExitIsEarned
  <2> SUFFICES ASSUME ExitInv, route = "local", exit = 0
               PROVE  ExitFitsConversation
    BY DEF LocalExitIsEarned
  <2>1. /\ place = "analysed" /\ lists # <<>> /\ IsListOf(trace) /\ Len(trace) = Len(captured)
        /\ Len(captured) >= 2 /\ RunOutcome = "finished_with_text" /\ status \in Finals
    BY DEF ExitInv, LocalLoop
  <2>2. /\ status = "complete" /\ ToSet(LastText) \ Blanks # {}
        /\ (IF captured = <<>> THEN Null ELSE Field(Last(captured).reply, "finish_reason")) = Str(<<"stop">>)
    BY <2>1 DEF RunOutcome, Finals
  <2>3. Field(Last(captured).reply, "finish_reason") = Str(<<"stop">>)
    BY <2>1, <2>2
  <2>4. Last(Current).obj.role = Str(<<"assistant">>) /\ CallsOf(Last(Current)) = <<>>
    BY <2>2 DEF ExitInv, LocalLoop
  <2>5. CallIds(Current) = ResultIds(Current)
    <3>1. pending = <<>> /\ ToSet(<<>>) = {}
      BY <2>1 DEF ExitInv, CallsBound, ToSet
    <3> QED
      BY <2>1, <3>1 DEF ExitInv, CallsBound, IdsOf
  <2>6. Len(Reports) >= 1
    <3> DEFINE prints == FingerprintTrace(trace, EphemeralKey)
               n == Len(trace)
    <3>1. n \in Nat /\ n >= 2 /\ DOMAIN trace = 1 .. n
      BY <2>1 DEF IsListOf
    <3>2. DOMAIN prints = 1 .. n
      BY <3>1 DEF FingerprintTrace
    <3>3. Len(prints) = n
      BY <3>1, <3>2 DEF FingerprintTrace
    <3> HIDE DEF prints, n
    <3>4. Reports = CompareTrace(prints)
      BY DEF Reports, ReportsOf, prints
    <3>5. Reports = [i \in 1 .. n - 1 |-> Compare(prints[i], prints[i + 1])]
      BY <3>3, <3>4 DEF CompareTrace
    <3>6. n - 1 \in Nat /\ n - 1 >= 1
      BY <3>1
    <3> QED
      BY <3>5, <3>6
  <2> QED
    BY <2>2, <2>3, <2>4, <2>5, <2>6 DEF ExitFitsConversation, CallIds, ResultIds, IdsOf
<1> QED
  BY <1>1, <1>2, LoopStarts, LoopNext, ExitInvKept, PTL DEF Spec

-----------------------------------------------------------------------------
(* What is compared has the shape the comparison is exact for                 *)

(* Items made of a list, one by one, are a list.                              *)
LEMMA ListsMade ==
  ASSUME NEW s, IsListOf(s), NEW t, NEW item, t = [k \in DOMAIN s |-> item[k]]
  PROVE  IsListOf(t) /\ Len(t) = Len(s) /\ DOMAIN t = DOMAIN s
<1>1. Len(s) \in Nat /\ DOMAIN s = 1 .. Len(s)
  BY Lists
<1>2. t = [k \in 1 .. Len(s) |-> t[k]]
  BY <1>1
<1> QED
  BY <1>1, <1>2, ListOfFunction

(* A message of a line that is accepted.                                      *)
LEMMA MessageIsShaped ==
  ASSUME NEW v, IsJson(v), NEW x \in Levels(v, MaxDepth)[2], ValidMessage(x)
  PROVE  WellShapedMessage(MessageOf(x))
<1> DEFINE calls == Items(Field(x, "tool_calls"))
           m == MessageOf(x)
<1>1. Is("obj", x)
  BY DEF ValidMessage, Shape
<1>2. \A g \in DOMAIN x.obj : x.obj[g] \in Levels(v, MaxDepth)[3]
  <2>1. 2 \in 0 .. MaxDepth - 1 /\ 2 + 1 = 3
    BY TopLevels
  <2> QED
    BY <1>1, <2>1, OneDown
<1>3. \A g \in DOMAIN x.obj : /\ Is("str", x.obj[g]) => IsListOf(x.obj[g].str)
                              /\ Is("arr", x.obj[g]) => IsListOf(x.obj[g].arr)
  BY <1>2, JsonLists
<1>4. IsListOf(<<>>)
  BY DEF IsListOf
<1>5. IsListOf(IF Field(x, "content") = Null THEN <<>> ELSE StrOf(x.obj["content"]))
  <2>1. CASE Field(x, "content") # Null
    <3>1. "content" \in DOMAIN x.obj /\ Is("str", x.obj["content"])
      BY <2>1 DEF ValidMessage, StrOrNull, Field, Has
    <3>2. StrOf(x.obj["content"]) = x.obj["content"].str
      BY <3>1 DEF StrOf
    <3> QED
      BY <1>3, <2>1, <3>1, <3>2
  <2> QED
    BY <1>4, <2>1
<1>6. IsListOf(calls)
  <2>1. CASE Field(x, "tool_calls") # Null
    <3>1. "tool_calls" \in DOMAIN x.obj /\ Field(x, "tool_calls") = x.obj["tool_calls"]
      BY <2>1 DEF Field, Has
    <3>2. Is("arr", x.obj["tool_calls"])
      BY <2>1, <3>1 DEF ValidMessage, ListOf, IsList
    <3> QED
      BY <1>3, <2>1, <3>1, <3>2 DEF Items
  <2> QED
    BY <1>4, <2>1 DEF Items
<1> HIDE DEF calls
<1> DEFINE made == [k \in DOMAIN calls |-> CallOf(calls[k])]
           content == IF Field(x, "content") = Null THEN <<>> ELSE StrOf(x.obj["content"])
<1>7. m = [role |-> x.obj["role"].str, content |-> content,
           tool_call_id |-> RawOf(Field(x, "tool_call_id")), tool_calls |-> made]
  BY DEF MessageOf, calls
<1>8. IsListOf(made) /\ \A c \in ToSet(made) : WellShapedCall(c)
  <2> DEFINE item == [k \in DOMAIN calls |-> CallOf(calls[k])]
  <2>1. \A c \in ToSet(made) : \E k \in DOMAIN calls : c = CallOf(calls[k])
    BY DEF ToSet
  <2>2. \A c \in ToSet(made) : WellShapedCall(c)
    BY <2>1 DEF WellShapedCall, CallOf
  <2>3. made = [k \in DOMAIN calls |-> item[k]]
    OBVIOUS
  <2> HIDE DEF made, item
  <2> QED
    BY <1>6, <2>2, <2>3, ListsMade
<1> HIDE DEF made, content, m
<1>9. IsListOf(content)
  BY <1>5 DEF content
<1>10. /\ m.content = content /\ m.tool_calls = made
       /\ m = [role |-> m.role, content |-> m.content, tool_call_id |-> m.tool_call_id,
               tool_calls |-> m.tool_calls]
  BY <1>7
<1> QED
  BY <1>8, <1>9, <1>10 DEF WellShapedMessage, m

(* A request the strict reader makes of a JSON value.                         *)
LEMMA LinesAreShaped ==
  ASSUME NEW v, IsJson(v), Accepts(v)
  PROVE  WellShaped(RequestOf(v))
<1> DEFINE r == RequestOf(v)
           tools == Items(Field(v, "tools"))
           messages == v.obj["messages"].arr
<1>1. ValidLine(v)
  BY DEF Accepts
<1>2. Is("obj", v) /\ v \in Levels(v, MaxDepth)[0]
  BY <1>1, PartsUnfold DEF ValidLine, Shape
<1>3. \A g \in DOMAIN v.obj : v.obj[g] \in Levels(v, MaxDepth)[1]
  BY <1>2, OneDown, TopLevels
<1>4. \A g \in DOMAIN v.obj : /\ Is("str", v.obj[g]) => IsListOf(v.obj[g].str)
                              /\ Is("arr", v.obj[g]) => IsListOf(v.obj[g].arr)
  BY <1>3, JsonLists
<1>5. /\ r.system = RawOf(Field(v, "system"))
      /\ r.tools = [k \in DOMAIN tools |-> ToolOf(tools[k])]
      /\ r.messages = [k \in DOMAIN messages |-> MessageOf(messages[k])]
  BY DEF RequestOf
<1>6. r.system # None => IsListOf(r.system)
  <2> SUFFICES ASSUME Field(v, "system") # Null
               PROVE  IsListOf(RawOf(Field(v, "system")))
    BY <1>5 DEF RawOf
  <2>1. "system" \in DOMAIN v.obj /\ Field(v, "system") = v.obj["system"]
    BY DEF Field, Has
  <2>2. Is("str", v.obj["system"])
    BY <1>1, <2>1 DEF ValidLine, StrOrNull
  <2> QED
    BY <1>4, <2>1, <2>2 DEF RawOf
<1>7. IsListOf(tools)
  <2>1. CASE Field(v, "tools") # Null
    <3>1. "tools" \in DOMAIN v.obj /\ Field(v, "tools") = v.obj["tools"]
      BY <2>1 DEF Field, Has
    <3>2. Is("arr", v.obj["tools"])
      BY <1>1, <2>1, <3>1 DEF ValidLine, ListOf, IsList
    <3> QED
      BY <1>4, <2>1, <3>1, <3>2 DEF Items
  <2>2. IsListOf(<<>>)
    BY DEF IsListOf
  <2> QED
    BY <2>1, <2>2 DEF Items
<1>8. /\ "messages" \in DOMAIN v.obj /\ Is("arr", v.obj["messages"]) /\ IsListOf(messages)
      /\ \A y \in ToSet(messages) : ValidMessage(y)
  <2>1. /\ "messages" \in DOMAIN v.obj /\ IsList(v.obj["messages"], FALSE)
        /\ \A y \in ToSet(Items(v.obj["messages"])) : ValidMessage(y)
    BY <1>1 DEF ValidLine, Shape, ListOf
  <2>2. Is("arr", v.obj["messages"]) /\ v.obj["messages"] # Null
    BY <2>1 DEF IsList, Is, Null
  <2> QED
    BY <1>4, <2>1, <2>2 DEF Items
<1>9. IsListOf(r.tools) /\ \A t \in ToSet(r.tools) : WellShapedTool(t)
  <2> HIDE DEF tools, r
  <2> DEFINE item == [k \in DOMAIN tools |-> ToolOf(tools[k])]
  <2>1. \A t \in ToSet(r.tools) : \E k \in DOMAIN tools : t = ToolOf(tools[k])
    BY <1>5 DEF ToSet
  <2>2. \A t \in ToSet(r.tools) : WellShapedTool(t)
    BY <2>1 DEF WellShapedTool, ToolOf
  <2>3. r.tools = [k \in DOMAIN tools |-> item[k]]
    BY <1>5
  <2> HIDE DEF item
  <2> QED
    BY <1>7, <2>2, <2>3, ListsMade
<1>10. IsListOf(r.messages) /\ \A m \in ToSet(r.messages) : WellShapedMessage(m)
  <2>1. \A k \in DOMAIN messages : messages[k] \in Levels(v, MaxDepth)[2] /\ ValidMessage(messages[k])
    <3> DEFINE list == v.obj["messages"]
    <3>1. list \in Levels(v, MaxDepth)[1] /\ Is("arr", list)
      BY <1>3, <1>8
    <3>2. \A k \in DOMAIN messages : messages[k] \in Levels(v, MaxDepth)[2]
      <4> HIDE DEF list
      <4>1. \A k \in DOMAIN list.arr : list.arr[k] \in Levels(v, MaxDepth)[2]
        BY <3>1, OneDown, TopLevels
      <4> QED
        BY <4>1 DEF list
    <3> QED
      BY <1>8, <3>2 DEF ToSet
  <2> HIDE DEF messages, r
  <2> DEFINE item == [k \in DOMAIN messages |-> MessageOf(messages[k])]
  <2>2. \A m \in ToSet(r.messages) : \E k \in DOMAIN messages : m = MessageOf(messages[k])
    BY <1>5 DEF ToSet
  <2>3. \A m \in ToSet(r.messages) : WellShapedMessage(m)
    BY <2>1, <2>2, MessageIsShaped
  <2>4. r.messages = [k \in DOMAIN messages |-> item[k]]
    BY <1>5
  <2> HIDE DEF item
  <2> QED
    BY <1>8, <2>3, <2>4, ListsMade
<1> QED
  BY <1>6, <1>9, <1>10 DEF WellShaped

(* The requests read from a file are those of its lines.                      *)
LEMMA RequestsAre ==
  ASSUME NEW S, NEW lines \in Seq(S), NEW R, \A i \in LinesOf(lines) : RequestOf(lines[i]) \in R
  PROVE  Requests(lines) \in Seq(R)
<1> DEFINE n == Len(lines)
           V == Seq(R)
           More(i, requests) == IF lines[i] = Blank THEN requests
                                ELSE Append(requests, RequestOf(lines[i]))
           step == [x \in Nat \X V |-> IF x[1] \in 1 .. n THEN More(x[1], x[2]) ELSE <<>>]
           Reads(u) == u = [i \in 0 .. n |-> IF i = 0 THEN <<>> ELSE More(i, u[i - 1])]
           read == CHOOSE u : Reads(u)
<1>1. n \in Nat /\ <<>> \in V /\ DOMAIN lines = 1 .. n
  OBVIOUS
<1>2. ASSUME NEW i \in 1 .. n, NEW requests \in V PROVE More(i, requests) \in V
  <2>1. CASE lines[i] # Blank
    <3>1. RequestOf(lines[i]) \in R
      BY <1>1, <2>1 DEF LinesOf
    <3> DEFINE last == RequestOf(lines[i])
    <3> HIDE DEF last
    <3>2. Append(requests, last) \in Seq(R)
      BY <3>1 DEF last
    <3> QED
      BY <2>1, <3>2 DEF last
  <2> QED
    BY <2>1
<1>3. Requests(lines) = read[n]
  BY DEF Requests
<1> HIDE DEF More, V
<1>4. step \in [Nat \X V -> V]
  BY <1>1, <1>2
<1>5. PICK f : /\ f \in [0 .. n -> V] /\ f[0] = <<>>
               /\ \A i \in 1 .. n : f[i] = step[<<i, f[i - 1]>>]
  <2> DEFINE start == <<>>
  <2>1. start \in V
    BY <1>1
  <2> HIDE DEF step, start, n
  <2>2. \E f : IsRecursion(f, V, start, step, n)
    BY <1>1, <1>4, <2>1, RecursionExists
  <2> QED
    BY <2>2 DEF start, IsRecursion
<1>6. \A i \in 1 .. n : f[i] = More(i, f[i - 1])
  <2> SUFFICES ASSUME NEW i \in 1 .. n PROVE f[i] = More(i, f[i - 1])
    OBVIOUS
  <2>1. i - 1 \in 0 .. n /\ i \in Nat
    BY <1>1
  <2>2. <<i, f[i - 1]>> \in Nat \X V
    BY <1>5, <2>1
  <2> QED
    BY <1>5, <2>2
<1>7. Reads(f)
  <2>1. \A i \in 0 .. n : f[i] = IF i = 0 THEN <<>> ELSE More(i, f[i - 1])
    BY <1>1, <1>5, <1>6
  <2>2. f = [i \in 0 .. n |-> f[i]]
    BY <1>5
  <2> QED
    BY <2>1, <2>2
<1>8. Reads(read)
  BY <1>7
<1> HIDE DEF read, step, n
<1>9. \A i \in 0 .. n : read[i] = IF i = 0 THEN <<>> ELSE More(i, read[i - 1])
  BY <1>8
<1>10. \A i \in 0 .. n : read[i] \in V
  <2> DEFINE T == {i \in 0 .. n : read[i] \in V}
  <2>1. 0 \in T
    BY <1>1, <1>9
  <2>2. \A i \in 1 .. n : i - 1 \in T => i \in T
    <3> SUFFICES ASSUME NEW i \in 1 .. n, i - 1 \in T PROVE i \in T
      OBVIOUS
    <3>1. i \in 0 .. n /\ i # 0 /\ read[i - 1] \in V
      BY <1>1
    <3> QED
      BY <1>2, <1>9, <3>1
  <2> HIDE DEF T
  <2>3. \A i \in 0 .. n : i \in T
    BY <1>1, <2>1, <2>2, Upwards
  <2> QED
    BY <2>3 DEF T
<1> QED
  BY <1>1, <1>3, <1>10 DEF V

(* Of a message, what the bridge makes lists of.                              *)
MessageLists(m) ==
  /\ Is("obj", m)
  /\ Is("str", Field(m, "content")) => IsListOf(Field(m, "content").str)
  /\ IsListOf(CallsOf(m))

(* A captured call has the tools of a session, and messages of that shape.    *)
CallShaped(call) ==
  /\ {"messages", "tools", "extra"} \subseteq DOMAIN call
  /\ \E s \in Sessions : call.tools = s.tools /\ call.extra = s.extra
  /\ \A m \in ToSet(call.messages) : MessageLists(m)

(* Every captured call is one of the session.                                 *)
CapturedShaped ==
  /\ lists # <<>> => session \in Sessions
  /\ \A i \in DOMAIN captured : CallShaped(captured[i])

(* The value itself, and what stands in a field of it.                        *)
LEMMA FieldLists ==
  ASSUME NEW v, IsJson(v)
  PROVE  /\ Is("str", v) => IsListOf(v.str)
         /\ Is("arr", v) => IsListOf(v.arr)
         /\ Is("obj", v) => \A f \in DOMAIN v.obj : Is("str", v.obj[f]) => IsListOf(v.obj[f].str)
<1>1. v \in Levels(v, MaxDepth)[0]
  BY PartsUnfold
<1>2. 0 \in 0 .. MaxDepth - 1 /\ 0 + 1 = 1 /\ 0 \in 0 .. 5 /\ 1 \in 0 .. 5
  BY TopLevels
<1>3. (Is("str", v) => IsListOf(v.str)) /\ (Is("arr", v) => IsListOf(v.arr))
  BY <1>1, <1>2, JsonLists
<1>4. ASSUME Is("obj", v), NEW f \in DOMAIN v.obj, Is("str", v.obj[f]) PROVE IsListOf(v.obj[f].str)
  <2>1. v.obj[f] \in Levels(v, MaxDepth)[1]
    BY <1>1, <1>2, <1>4, OneDown
  <2> DEFINE x == v.obj[f]
  <2> HIDE DEF x
  <2>2. x \in Levels(v, MaxDepth)[1] /\ Is("str", x)
    BY <1>4, <2>1 DEF x
  <2>3. IsListOf(x.str)
    BY <1>2, <2>2, JsonLists
  <2> QED
    BY <2>3 DEF x
<1> QED
  BY <1>3, <1>4

(* The empty sequence is one.                                                 *)
LEMMA NoItems == IsListOf(<<>>)
BY DEF IsListOf

(* Whoever wrote a message of the loop, it has that shape.                    *)
LEMMA MessagesHaveLists ==
  ASSUME NEW m \in MessageSet
  PROVE  MessageLists(m)
<1>1. IsListOf(CallsOf(m))
  <2>1. Len(CallsOf(m)) \in Nat /\ DOMAIN CallsOf(m) = 1 .. Len(CallsOf(m))
    BY CallsOfMessages
  <2>2. CASE CallsOf(m) = <<>>
    BY <2>2 DEF IsListOf
  <2>3. CASE CallsOf(m) # <<>>
    <3>1. PICK reply \in Replies : Completes(reply) /\ m = AssistantMessage(reply)
      BY <2>3, CallsOfOthers DEF MessageSet
    <3> DEFINE item == [k \in DOMAIN CallsOf(reply) |-> Rebuilt(CallsOf(reply)[k])]
               s == CallsOf(reply)
    <3>2. CallsOf(m) = [k \in DOMAIN s |-> item[k]] /\ IsListOf(s)
      BY <3>1, CallsOfAssistant, CallsOfReply, ListsAreLists
    <3> HIDE DEF item, s
    <3> QED
      BY <3>2, ListsMade
  <2> QED
    BY <2>2, <2>3
<1>2. CASE \E s \in Sessions : m = Opening(s)[1] \/ m = Opening(s)[2]
  <2>1. PICK s \in Sessions : m = Opening(s)[1] \/ m = Opening(s)[2]
    BY <1>2
  <2>2. Is("obj", m) /\ Field(m, "content") \in {s.system, s.user}
    <3>1. CASE m = Opening(s)[1]
      BY <3>1 DEF Opening, Obj, Is, Field, Has
    <3>2. CASE m = Opening(s)[2]
      BY <3>2 DEF Opening, Obj, Is, Field, Has
    <3> QED
      BY <2>1, <3>1, <3>2
  <2>3. IsJson(s.system) /\ IsJson(s.user)
    BY SessionsAssumption DEF SessionsAssumption
  <2> QED
    BY <1>1, <2>2, <2>3, FieldLists DEF MessageLists
<1>3. CASE \E reply \in Replies : Completes(reply) /\ m = AssistantMessage(reply)
  <2>1. PICK reply \in Replies : Completes(reply) /\ m = AssistantMessage(reply)
    BY <1>3
  <2> DEFINE content == OrElse(Field(reply, "content"), Str(<<>>))
             calls == Arr([k \in DOMAIN CallsOf(reply) |-> Rebuilt(CallsOf(reply)[k])])
  <2>2. m = Obj([role |-> Str(<<"assistant">>), content |-> content])
          \/ m = Obj([role |-> Str(<<"assistant">>), content |-> content, tool_calls |-> calls])
    BY <2>1 DEF AssistantMessage
  <2>3. IsJson(reply) /\ Is("obj", reply)
    BY <2>1, RepliesAssumption DEF RepliesAssumption, Completes
  <2>4. Is("str", content) => IsListOf(content.str)
    <3>1. CASE Field(reply, "content") = Null
      <4>1. content = Str(<<>>)
        BY <3>1 DEF OrElse
      <4>2. IsListOf(Str(<<>>).str)
        BY JsonValues, NoItems
      <4> HIDE DEF content
      <4> QED
        BY <4>1, <4>2
    <3>2. CASE Field(reply, "content") # Null
      <4>1. "content" \in DOMAIN reply.obj /\ content = reply.obj["content"]
        BY <3>2 DEF Field, Has, OrElse
      <4>2. \A f \in DOMAIN reply.obj : Is("str", reply.obj[f]) => IsListOf(reply.obj[f].str)
        BY <2>3, FieldLists
      <4> HIDE DEF content
      <4> QED
        BY <4>1, <4>2
    <3> QED
      BY <3>1, <3>2
  <2> HIDE DEF content, calls
  <2>5. Is("obj", m) /\ Field(m, "content") = content
    BY <2>2 DEF Obj, Is, Field, Has
  <2> QED
    BY <1>1, <2>4, <2>5 DEF MessageLists
<1>4. CASE \E call \in CallSet : m = ResultOf(call)
  <2>1. PICK call \in CallSet : m = ResultOf(call)
    BY <1>4
  <2>2. Is("obj", m) /\ Field(m, "content") = Str(<<Kind(call)>>)
    BY <2>1 DEF ResultOf, Obj, Is, Field, Has
  <2>3. IsListOf(<<Kind(call)>>)
    BY OneLong
  <2> QED
    BY <1>1, <2>2, <2>3, JsonValues DEF MessageLists
<1> QED
  BY <1>2, <1>3, <1>4 DEF MessageSet

(* The edit of the demo keeps the shape of the message.                       *)
LEMMA DriftedMessage ==
  ASSUME NEW m, MessageLists(m)
  PROVE  MessageLists([m EXCEPT !.obj.content.str = m.obj.content.str \o <<"drift">>])
<1> DEFINE text == m.obj["content"].str \o <<"drift">>
           content == [m.obj["content"] EXCEPT !["str"] = text]
           fields == [m.obj EXCEPT !["content"] = content]
           first == [m EXCEPT !["obj"] = fields]
<1>1. [m EXCEPT !.obj.content.str = m.obj.content.str \o <<"drift">>] = first
  OBVIOUS
<1>2. Is("obj", first) /\ first.obj = fields
  <2> HIDE DEF fields
  <2> QED
    BY DEF MessageLists, Is
<1>3. DOMAIN fields = DOMAIN m.obj
  OBVIOUS
<1>4. \A f \in DOMAIN m.obj : f # "content" => fields[f] = m.obj[f]
  OBVIOUS
<1>5. "content" \in DOMAIN m.obj => fields["content"] = content
  <2> HIDE DEF content
  <2> QED
    OBVIOUS
<1>6. DOMAIN content = DOMAIN m.obj["content"]
  OBVIOUS
<1>7. "str" \in DOMAIN m.obj["content"] => content.str = text
  <2> HIDE DEF text
  <2> QED
    OBVIOUS
<1> HIDE DEF first, fields, content
<1>8. CallsOf(first) = CallsOf(m)
  BY <1>2, <1>3, <1>4 DEF CallsOf, Has
<1>9. ASSUME Is("str", Field(first, "content")) PROVE IsListOf(Field(first, "content").str)
  <2>1. "content" \in DOMAIN m.obj /\ Field(first, "content") = content
    <3>1. ~Is("str", Null)
      BY DEF Is, Null
    <3>2. Has(first, "content") <=> "content" \in DOMAIN m.obj
      BY <1>2, <1>3 DEF Has
    <3> QED
      BY <1>2, <1>5, <1>9, <3>1, <3>2 DEF Field
  <2>2. Is("str", m.obj["content"]) /\ content.str = text
    BY <1>6, <1>7, <1>9, <2>1 DEF Is
  <2>3. IsListOf(m.obj["content"].str)
    BY <2>1, <2>2 DEF MessageLists, Field, Has
  <2>4. IsListOf(text)
    BY <2>3, JoinedLists, OneLong
  <2> HIDE DEF text
  <2> QED
    BY <2>1, <2>2, <2>4
<1>10. IsListOf(CallsOf(first))
  BY <1>8 DEF MessageLists
<1> QED
  BY <1>1, <1>2, <1>9, <1>10 DEF MessageLists

(* An answer captures a call of that shape, and the demo keeps it.            *)
LEMMA CapturedShapedKept ==
  ASSUME LoopInv, CapturedLists, CapturedShaped, LoopStep
  PROVE  CapturedShaped'
<1>0. /\ lists \in Seq(Seq(MessageSet)) /\ (session = None \/ session \in Sessions)
      /\ IsListOf(captured)
  BY DEF LoopInv, LoopTypes, CapturedLists
<1>1. ASSUME session' = session, lists # <<>>, captured' = captured PROVE CapturedShaped'
  BY <1>1 DEF CapturedShaped
<1>2. CASE StartLoop
  <2>1. session' \in Sessions /\ captured' = captured
    BY <1>0, <1>2 DEF StartLoop
  <2> QED
    BY <2>1 DEF CapturedShaped
<1>3. CASE \E reply \in Replies : Answer(reply)
  <2>1. PICK reply \in Replies : Answer(reply)
    BY <1>3
  <2>2. /\ captured' = Append(captured, Call(reply)) /\ lists # <<>> /\ session' = session
    BY <2>1 DEF Answer, LoopInv, LoopTypes
  <2>3. session \in Sessions
    BY <2>2 DEF CapturedShaped
  <2>4. CallShaped(Call(reply))
    <3> DEFINE call == Call(reply)
    <3>1. /\ {"messages", "tools", "extra"} \subseteq DOMAIN call
          /\ call.tools = session.tools /\ call.extra = session.extra /\ call.messages = Current
      BY DEF Call
    <3>2. Current \in Seq(MessageSet)
      <4>1. Len(lists) \in DOMAIN lists
        BY <1>0, <2>2
      <4> QED
        BY <1>0, <4>1 DEF Current
    <3>3. \A m \in ToSet(Current) : MessageLists(m)
      <4>1. \A k \in DOMAIN Current : Current[k] \in MessageSet
        BY <3>2
      <4> QED
        BY <4>1, MessagesHaveLists DEF ToSet
    <3> HIDE DEF call
    <3> QED
      BY <2>3, <3>1, <3>3 DEF CallShaped, call
  <2>5. \A i \in DOMAIN captured' : CallShaped(captured'[i])
    <3> DEFINE call == Call(reply)
    <3> HIDE DEF call
    <3>1. /\ DOMAIN Append(captured, call) = 1 .. Len(captured) + 1 /\ Len(captured) \in Nat
          /\ DOMAIN captured = 1 .. Len(captured)
          /\ \A i \in DOMAIN captured : Append(captured, call)[i] = captured[i]
          /\ Append(captured, call)[Len(captured) + 1] = call
      BY <1>0, ListsAreLists
    <3>2. captured' = Append(captured, call) /\ CallShaped(call)
      BY <2>2, <2>4 DEF call
    <3>3. \A i \in DOMAIN captured : CallShaped(captured[i])
      BY DEF CapturedShaped
    <3>4. \A i \in 1 .. Len(captured) + 1 : i \in 1 .. Len(captured) \/ i = Len(captured) + 1
      BY <3>1
    <3> QED
      BY <3>1, <3>2, <3>3, <3>4
  <2> QED
    BY <2>2, <2>3, <2>5 DEF CapturedShaped
<1>4. CASE RouteCall
  <2>1. session' = session /\ captured' = captured /\ lists # <<>>
    BY <1>4 DEF RouteCall, LoopInv, LoopTypes
  <2> QED
    BY <1>1, <2>1
<1>5. CASE Drift
  <2> DEFINE messages == captured[2].messages
             first == [messages[1] EXCEPT !.obj.content.str = messages[1].obj.content.str \o <<"drift">>]
             changed == [messages EXCEPT ![1] = first]
             edited == [captured[2] EXCEPT !.messages = changed]
  <2>1. captured' = [captured EXCEPT ![2] = edited] /\ lists' = lists /\ session' = session
    BY <1>5 DEF Drift
  <2>2. 2 \in DOMAIN captured
    <3>1. Len(captured) >= 2
      BY <1>5 DEF Drift
    <3>2. Len(captured) \in Nat /\ DOMAIN captured = 1 .. Len(captured)
      BY <1>0, ListsAreLists
    <3> QED
      BY <3>1, <3>2
  <2>3. /\ IsListOf(messages) /\ messages # <<>> /\ CallShaped(captured[2])
    BY <2>2 DEF CapturedLists, CapturedShaped
  <2>4. 1 \in DOMAIN messages
    <3> DEFINE m == messages
    <3> HIDE DEF m
    <3>1. IsListOf(m) /\ m # <<>>
      BY <2>3 DEF m
    <3>2. 1 \in DOMAIN m
      BY <3>1 DEF IsListOf
    <3> QED
      BY <3>2 DEF m
  <2>5. MessageLists(first)
    <3> DEFINE m == messages[1]
    <3>1. MessageLists(m)
      <4>1. m \in ToSet(messages)
        BY <2>4 DEF ToSet
      <4> QED
        BY <2>3, <4>1 DEF CallShaped
    <3> HIDE DEF m
    <3>2. MessageLists([m EXCEPT !.obj.content.str = m.obj.content.str \o <<"drift">>])
      BY <3>1, DriftedMessage
    <3> QED
      BY <3>2 DEF m
  <2> HIDE DEF first
  <2>6. \A m \in ToSet(changed) : MessageLists(m)
    <3> DEFINE ms == messages
    <3> HIDE DEF ms
    <3>1. /\ IsListOf(ms) /\ 1 \in DOMAIN ms /\ changed = [ms EXCEPT ![1] = first]
          /\ \A m \in ToSet(ms) : MessageLists(m)
      BY <2>3, <2>4 DEF ms, CallShaped
    <3> HIDE DEF changed
    <3>2. DOMAIN changed = DOMAIN ms /\ changed[1] = first /\ \A j \in DOMAIN ms : j # 1 => changed[j] = ms[j]
      BY <3>1, ListExcept
    <3> QED
      BY <2>5, <3>1, <3>2 DEF ToSet
  <2> HIDE DEF changed
  <2>7. CallShaped(edited)
    <3>1. /\ {"messages", "tools", "extra"} \subseteq DOMAIN edited /\ edited.messages = changed
          /\ edited.tools = captured[2].tools /\ edited.extra = captured[2].extra
      BY <2>3 DEF CallShaped
    <3> HIDE DEF edited
    <3> QED
      BY <2>3, <2>6, <3>1 DEF CallShaped
  <2> HIDE DEF edited
  <2>8. /\ DOMAIN captured' = DOMAIN captured /\ captured'[2] = edited
        /\ \A j \in DOMAIN captured : j # 2 => captured'[j] = captured[j]
    BY <1>0, <2>1, <2>2, ListExcept
  <2> QED
    BY <2>1, <2>7, <2>8 DEF CapturedShaped
<1>6. CASE CreateRaises \/ CallFails \/ LoopEnds \/ AnalyzeCaptured
  BY <1>6 DEF CreateRaises, CallFails, LoopEnds, AnalyzeCaptured, CapturedShaped
<1> QED
  BY <1>2, <1>3, <1>4, <1>5, <1>6 DEF LoopStep

(* A call of that shape that the bridge takes over is a request of the shape  *)
(* the comparison is exact for.                                               *)
LEMMA BridgedIsShaped ==
  ASSUME NEW call, CallShaped(call), IsListOf(call.messages), call.messages # <<>>,
         Bridges(call), NEW index
  PROVE  /\ WellShaped(BridgedRequest(call, index))
         /\ <<EphemeralKey, BridgedRequest(call, index).tool_choice>> # None
<1> DEFINE r == BridgedRequest(call, index)
           count == Len(call.messages) - 1
           tools == call.tools.arr
<1>1. /\ r.system = call.messages[1].obj["content"].str
      /\ r.tools = [k \in DOMAIN tools |-> BridgedTool(tools[k])]
      /\ r.messages = [k \in 1 .. count |-> BridgedMessage(call.messages[k + 1])]
      /\ r.tool_choice = IF Has(call.extra, "tool_choice")
                         THEN ToolChoice(call.extra.obj["tool_choice"]) ELSE None
  BY DEF BridgedRequest
<1>2. PICK s \in Sessions : call.tools = s.tools /\ call.extra = s.extra
  BY DEF CallShaped
<1>3. Len(call.messages) \in Nat \ {0} /\ DOMAIN call.messages = 1 .. Len(call.messages)
  <2> DEFINE ms == call.messages
  <2> HIDE DEF ms
  <2>1. ms \in Seq(ToSet(ms)) /\ ms # <<>>
    BY DEF ms, IsListOf
  <2>2. Len(ms) \in Nat \ {0} /\ DOMAIN ms = 1 .. Len(ms)
    BY <2>1
  <2> QED
    BY <2>2 DEF ms
<1>4. \A k \in 1 .. Len(call.messages) : MessageLists(call.messages[k])
  <2>1. \A k \in 1 .. Len(call.messages) : call.messages[k] \in ToSet(call.messages)
    BY <1>3 DEF ToSet
  <2> QED
    BY <2>1 DEF CallShaped
<1>5. IsListOf(r.system)
  <2> DEFINE m == call.messages[1]
  <2>1. MessageLists(m) /\ Is("str", Field(m, "content"))
    BY <1>3, <1>4 DEF Bridges
  <2> HIDE DEF m, r
  <2>2. Field(m, "content") = m.obj["content"]
    BY <2>1, JsonValues DEF Field
  <2>3. IsListOf(m.obj["content"].str)
    BY <2>1, <2>2 DEF MessageLists
  <2> QED
    BY <1>1, <2>3 DEF m
<1>6. IsListOf(tools)
  <2>1. IsJson(call.tools)
    BY <1>2, SessionsAssumption DEF SessionsAssumption
  <2>2. Is("arr", call.tools)
    BY DEF Bridges, ListOf, IsList
  <2> QED
    BY <2>1, <2>2, FieldLists
<1>7. IsListOf(r.tools) /\ \A t \in ToSet(r.tools) : WellShapedTool(t)
  <2> HIDE DEF tools, r
  <2> DEFINE item == [k \in DOMAIN tools |-> BridgedTool(tools[k])]
  <2>1. \A t \in ToSet(r.tools) : \E k \in DOMAIN tools : t = BridgedTool(tools[k])
    BY <1>1 DEF ToSet
  <2>2. \A t \in ToSet(r.tools) : WellShapedTool(t)
    BY <2>1 DEF WellShapedTool, BridgedTool
  <2>3. r.tools = [k \in DOMAIN tools |-> item[k]]
    BY <1>1
  <2> HIDE DEF item
  <2> QED
    BY <1>6, <2>2, <2>3, ListsMade
<1>8. \A k \in 1 .. count : BridgesMessage(call.messages[k + 1])
  <2> DEFINE ms == call.messages
  <2> HIDE DEF ms
  <2>1. ms \in Seq(ToSet(ms)) /\ ms # <<>> /\ count = Len(ms) - 1
    BY DEF ms, IsListOf
  <2>2. /\ DOMAIN Tail(ms) = 1 .. Len(ms) - 1
        /\ \A k \in 1 .. Len(ms) - 1 : Tail(ms)[k] = ms[k + 1]
    BY <2>1
  <2>3. \A m \in ToSet(Tail(ms)) : BridgesMessage(m)
    BY DEF Bridges, ms
  <2>4. \A k \in 1 .. Len(ms) - 1 : BridgesMessage(ms[k + 1])
    BY <2>2, <2>3 DEF ToSet
  <2> QED
    BY <2>1, <2>4 DEF ms
<1>9. ASSUME NEW v, MessageLists(v), BridgesMessage(v) PROVE WellShapedMessage(BridgedMessage(v))
  <2> DEFINE calls == CallsOf(v)
             made == [k \in DOMAIN calls |-> BridgedCall(calls[k])]
             content == OrElse(Field(v, "content"), Str(<<>>)).str
             m == BridgedMessage(v)
  <2>1. m = [role |-> v.obj["role"].str, content |-> content,
             tool_call_id |-> RawOf(Field(v, "tool_call_id")), tool_calls |-> made]
    BY DEF BridgedMessage
  <2>2. IsListOf(content)
    <3>1. CASE Field(v, "content") = Null
      <4>1. content = Str(<<>>).str
        BY <3>1 DEF OrElse
      <4>2. IsListOf(Str(<<>>).str)
        BY JsonValues, NoItems
      <4> HIDE DEF content
      <4> QED
        BY <4>1, <4>2
    <3>2. CASE Field(v, "content") # Null
      <4>1. Is("str", Field(v, "content")) /\ content = Field(v, "content").str
        BY <1>9, <3>2 DEF BridgesMessage, StrOrNull, OrElse
      <4> QED
        BY <1>9, <4>1 DEF MessageLists
    <3> QED
      BY <3>1, <3>2
  <2>3. IsListOf(calls)
    BY <1>9 DEF MessageLists
  <2> HIDE DEF calls
  <2>4. IsListOf(made) /\ \A c \in ToSet(made) : WellShapedCall(c)
    <3> DEFINE item == [k \in DOMAIN calls |-> BridgedCall(calls[k])]
    <3>1. \A c \in ToSet(made) : \E k \in DOMAIN calls : c = BridgedCall(calls[k])
      BY DEF ToSet
    <3>2. \A c \in ToSet(made) : WellShapedCall(c)
      BY <3>1 DEF WellShapedCall, BridgedCall
    <3>3. made = [k \in DOMAIN calls |-> item[k]]
      OBVIOUS
    <3> HIDE DEF made, item
    <3> QED
      BY <2>3, <3>2, <3>3, ListsMade
  <2> HIDE DEF made, content, m
  <2>5. /\ m.content = content /\ m.tool_calls = made
        /\ m = [role |-> m.role, content |-> m.content, tool_call_id |-> m.tool_call_id,
                tool_calls |-> m.tool_calls]
    BY <2>1
  <2> QED
    BY <2>2, <2>4, <2>5 DEF WellShapedMessage, m
<1>10. IsListOf(r.messages) /\ \A m \in ToSet(r.messages) : WellShapedMessage(m)
  <2>1. \A k \in 1 .. count : WellShapedMessage(BridgedMessage(call.messages[k + 1]))
    <3> SUFFICES ASSUME NEW k \in 1 .. count
                 PROVE  WellShapedMessage(BridgedMessage(call.messages[k + 1]))
      OBVIOUS
    <3>1. k + 1 \in 1 .. Len(call.messages)
      BY <1>3
    <3> QED
      BY <1>4, <1>8, <1>9, <3>1
  <2>2. count \in Nat
    BY <1>3
  <2> DEFINE item == [k \in 1 .. count |-> BridgedMessage(call.messages[k + 1])]
  <2>3. r.messages = item /\ \A k \in 1 .. count : WellShapedMessage(item[k])
    BY <1>1, <2>1
  <2>4. item = [k \in 1 .. count |-> item[k]]
    OBVIOUS
  <2> HIDE DEF item, count, r
  <2>5. IsListOf(item) /\ DOMAIN item = 1 .. count
    BY <2>2, <2>4, ListOfFunction
  <2> QED
    BY <2>3, <2>5 DEF ToSet
<1>11. <<EphemeralKey, r.tool_choice>> # None
  <2>1. CASE Has(call.extra, "tool_choice")
    <3> DEFINE choice == call.extra.obj["tool_choice"]
    <3>1. choice \in Range(s.extra.obj) /\ choice \in Range(call.extra.obj)
      BY <1>2, <2>1 DEF Has, Range
    <3>2. IsModeChoice(choice) \/ IsFunctionChoice(choice)
      BY <3>1 DEF Bridges
    <3>3. <<EphemeralKey, ToolChoice(choice)>> # None
      BY <3>1, <3>2, SessionsAssumption DEF SessionsAssumption
    <3>4. r.tool_choice = ToolChoice(choice)
      BY <1>1, <2>1
    <3> QED
      BY <3>3, <3>4
  <2>2. CASE ~Has(call.extra, "tool_choice")
    <3>1. <<EphemeralKey, None>> # None
      BY <1>2, SessionsAssumption DEF SessionsAssumption
    <3> QED
      BY <1>1, <2>2, <3>1
  <2> QED
    BY <2>1, <2>2
<1> HIDE DEF r
<1> QED
  BY <1>5, <1>7, <1>10, <1>11 DEF WellShaped, r

(* The trace, whichever program made it, has the shape the comparison is      *)
(* exact for.                                                                 *)
TraceShaped ==
  trace # None =>
    /\ IsListOf(trace)
    /\ \A r \in ToSet(trace) : WellShaped(r) /\ <<EphemeralKey, r.tool_choice>> # None

(* A file is either read, every line of it, or refused at a line.             *)
LEMMA Parsed ==
  ASSUME NEW lines
  PROVE  /\ "requests" \in DOMAIN ParseStrictJsonl(lines) =>
              /\ ParseStrictJsonl(lines).requests = Requests(lines)
              /\ \A i \in LinesOf(lines) : Accepts(lines[i])
         /\ "line" \in DOMAIN ParseStrictJsonl(lines) =>
              \E bad \in SUBSET LinesOf(lines) :
                /\ bad # {} /\ ParseStrictJsonl(lines).line = Min(bad)
                /\ \A i \in LinesOf(lines) : ~Accepts(lines[i]) => i \in bad
<1> DEFINE bad == {i \in LinesOf(lines) :
                     \/ ~Accepts(lines[i])
                     \/ Cardinality(LinesOf(lines) \cap (1 .. i - 1)) >= MaxRequests}
<1>1. ParseStrictJsonl(lines) = IF bad = {} THEN [requests |-> Requests(lines)] ELSE [line |-> Min(bad)]
  BY DEF ParseStrictJsonl
<1>2. bad \in SUBSET LinesOf(lines) /\ \A i \in LinesOf(lines) : ~Accepts(lines[i]) => i \in bad
  OBVIOUS
<1> HIDE DEF bad
<1>3. CASE bad = {}
  <2>1. ParseStrictJsonl(lines) = [requests |-> Requests(lines)]
    BY <1>1, <1>3
  <2> QED
    BY <1>2, <1>3, <2>1
<1>4. CASE bad # {}
  <2>1. ParseStrictJsonl(lines) = [line |-> Min(bad)]
    BY <1>1, <1>4
  <2> QED
    BY <1>2, <1>4, <2>1
<1> QED
  BY <1>3, <1>4

(* What is read from a file is a trace.                                       *)
LEMMA FileIsTrace ==
  ASSUME NEW lines \in Seq(Lines), \A i \in LinesOf(lines) : Accepts(lines[i])
  PROVE  /\ IsListOf(Requests(lines)) /\ Requests(lines) # None
         /\ \A r \in ToSet(Requests(lines)) :
              WellShaped(r) /\ <<EphemeralKey, r.tool_choice>> # None
<1> DEFINE R == {RequestOf(line) : line \in {v \in Lines : Accepts(v)}}
<1>1. \A i \in LinesOf(lines) : RequestOf(lines[i]) \in R
  BY DEF LinesOf
<1>2. \A r \in R : WellShaped(r)
  BY LinesAreShaped, LinesAssumption DEF LinesAssumption
<1>3. None \notin Seq(R) /\ \A r \in R : <<EphemeralKey, r.tool_choice>> # None
  BY LinesAssumption DEF LinesAssumption
<1> HIDE DEF R
<1>4. Requests(lines) \in Seq(R)
  BY <1>1, RequestsAre
<1> DEFINE read == Requests(lines)
<1> HIDE DEF read
<1>5. read \in Seq(R)
  BY <1>4 DEF read
<1>6. \A i \in DOMAIN read : read[i] \in R
  BY <1>5
<1>7. IsListOf(read) /\ read # None
  BY <1>3, <1>5, ListsAreLists
<1> QED
  BY <1>2, <1>3, <1>6, <1>7 DEF ToSet, read

(* Only the two ends of the way to the comparison make a trace.               *)
LEMMA TraceMade ==
  ASSUME [Next]_vars
  PROVE  \/ trace' = trace
         \/ Reported
         \/ AnalyzeCaptured
BY DEF Next, vars, ByFile, CommandLineNext, ByScript, Main, Around, InferenceStep, LocalExit,
       Write, InputRefused, LineRefused, AnalysisRefused, LoopStep

(* A file is written line by line.                                            *)
LEMMA FileWritten ==
  ASSUME [Next]_vars, file \in Seq(Lines)
  PROVE  file' \in Seq(Lines)
<1>1. file' = file \/ \E line \in Lines : file' = Append(file, line)
  BY DEF Next, vars, cliVars, ByFile, CommandLineNext, ByScript, Main, Around,
         Write, InputRefused, LineRefused, AnalysisRefused, Reported
<1> QED
  BY <1>1

(* Each of the two makes a trace of that shape.                               *)
LEMMA TraceShapedKept ==
  ASSUME TraceShaped, file \in Seq(Lines), CapturedLists, CapturedShaped, [Next]_vars
  PROVE  TraceShaped'
<1>1. CASE trace' = trace
  BY <1>1 DEF TraceShaped
<1>2. CASE Reported
  <2>1. "requests" \in DOMAIN ParseStrictJsonl(file) /\ trace' = ParseStrictJsonl(file).requests
    BY <1>2 DEF Reported, Analyze
  <2>2. trace' = Requests(file) /\ \A i \in LinesOf(file) : Accepts(file[i])
    BY <2>1, Parsed
  <2> QED
    BY <2>2, FileIsTrace DEF TraceShaped
<1>3. CASE AnalyzeCaptured /\ trace' # trace
  <2> DEFINE calls == [i \in DOMAIN captured |->
                         [captured[i] EXCEPT !.messages = Snapshot(captured[i].list, @)]]
             requests == [i \in DOMAIN calls |-> BridgedRequest(calls[i], i - 1)]
  <2>1. trace' = requests /\ \A i \in DOMAIN calls : Bridges(calls[i])
    BY <1>3 DEF AnalyzeCaptured, Analyze
  <2>2. ASSUME NEW i \in DOMAIN captured
        PROVE  /\ CallShaped(calls[i]) /\ IsListOf(calls[i].messages) /\ calls[i].messages # <<>>
    <3> DEFINE call == captured[i]
    <3>1. CallShaped(call) /\ IsListOf(call.messages) /\ call.messages # <<>>
      BY <2>2 DEF CapturedLists, CapturedShaped
    <3>2. calls[i] = [call EXCEPT !.messages = call.messages]
      BY DEF Snapshot
    <3> HIDE DEF call, calls
    <3>3. /\ DOMAIN calls[i] = DOMAIN call /\ calls[i].messages = call.messages
          /\ calls[i].tools = call.tools /\ calls[i].extra = call.extra
      BY <3>1, <3>2 DEF CallShaped
    <3>4. CallShaped(calls[i])
      BY <3>1, <3>3 DEF CallShaped
    <3> QED
      BY <3>1, <3>3, <3>4
  <2>3. DOMAIN calls = DOMAIN captured /\ IsListOf(captured)
    BY DEF CapturedLists
  <2> HIDE DEF calls
  <2>4. \A i \in DOMAIN calls : /\ WellShaped(requests[i])
                                /\ <<EphemeralKey, requests[i].tool_choice>> # None
    <3> SUFFICES ASSUME NEW i \in DOMAIN calls
                 PROVE  /\ WellShaped(BridgedRequest(calls[i], i - 1))
                        /\ <<EphemeralKey, BridgedRequest(calls[i], i - 1).tool_choice>> # None
      OBVIOUS
    <3> QED
      BY <2>1, <2>2, <2>3, BridgedIsShaped
  <2> DEFINE item == [i \in DOMAIN captured |-> requests[i]]
  <2>5. requests = [i \in DOMAIN captured |-> item[i]] /\ DOMAIN requests = DOMAIN calls
    BY <2>3
  <2> HIDE DEF requests, item
  <2>6. IsListOf(requests)
    BY <2>3, <2>5, ListsMade
  <2> QED
    BY <2>1, <2>4, <2>5, <2>6 DEF TraceShaped, ToSet
<1> QED
  BY <1>1, <1>2, <1>3, TraceMade

(* One report for each pair.                                                  *)
PairReport(requests, i) == Compare(FingerprintRequest(requests[i], EphemeralKey),
                                   FingerprintRequest(requests[i + 1], EphemeralKey))

LEMMA ReportsAre ==
  ASSUME NEW requests, IsListOf(requests),
         NEW n, n = IF requests = <<>> THEN 0 ELSE Len(requests) - 1
  PROVE  /\ n \in Nat /\ DOMAIN ReportsOf(requests) = 1 .. n
         /\ \A i \in 1 .. n :
              /\ i \in DOMAIN requests /\ i + 1 \in DOMAIN requests
              /\ ReportsOf(requests)[i] = PairReport(requests, i)
<1> DEFINE prints == FingerprintTrace(requests, EphemeralKey)
           len == Len(requests)
<1>1. len \in Nat /\ DOMAIN requests = 1 .. len /\ (requests = <<>> <=> len = 0)
  BY Lists DEF IsListOf
<1>2. prints = [i \in 1 .. len |-> FingerprintRequest(requests[i], EphemeralKey)]
  BY <1>1 DEF FingerprintTrace
<1>3. Len(prints) = len
  <2> DEFINE list == prints
  <2>1. list = [i \in 1 .. len |-> list[i]]
    BY <1>2
  <2> HIDE DEF prints, list, len
  <2>2. Len(list) = len
    BY <1>1, <2>1, ListOfFunction
  <2> QED
    BY <2>2 DEF list
<1>4. \A i \in 1 .. len : prints[i] = FingerprintRequest(requests[i], EphemeralKey)
  BY <1>2
<1>5. ReportsOf(requests) = [i \in 1 .. Len(prints) - 1 |-> Compare(prints[i], prints[i + 1])]
  BY DEF ReportsOf, CompareTrace
<1> HIDE DEF prints
<1>6. n \in Nat /\ 1 .. len - 1 = 1 .. n
  <2>1. CASE len = 0
    BY <1>1, <2>1
  <2>2. CASE len # 0
    BY <1>1, <2>2
  <2> QED
    BY <2>1, <2>2
<1> HIDE DEF len
<1>7. \A i \in 1 .. n : i \in 1 .. len /\ i + 1 \in 1 .. len
  BY <1>1, <1>6
<1>8. ReportsOf(requests) = [i \in 1 .. n |-> Compare(prints[i], prints[i + 1])]
  BY <1>3, <1>5, <1>6
<1> QED
  BY <1>1, <1>4, <1>6, <1>7, <1>8 DEF PairReport

(* The rows of a report show it.                                              *)
LEMMA RowsAre ==
  ASSUME IsListOf(trace), NEW n, n = IF trace = <<>> THEN 0 ELSE Len(trace) - 1
  PROVE  /\ Len(Rows) = n /\ DOMAIN Rows = 1 .. n
         /\ \A i \in 1 .. n :
              /\ i \in DOMAIN trace /\ i + 1 \in DOMAIN trace
              /\ Reports[i] = PairReport(trace, i)
              /\ Rows[i].change = Reports[i].kind
              /\ Rows[i].segment_unit_offset =
                   IF HasOffset(Reports[i].kind) THEN Reports[i].segment_offset ELSE None
<1>1. /\ n \in Nat /\ DOMAIN Reports = 1 .. n
      /\ \A i \in 1 .. n : /\ i \in DOMAIN trace /\ i + 1 \in DOMAIN trace
                           /\ Reports[i] = PairReport(trace, i)
  BY ReportsAre DEF Reports
<1>2. Rows = [i \in 1 .. n |->
                [previous_request_number |-> i, request_number |-> i + 1,
                 change |-> Reports[i].kind,
                 segment_unit_offset |-> IF HasOffset(Reports[i].kind) THEN Reports[i].segment_offset
                                         ELSE None]]
  BY <1>1 DEF Rows
<1>3. DOMAIN Rows = 1 .. n
      /\ \A i \in 1 .. n :
           /\ Rows[i].change = Reports[i].kind
           /\ Rows[i].segment_unit_offset =
                IF HasOffset(Reports[i].kind) THEN Reports[i].segment_offset ELSE None
  BY <1>2
<1>4. Len(Rows) = n
  <2> DEFINE list == Rows
  <2>1. list = [i \in 1 .. n |-> list[i]]
    BY <1>2
  <2> HIDE DEF list
  <2>2. Len(list) = n
    BY <1>1, <2>1, ListOfFunction
  <2> QED
    BY <2>2 DEF list
<1> QED
  BY <1>1, <1>3, <1>4

(* What a row says of its pair.                                               *)
RowIsExact(p, c, report, offset) ==
  LET common == Len(LongestCommonPrefix({Prefix(p), Prefix(c)}))
      before == CASE report.kind = "tools_changed"    -> 0
                  [] report.kind = "system_changed"   -> Len(ToolsUnits(c))
                  [] report.kind = "messages_changed" -> Len(ToolsUnits(c)) + Len(SystemUnits(c))
  IN CASE OnlyAppended(p, c)               -> report.kind = "none"
       [] p.model # c.model                -> report.kind = "model_changed"
       [] p.model = c.model
          /\ p.tool_choice # c.tool_choice -> report.kind = "tool_choice_changed"
       [] OTHER ->
            /\ report.kind = IF p.tools # c.tools THEN "tools_changed"
                             ELSE IF SystemText(p) # SystemText(c) THEN "system_changed"
                             ELSE "messages_changed"
            /\ offset = common - before
            /\ report.cache_missed_units = Len(Prefix(c)) - common

(* A row says what the comparison found.                                      *)
LEMMA RowsAreExact ==
  ASSUME NEW p, NEW c, WellShaped(p), WellShaped(c),
         <<EphemeralKey, p.tool_choice>> # None, <<EphemeralKey, c.tool_choice>> # None,
         NEW report, NEW offset,
         report = Compare(FingerprintRequest(p, EphemeralKey), FingerprintRequest(c, EphemeralKey)),
         offset = IF HasOffset(report.kind) THEN report.segment_offset ELSE None
  PROVE  RowIsExact(p, c, report, offset)
<1> DEFINE common == Len(LongestCommonPrefix({Prefix(p), Prefix(c)}))
           segment == IF p.tools # c.tools THEN "tools"
                      ELSE IF SystemText(p) # SystemText(c) THEN "system" ELSE "messages"
           before == CASE report.kind = "tools_changed"    -> 0
                       [] report.kind = "system_changed"   -> Len(ToolsUnits(c))
                       [] report.kind = "messages_changed" -> Len(ToolsUnits(c)) + Len(SystemUnits(c))
           missed == Len(Prefix(c)) - common
<1>1. /\ report.kind = "none" <=> OnlyAppended(p, c)
      /\ report.kind = "model_changed" <=> p.model # c.model
      /\ report.kind = "tool_choice_changed" <=> p.model = c.model /\ p.tool_choice # c.tool_choice
      /\ SameControls(p, c) /\ ~OnlyAppended(p, c) =>
           \E k \in 1 .. 3 :
             /\ report.kind = KindForSegment[SEGMENT_ORDER[k]]
             /\ SEGMENT_ORDER[k] = segment
             /\ report.segment_offset = common - Before(c, k)
             /\ report.cache_missed_units = missed
             /\ common \in Nat
  <2>1. FindsTheChange(p, c, report)
    BY CompareIsExact
  <2> QED
    BY <2>1 DEF FindsTheChange
<1> HIDE DEF common, missed
<1>2. ASSUME SameControls(p, c), ~OnlyAppended(p, c)
      PROVE  /\ report.kind = IF p.tools # c.tools THEN "tools_changed"
                              ELSE IF SystemText(p) # SystemText(c) THEN "system_changed"
                              ELSE "messages_changed"
             /\ offset = common - before
             /\ report.cache_missed_units = missed
  <2>1. PICK k \in 1 .. 3 : /\ report.kind = KindForSegment[SEGMENT_ORDER[k]]
                            /\ SEGMENT_ORDER[k] = segment
                            /\ report.segment_offset = common - Before(c, k)
                            /\ report.cache_missed_units = missed
    BY <1>1, <1>2
  <2>2. report.kind = KindForSegment[segment]
    BY <2>1
  <2>3. report.kind = IF p.tools # c.tools THEN "tools_changed"
                      ELSE IF SystemText(p) # SystemText(c) THEN "system_changed"
                      ELSE "messages_changed"
    BY <2>2 DEF KindForSegment
  <2>4. HasOffset(report.kind)
    BY <2>3 DEF HasOffset
  <2>5. before = Before(c, k)
    <3>1. CASE k = 1
      <4>1. report.kind = "tools_changed"
        BY <2>1, <3>1, Order DEF KindForSegment
      <4> QED
        BY <3>1, <4>1 DEF Before
    <3>2. CASE k = 2
      <4>1. report.kind = "system_changed"
        BY <2>1, <3>2, Order DEF KindForSegment
      <4> QED
        BY <3>2, <4>1 DEF Before
    <3>3. CASE k = 3
      <4>1. report.kind = "messages_changed"
        BY <2>1, <3>3, Order DEF KindForSegment
      <4> QED
        BY <3>3, <4>1 DEF Before
    <3> HIDE DEF before
    <3> QED
      BY <3>1, <3>2, <3>3
  <2> QED
    BY <2>1, <2>3, <2>4, <2>5
<1> HIDE DEF before, segment
<1>3. OnlyAppended(p, c) => SameControls(p, c)
  BY DEF OnlyAppended, SameControls
<1>4. SameControls(p, c) <=> p.model = c.model /\ p.tool_choice = c.tool_choice
  BY DEF SameControls
<1> DEFINE exact == /\ report.kind = IF p.tools # c.tools THEN "tools_changed"
                                     ELSE IF SystemText(p) # SystemText(c) THEN "system_changed"
                                     ELSE "messages_changed"
                    /\ offset = common - before
                    /\ report.cache_missed_units = missed
<1>5. SameControls(p, c) /\ ~OnlyAppended(p, c) => exact
  BY <1>2
<1> HIDE DEF exact
<1>6. (CASE OnlyAppended(p, c)               -> report.kind = "none"
         [] p.model # c.model                -> report.kind = "model_changed"
         [] p.model = c.model
            /\ p.tool_choice # c.tool_choice -> report.kind = "tool_choice_changed"
         [] OTHER                            -> exact)
  BY <1>1, <1>3, <1>4, <1>5
<1> QED
  BY <1>6 DEF RowIsExact, common, before, missed, exact

(* What the report rests on: the loop, the calls it captured, the file, and   *)
(* the shape of what is compared.                                             *)
AnalysisInv == LoopInv /\ CapturedLists /\ CapturedShaped /\ TraceShaped /\ file \in Seq(Lines)

(* They hold of every behaviour of the three programs.                        *)
LEMMA AnalysisInvHolds == Spec => []AnalysisInv
<1>1. Init => AnalysisInv
  <2>1. Init => LoopInv
    BY LoopStarts
  <2>2. Init => CapturedLists /\ CapturedShaped
    <3>1. IsListOf(<<>>) /\ DOMAIN <<>> = {}
      BY DEF IsListOf
    <3> QED
      BY <3>1 DEF Init, ToolLoopInit, CapturedLists, CapturedShaped
  <2>3. Init => TraceShaped /\ file \in Seq(Lines)
    BY DEF Init, AnalysisInit, CommandLineInit, TraceShaped
  <2> QED
    BY <2>1, <2>2, <2>3 DEF AnalysisInv
<1>2. AnalysisInv /\ [Next]_vars => AnalysisInv'
  <2>1. ASSUME CapturedLists, CapturedShaped, UNCHANGED loopVars PROVE CapturedLists' /\ CapturedShaped'
    BY <2>1 DEF CapturedLists, CapturedShaped, loopVars
  <2> QED
    BY <2>1, LoopNext, CapturedListsKept, CapturedShapedKept, TraceShapedKept, FileWritten, LoopOrNot
    DEF AnalysisInv
<1> QED
  BY <1>1, <1>2, PTL DEF Spec

(* Whatever a program compares - a file, a scripted loop with its drift, the  *)
(* conversation with a local model - its report is exact: a row for each      *)
(* pair, nothing where messages were at most appended, and otherwise the      *)
(* first thing that differs, with the offset and the units missed of the      *)
(* longest common prefix (divergence.py:33-126, report.py:41-57).             *)
THEOREM ReportsAreExact == Spec => []ReportIsExact
<1>1. TraceShaped => ReportIsExact
  <2> SUFFICES ASSUME TraceShaped, trace # None
               PROVE  /\ Len(Rows) = (IF trace = <<>> THEN 0 ELSE Len(trace) - 1)
                      /\ \A i \in DOMAIN Rows :
                           RowIsExact(trace[i], trace[i + 1], Reports[i], Rows[i].segment_unit_offset)
                             /\ Reports[i].kind = Rows[i].change
    BY DEF ReportIsExact, RowIsExact
  <2>1. IsListOf(trace) /\ \A i \in DOMAIN trace : /\ WellShaped(trace[i])
                                                   /\ <<EphemeralKey, trace[i].tool_choice>> # None
    BY DEF TraceShaped, ToSet
  <2>2. ASSUME NEW i \in DOMAIN Rows
        PROVE  /\ RowIsExact(trace[i], trace[i + 1], Reports[i], Rows[i].segment_unit_offset)
               /\ Reports[i].kind = Rows[i].change
    <3>1. /\ i \in DOMAIN trace /\ i + 1 \in DOMAIN trace
          /\ Reports[i] = Compare(FingerprintRequest(trace[i], EphemeralKey),
                                  FingerprintRequest(trace[i + 1], EphemeralKey))
          /\ Rows[i].change = Reports[i].kind
          /\ Rows[i].segment_unit_offset =
               IF HasOffset(Reports[i].kind) THEN Reports[i].segment_offset ELSE None
      BY <2>1, RowsAre DEF PairReport
    <3> QED
      BY <2>1, <3>1, RowsAreExact
  <2> QED
    BY <2>1, <2>2, RowsAre
<1>2. AnalysisInv => TraceShaped
  BY DEF AnalysisInv
<1> QED
  BY <1>1, <1>2, AnalysisInvHolds, PTL

(* A pair counts as changed exactly if something changed but that messages    *)
(* were appended.                                                             *)
LEMMA ChangesCounted ==
  ASSUME NEW requests, IsListOf(requests),
         \A r \in ToSet(requests) : WellShaped(r) /\ <<EphemeralKey, r.tool_choice>> # None
  PROVE  ChangedPairCount(requests) > 0 <=>
           \E i \in 2 .. Len(requests) : ~OnlyAppended(requests[i - 1], requests[i])
<1> DEFINE n == IF requests = <<>> THEN 0 ELSE Len(requests) - 1
           reports == ReportsOf(requests)
           changed == {i \in DOMAIN reports : reports[i].kind # "none"}
<1>1. /\ n \in Nat /\ DOMAIN reports = 1 .. n
      /\ \A i \in 1 .. n : /\ i \in DOMAIN requests /\ i + 1 \in DOMAIN requests
                           /\ reports[i] = PairReport(requests, i)
  BY ReportsAre
<1>2. Len(requests) \in Nat /\ (requests = <<>> <=> Len(requests) = 0)
  BY Lists DEF IsListOf
<1>3. \A i \in DOMAIN requests : /\ WellShaped(requests[i])
                                 /\ <<EphemeralKey, requests[i].tool_choice>> # None
  BY DEF ToSet
<1> HIDE DEF reports
<1>4. \A i \in 1 .. n : i \in changed <=> ~OnlyAppended(requests[i], requests[i + 1])
  <2> SUFFICES ASSUME NEW i \in 1 .. n
               PROVE  i \in changed <=> ~OnlyAppended(requests[i], requests[i + 1])
    OBVIOUS
  <2> DEFINE p == requests[i]
             c == requests[i + 1]
             report == reports[i]
  <2>1. /\ WellShaped(p) /\ WellShaped(c) /\ report = PairReport(requests, i)
        /\ <<EphemeralKey, p.tool_choice>> # None /\ <<EphemeralKey, c.tool_choice>> # None
    BY <1>1, <1>3
  <2>2. FindsTheChange(p, c, report)
    BY <2>1, CompareIsExact DEF PairReport
  <2>3. report.kind = "none" <=> OnlyAppended(p, c)
    BY <2>2 DEF FindsTheChange
  <2> QED
    BY <1>1, <2>3
<1>5. ChangedPairCount(requests) = Cardinality(changed)
  BY DEF ChangedPairCount, ChangedPairs, reports
<1>6. IsFiniteSet(1 .. n)
  BY <1>1, FS_Interval
<1>7. changed \subseteq 1 .. n
  BY <1>1
<1> HIDE DEF changed
<1>8. Cardinality(changed) > 0 <=> changed # {}
  <2>1. IsFiniteSet(changed)
    BY <1>6, <1>7, FS_Subset
  <2>2. Cardinality(changed) \in Nat /\ (Cardinality(changed) = 0 <=> changed = {})
    BY <2>1, FS_CardinalityType, FS_EmptySet
  <2> QED
    BY <2>2
<1>9. \A i \in 1 .. n : i + 1 \in 2 .. Len(requests) /\ (i + 1) - 1 = i
  BY <1>2
<1>10. \A i \in 2 .. Len(requests) : i - 1 \in 1 .. n /\ (i - 1) + 1 = i
  BY <1>2
<1> HIDE DEF n
<1>11. ASSUME changed # {}
       PROVE  \E i \in 2 .. Len(requests) : ~OnlyAppended(requests[i - 1], requests[i])
  <2>1. PICK i \in 1 .. n : ~OnlyAppended(requests[i], requests[i + 1])
    BY <1>4, <1>7, <1>11
  <2> QED
    BY <1>9, <2>1
<1>12. ASSUME NEW i \in 2 .. Len(requests), ~OnlyAppended(requests[i - 1], requests[i])
       PROVE  changed # {}
  BY <1>4, <1>10, <1>12
<1> QED
  BY <1>5, <1>8, <1>11, <1>12

(* The command line, up to its exit code.                                     *)
FileExit ==
  route = "file" => /\ exit = None => trace = None /\ stopped = None
                    /\ ExitFitsFile

(* Before the exit code there is nothing to fit.                              *)
LEMMA NoExitYet ==
  ASSUME exit = None, trace = None, stopped = None
  PROVE  ExitFitsFile
BY NoneAssumption DEF NoneAssumption, ExitFitsFile

(* The exit code is given out once, and fits what was read.                   *)
LEMMA FileExitKept ==
  ASSUME FileExit, file \in Seq(Lines), [Next]_vars
  PROVE  FileExit'
<1> SUFFICES ASSUME route = "file", route' = "file"
             PROVE  (exit' = None => trace' = None /\ stopped' = None) /\ ExitFitsFile'
  <2>1. route' = route
    BY LoopOrExit
  <2> QED
    BY <2>1 DEF FileExit
<1>1. CommandLineNext \/ UNCHANGED <<cliVars, trace>>
  BY DEF Next, vars, ByFile, ByScript, Main, Around
<1>2. (exit = None => trace = None /\ stopped = None) /\ ExitFitsFile
  BY DEF FileExit
<1>3. None \notin Nat
  BY NoneAssumption DEF NoneAssumption
<1>4. CASE UNCHANGED <<cliVars, trace>>
  BY <1>2, <1>4 DEF ExitFitsFile, cliVars
<1>5. CASE \E line \in Lines : Write(line)
  <2>1. exit' = None /\ trace' = None /\ stopped' = None
    BY <1>2, <1>5 DEF Write
  <2> QED
    BY <1>3, <2>1 DEF ExitFitsFile
<1>6. ASSUME exit' = 2, trace' = None, stopped' = None
      PROVE  (exit' = None => trace' = None /\ stopped' = None) /\ ExitFitsFile'
  BY <1>3, <1>6 DEF ExitFitsFile
<1>7. CASE InputRefused \/ AnalysisRefused
  BY <1>2, <1>6, <1>7 DEF InputRefused, AnalysisRefused
<1>8. CASE LineRefused
  <2>1. /\ exit' = 2 /\ trace' = None /\ file' = file
        /\ "line" \in DOMAIN ParseStrictJsonl(file) /\ stopped' = ParseStrictJsonl(file).line
    BY <1>2, <1>8 DEF LineRefused
  <2>2. PICK bad \in SUBSET LinesOf(file) :
          /\ bad # {} /\ stopped' = Min(bad)
          /\ \A i \in LinesOf(file) : ~Accepts(file[i]) => i \in bad
    BY <2>1, Parsed
  <2>3. LinesOf(file) \subseteq Nat
    BY DEF LinesOf
  <2>4. Min(bad) \in Nat /\ \A i \in bad : Min(bad) =< i
    BY <2>2, <2>3, MinOfNats
  <2>5. \A i \in LinesOf(file) : i < stopped' => Accepts(file[i])
    <3> DEFINE least == Min(bad)
    <3> HIDE DEF least
    <3>1. least \in Nat /\ stopped' = least /\ \A i \in bad : least =< i
      BY <2>2, <2>4 DEF least
    <3>2. \A i \in LinesOf(file) : i < least => i \notin bad
      BY <2>3, <3>1
    <3> QED
      BY <2>2, <3>1, <3>2
  <2> QED
    BY <1>3, <2>1, <2>5 DEF ExitFitsFile
<1>9. CASE Reported
  <2> DEFINE requests == Requests(file)
             changed == \E i \in 2 .. Len(requests) : ~OnlyAppended(requests[i - 1], requests[i])
             count == ChangedPairCount(requests)
  <2>1. "requests" \in DOMAIN ParseStrictJsonl(file)
    BY <1>9 DEF Reported
  <2>2. ParseStrictJsonl(file).requests = requests /\ \A i \in LinesOf(file) : Accepts(file[i])
    BY <2>1, Parsed
  <2>3. /\ trace' = requests /\ exit' = ExitCode(Len(requests), count)
        /\ UNCHANGED <<file, fail_on_change, stopped>> /\ stopped = None
    BY <1>2, <1>9, <2>2 DEF Reported, Analyze
  <2>4. /\ IsListOf(requests) /\ requests # None
        /\ \A r \in ToSet(requests) : WellShaped(r) /\ <<EphemeralKey, r.tool_choice>> # None
    BY <2>2, FileIsTrace
  <2>5. Len(requests) \in Nat
    BY <2>4, Lists
  <2>6. count > 0 <=> changed
    BY <2>4, ChangesCounted
  <2>7. exit' = IF Len(requests) < 2 THEN 3 ELSE IF fail_on_change /\ count > 0 THEN 1 ELSE 0
    BY <2>3 DEF ExitCode
  <2>8. requests' = requests /\ changed' = changed
    BY <2>3
  <2> HIDE DEF requests, changed, count
  <2>9. /\ exit' = 0 => Len(requests) >= 2 /\ ~(fail_on_change /\ changed)
        /\ exit' = 1 => fail_on_change /\ changed
        /\ exit' = 3 => Len(requests) < 2
        /\ exit' # 2 /\ exit' # None
    BY <1>3, <2>5, <2>6, <2>7
  <2>10. stopped' = None /\ trace' # None /\ file' = file /\ fail_on_change' = fail_on_change
    BY <2>3, <2>4
  <2>11. ExitFitsFile' <=>
           /\ exit' \in {0, 1, 3} => \A i \in LinesOf(file') : Accepts(file'[i])
           /\ exit' = 0 => Len(requests') >= 2 /\ ~(fail_on_change' /\ changed')
           /\ exit' = 1 => fail_on_change' /\ changed'
           /\ exit' = 3 => Len(requests') < 2
           /\ exit' = 2 <=> exit' # None /\ trace' = None
           /\ stopped' # None => \A i \in LinesOf(file') : i < stopped' => Accepts(file'[i])
    BY DEF ExitFitsFile, requests, changed
  <2> QED
    BY <2>2, <2>8, <2>9, <2>10, <2>11
<1> QED
  BY <1>1, <1>4, <1>5, <1>7, <1>8, <1>9 DEF CommandLineNext

(* The exit code of each program is earned, for every file, option, session   *)
(* and answer: with --fail-on-change a 0 of the command line says that two    *)
(* requests or more were compared and none was anything but its predecessor   *)
(* with messages appended, a 1 that some was; a 2 comes without a report and  *)
(* names the first line refused; and a 0 of the local pilot says that its     *)
(* conversation came to its end (cli.py:55-65, local_run.py:27-39, 107-111).  *)
THEOREM ExitsAreEarned == Spec => []ExitIsEarned
<1>1. Init => FileExit
  BY NoExitYet DEF Init, CommandLineInit, AnalysisInit, FileExit
<1>2. AnalysisInv /\ FileExit /\ [Next]_vars => FileExit'
  BY FileExitKept DEF AnalysisInv
<1>3. FileExit /\ LocalExitIsEarned => ExitIsEarned
  BY DEF FileExit, ExitIsEarned
<1> QED
  BY <1>1, <1>2, <1>3, AnalysisInvHolds, SuccessIsEarned, PTL DEF Spec

-----------------------------------------------------------------------------
(* The history of the captured calls, and what the report tells of it         *)

(* The text of the system message the demo edits in.                          *)
DriftedText == session.system.str \o <<"drift">>

(* A captured call is of the session, and its messages are a beginning of its *)
(* list, which went on since; the demo may have edited the first of them.     *)
HasBeginning(call, i) ==
  /\ {"model", "tools", "extra", "messages", "list"} \subseteq DOMAIN call
  /\ call.model = session.model /\ call.tools = session.tools /\ call.extra = session.extra
  /\ call.list \in DOMAIN lists
  /\ Len(call.messages) \in 2 .. Len(lists[call.list]) - 1
  /\ \A k \in 2 .. Len(call.messages) : call.messages[k] = lists[call.list][k]
  /\ IF i = drifted THEN call.messages[1].obj.content.str = DriftedText
     ELSE call.messages[1] = Opening(session)[1]

(* The first call of a list has its opening, each later one more than the one *)
(* before it.                                                                 *)
GrowsFrom(i) ==
  IF i = 1 \/ captured[i - 1].list # captured[i].list THEN Len(captured[i].messages) = 2
  ELSE Len(captured[i].messages) > Len(captured[i - 1].messages)

(* Every list has its opening, and no more before its first call.             *)
ListsOpened ==
  /\ \A l \in DOMAIN lists :
       /\ Len(lists[l]) >= 2
       /\ lists[l][1] = Opening(session)[1] /\ lists[l][2] = Opening(session)[2]
  /\ lists # <<>> /\ (captured = <<>> \/ captured[Len(captured)].list # Len(lists)) =>
       Len(Current) = 2 /\ place # "routing"

(* The demo edits when its loops are over.                                    *)
DriftIsLast ==
  drifted # 0 => /\ drifted = 2 /\ 2 \in DOMAIN captured
                 /\ place \notin {"calling", "routing"} /\ Is("str", session.system)

(* What is analysed are the captured calls.                                   *)
TraceOfCalls ==
  /\ route = "file" => place = "idle"
  /\ place = "analysed" =>
       /\ trace = [i \in DOMAIN captured |-> BridgedRequest(captured[i], i - 1)]
       /\ \A i \in DOMAIN captured : Bridges(captured[i])

(* Which part of which list each captured call has.                           *)
HistoryInv ==
  /\ ListsOpened /\ DriftIsLast /\ TraceOfCalls
  /\ \A i \in DOMAIN captured : HasBeginning(captured[i], i) /\ GrowsFrom(i)

(* A message appended to the current list takes nothing from a captured call, *)
(* nor from an opening.                                                       *)
LEMMA ExtensionKeeps ==
  ASSUME LoopInv, lists # <<>>, NEW m \in MessageSet, lists' = Extended(m),
         session' = session, drifted' = drifted,
         \A l \in DOMAIN lists :
           /\ Len(lists[l]) >= 2
           /\ lists[l][1] = Opening(session)[1] /\ lists[l][2] = Opening(session)[2]
  PROVE  /\ \A l \in DOMAIN lists' :
              /\ Len(lists'[l]) >= 2
              /\ lists'[l][1] = Opening(session')[1] /\ lists'[l][2] = Opening(session')[2]
         /\ \A call, i : HasBeginning(call, i) => HasBeginning(call, i)'
         /\ Len(lists') = Len(lists) /\ Len(lists) \in DOMAIN lists
         /\ Len(Current) \in Nat /\ Len(lists'[Len(lists)]) = Len(Current) + 1
         /\ \A k \in 1 .. Len(Current) : lists'[Len(lists)][k] = Current[k]
         /\ Current = lists[Len(lists)] /\ DOMAIN lists' = DOMAIN lists
<1>1. /\ lists \in Seq(Seq(MessageSet)) /\ Current \in Seq(MessageSet)
      /\ DOMAIN lists' = DOMAIN lists /\ Len(lists) \in DOMAIN lists
      /\ \A l \in DOMAIN lists \ {Len(lists)} : lists'[l] = lists[l]
      /\ lists'[Len(lists)] = Append(Current, m)
      /\ Len(lists') = Len(lists) /\ Current = lists[Len(lists)]
  <2>1. lists \in Seq(Seq(MessageSet))
    BY DEF LoopInv, LoopTypes
  <2>2. Len(lists') = Len(lists)
    BY <2>1 DEF Extended
  <2> QED
    BY <2>1, <2>2, ExtendedLists DEF Current
<1>2. /\ Len(Current) \in Nat /\ Len(Append(Current, m)) = Len(Current) + 1
      /\ \A k \in 1 .. Len(Current) : Append(Current, m)[k] = Current[k]
  BY <1>1
<1>3. ASSUME NEW l \in DOMAIN lists
      PROVE  /\ Len(lists[l]) \in Nat /\ Len(lists'[l]) \in Nat /\ Len(lists'[l]) >= Len(lists[l])
             /\ \A k \in 1 .. Len(lists[l]) : lists'[l][k] = lists[l][k]
  <2>1. CASE l = Len(lists)
    <3>1. lists[l] = Current /\ lists'[l] = Append(Current, m)
      BY <1>1, <2>1
    <3> QED
      BY <1>2, <3>1
  <2>2. CASE l # Len(lists)
    <3>1. lists'[l] = lists[l] /\ lists[l] \in Seq(MessageSet)
      BY <1>1, <2>2
    <3> QED
      BY <3>1
  <2> QED
    BY <2>1, <2>2
<1>4. ASSUME NEW l \in DOMAIN lists'
      PROVE  /\ Len(lists'[l]) >= 2
             /\ lists'[l][1] = Opening(session')[1] /\ lists'[l][2] = Opening(session')[2]
  <2>1. l \in DOMAIN lists
    BY <1>1
  <2>2. Len(lists[l]) >= 2 /\ lists[l][1] = Opening(session)[1] /\ lists[l][2] = Opening(session)[2]
    BY <2>1
  <2>3. 1 \in 1 .. Len(lists[l]) /\ 2 \in 1 .. Len(lists[l])
    BY <1>3, <2>1, <2>2
  <2>4. Len(lists'[l]) >= 2
    BY <1>3, <2>1, <2>2
  <2>5. lists'[l][1] = lists[l][1] /\ lists'[l][2] = lists[l][2]
    BY <1>3, <2>1, <2>3
  <2> QED
    BY <2>2, <2>4, <2>5
<1>5. ASSUME NEW call, NEW i, HasBeginning(call, i) PROVE HasBeginning(call, i)'
  <2> DEFINE l == call.list
             n == Len(call.messages)
  <2>1. l \in DOMAIN lists /\ n \in 2 .. Len(lists[l]) - 1
        /\ \A k \in 2 .. n : call.messages[k] = lists[l][k]
    BY <1>5 DEF HasBeginning
  <2> HIDE DEF l, n
  <2>2. n \in 2 .. Len(lists'[l]) - 1
    BY <1>3, <2>1
  <2>3. \A k \in 2 .. n : call.messages[k] = lists'[l][k]
    <3>1. \A k \in 2 .. n : k \in 1 .. Len(lists[l])
      BY <1>3, <2>1
    <3> QED
      BY <1>3, <2>1, <3>1
  <2>4. l \in DOMAIN lists'
    BY <1>1, <2>1
  <2> QED
    BY <1>5, <2>2, <2>3, <2>4 DEF HasBeginning, DriftedText, l, n
<1> QED
  BY <1>1, <1>2, <1>4, <1>5

(* A step that leaves the lists and the calls alone.                          *)
LEMMA HistoryStays ==
  ASSUME HistoryInv, UNCHANGED <<session, lists, captured, drifted>>,
         place' = place \/ place' \notin {"calling", "routing"}, TraceOfCalls'
  PROVE  HistoryInv'
<1>1. ListsOpened'
  BY DEF HistoryInv, ListsOpened, Current
<1>2. DriftIsLast'
  BY DEF HistoryInv, DriftIsLast
<1>3. ASSUME NEW i \in DOMAIN captured' PROVE HasBeginning(captured'[i], i) /\ GrowsFrom(i)'
  <2>1. HasBeginning(captured[i], i) /\ GrowsFrom(i) /\ captured' = captured /\ drifted' = drifted
    BY DEF HistoryInv
  <2> QED
    BY <2>1 DEF GrowsFrom
<1>4. ASSUME NEW call, NEW i, HasBeginning(call, i) PROVE HasBeginning(call, i)'
  BY <1>4 DEF HasBeginning, DriftedText
<1> QED
  BY <1>1, <1>2, <1>3, <1>4 DEF HistoryInv

(* Of the drift, the calls and the lists are as before, but the one message.  *)
LEMMA DriftKeepsHistory ==
  ASSUME LoopInv, CapturedLists, HistoryInv, Drift, route # "file", UNCHANGED route
  PROVE  HistoryInv'
<1> DEFINE messages == captured[2].messages
           m == messages[1]
           first == [m EXCEPT !.obj.content.str = m.obj.content.str \o <<"drift">>]
           changed == [messages EXCEPT ![1] = first]
           edited == [captured[2] EXCEPT !.messages = changed]
<1>1. /\ captured' = [captured EXCEPT ![2] = edited] /\ lists' = lists /\ session' = session
      /\ drifted' = 2 /\ drifted = 0 /\ place = "idle" /\ place' = place
      /\ Is("str", session.system) /\ Len(captured) >= 2
  BY DEF Drift
<1>2. /\ 2 \in DOMAIN captured /\ IsListOf(captured)
      /\ Len(captured) \in Nat /\ DOMAIN captured = 1 .. Len(captured)
  <2>1. IsListOf(captured) /\ Len(captured) \in Nat /\ DOMAIN captured = 1 .. Len(captured)
    BY ListsAreLists DEF CapturedLists
  <2>2. Len(captured) >= 2
    BY <1>1
  <2>3. 2 \in 1 .. Len(captured)
    BY <2>1, <2>2
  <2> QED
    BY <2>1, <2>3
<1>3. HasBeginning(captured[2], 2)
  BY <1>2 DEF HistoryInv
<1>4. m = Opening(session)[1] /\ IsListOf(messages) /\ messages # <<>> /\ Len(messages) \in Nat
      /\ DOMAIN messages = 1 .. Len(messages) /\ 1 \in DOMAIN messages
  <2> DEFINE ms == messages
  <2>1. IsListOf(ms) /\ ms # <<>>
    BY <1>2 DEF CapturedLists
  <2>2. Len(ms) \in Nat /\ Len(ms) >= 2
    BY <1>3 DEF HasBeginning
  <2>3. ms[1] = Opening(session)[1]
    <3>1. 2 # drifted
      <4>1. drifted = 0
        BY DEF Drift
      <4> QED
        BY <4>1
    <3>2. captured[2].messages[1] = Opening(session)[1]
      BY <1>3, <3>1 DEF HasBeginning
    <3> QED
      BY <3>2
  <2> HIDE DEF ms
  <2>4. DOMAIN ms = 1 .. Len(ms) /\ 1 \in DOMAIN ms
    BY <2>1, <2>2, ListsAreLists
  <2> QED
    BY <2>1, <2>2, <2>3, <2>4 DEF ms
<1>5. first.obj.content.str = DriftedText
  <2> DEFINE text == DriftedText
  <2> HIDE DEF text
  <2>1. m = Obj([role |-> Str(<<"system">>), content |-> session.system])
    BY <1>4 DEF Opening
  <2>2. "str" \in DOMAIN session.system
    BY <1>1 DEF Is
  <2>3. "obj" \in DOMAIN m /\ "content" \in DOMAIN m.obj /\ m.obj.content = session.system
    BY <2>1 DEF Obj
  <2>4. m.obj.content.str \o <<"drift">> = text
    BY <2>3 DEF text, DriftedText
  <2> HIDE DEF m
  <2>5. first = [m EXCEPT !.obj.content.str = text]
    BY <2>4
  <2>6. first.obj = [m.obj EXCEPT !.content.str = text]
    BY <2>3, <2>5
  <2>7. first.obj.content = [session.system EXCEPT !.str = text]
    BY <2>3, <2>6
  <2>8. first.obj.content.str = text
    BY <2>2, <2>7
  <2> QED
    BY <2>8 DEF text
<1> HIDE DEF first
<1>6. /\ changed[1] = first /\ Len(changed) = Len(messages)
      /\ \A k \in 2 .. Len(messages) : changed[k] = messages[k]
  <2> DEFINE ms == messages
  <2>1. IsListOf(ms) /\ 1 \in DOMAIN ms /\ DOMAIN ms = 1 .. Len(ms) /\ Len(ms) \in Nat
        /\ changed = [ms EXCEPT ![1] = first]
    BY <1>4
  <2> HIDE DEF ms, changed
  <2>2. /\ IsListOf(changed) /\ DOMAIN changed = DOMAIN ms /\ changed[1] = first
        /\ \A j \in DOMAIN ms : j # 1 => changed[j] = ms[j]
    BY <2>1, ListExcept
  <2>3. Len(changed) \in Nat /\ DOMAIN changed = 1 .. Len(changed)
    BY <2>2, ListsAreLists
  <2>4. Len(changed) = Len(ms)
    BY <2>1, <2>2, <2>3
  <2>5. \A k \in 2 .. Len(ms) : k \in DOMAIN ms /\ k # 1
    BY <2>1
  <2> QED
    BY <2>2, <2>4, <2>5 DEF ms
<1> HIDE DEF changed
<1>7. /\ edited.messages = changed /\ edited.list = captured[2].list
      /\ edited.model = captured[2].model /\ edited.tools = captured[2].tools
      /\ edited.extra = captured[2].extra /\ DOMAIN edited = DOMAIN captured[2]
  BY <1>3 DEF HasBeginning
<1> HIDE DEF edited
<1>8. ASSUME NEW call, call = edited PROVE HasBeginning(call, 2)'
  <2>1. /\ {"model", "tools", "extra", "messages", "list"} \subseteq DOMAIN edited
        /\ edited.model = session.model /\ edited.tools = session.tools
        /\ edited.extra = session.extra /\ edited.list \in DOMAIN lists
        /\ Len(edited.messages) \in 2 .. Len(lists[edited.list]) - 1
    BY <1>3, <1>6, <1>7 DEF HasBeginning
  <2>2. \A k \in 2 .. Len(edited.messages) : edited.messages[k] = lists[edited.list][k]
    BY <1>3, <1>6, <1>7 DEF HasBeginning
  <2>3. edited.messages[1].obj.content.str = DriftedText
    BY <1>5, <1>6, <1>7
  <2>4. DriftedText' = DriftedText
    BY <1>1 DEF DriftedText
  <2> QED
    BY <1>1, <1>8, <2>1, <2>2, <2>3, <2>4 DEF HasBeginning
<1>9. /\ DOMAIN captured' = DOMAIN captured /\ captured'[2] = edited /\ IsListOf(captured')
      /\ \A j \in DOMAIN captured : j # 2 => captured'[j] = captured[j]
  BY <1>1, <1>2, ListExcept
<1>10. \A j \in DOMAIN captured : /\ captured'[j].list = captured[j].list
                                  /\ Len(captured'[j].messages) = Len(captured[j].messages)
  BY <1>6, <1>7, <1>9
<1>11. ASSUME NEW i \in DOMAIN captured, i # 2, NEW call, HasBeginning(call, i)
       PROVE  HasBeginning(call, i)'
  <2>1. i # drifted /\ i # drifted'
    BY <1>1, <1>2, <1>11
  <2> QED
    BY <1>1, <1>11, <2>1 DEF HasBeginning, DriftedText
<1>12. ASSUME NEW i \in DOMAIN captured' PROVE HasBeginning(captured[i], i)'
  <2>1. CASE i = 2
    BY <1>8, <1>9, <2>1
  <2>2. CASE i # 2
    <3>1. captured'[i] = captured[i] /\ i \in DOMAIN captured
      BY <1>9, <2>2
    <3>2. HasBeginning(captured[i], i)
      BY <3>1 DEF HistoryInv
    <3> QED
      BY <1>11, <2>2, <3>1, <3>2
  <2> QED
    BY <2>1, <2>2
<1>13. Len(captured') = Len(captured)
  <2> DEFINE new == captured'
             old == captured
  <2>1. IsListOf(new) /\ IsListOf(old) /\ DOMAIN new = DOMAIN old
    BY <1>2, <1>9
  <2> HIDE DEF new, old
  <2>2. /\ Len(new) \in Nat /\ DOMAIN new = 1 .. Len(new)
        /\ Len(old) \in Nat /\ DOMAIN old = 1 .. Len(old)
    BY <2>1, ListsAreLists
  <2>3. 1 .. Len(new) = 1 .. Len(old)
    BY <2>1, <2>2
  <2>4. Len(new) = Len(old)
    <3>1. ASSUME NEW a \in Nat, NEW b \in Nat, 1 .. a = 1 .. b PROVE a = b
      <4>1. a = 0 \/ a \in 1 .. a
        OBVIOUS
      <4>2. b = 0 \/ b \in 1 .. b
        OBVIOUS
      <4> QED
        BY <3>1, <4>1, <4>2
    <3> QED
      BY <2>2, <2>3, <3>1
  <2> QED
    BY <2>4 DEF new, old
<1>14. ASSUME NEW i \in DOMAIN captured' PROVE GrowsFrom(i)'
  <2>1. i \in DOMAIN captured /\ GrowsFrom(i) /\ (i # 1 => i - 1 \in DOMAIN captured)
    BY <1>2, <1>9, <1>13 DEF HistoryInv
  <2> QED
    BY <1>10, <2>1 DEF GrowsFrom
<1>15. ListsOpened'
  <2>1. captured' # <<>> /\ Len(captured) \in DOMAIN captured /\ captured # <<>>
    BY <1>2, <1>9, <1>13
  <2>2. captured'[Len(captured')].list = captured[Len(captured)].list
    BY <1>10, <1>13, <2>1
  <2> QED
    BY <1>1, <2>1, <2>2 DEF HistoryInv, ListsOpened, Current
<1>16. DriftIsLast' /\ TraceOfCalls'
  BY <1>1, <1>2, <1>9 DEF DriftIsLast, TraceOfCalls
<1> QED
  BY <1>12, <1>14, <1>15, <1>16 DEF HistoryInv

(* A loop begins with its opening, over the calls of the loops before it.     *)
LEMMA StartKeepsHistory ==
  ASSUME LoopInv, CapturedLists, CapturedShaped, HistoryInv, StartLoop, route # "file", UNCHANGED route
  PROVE  HistoryInv'
<1>1. /\ lists' = Append(lists, Opening(session')) /\ session' \in Sessions
      /\ captured' = captured /\ drifted' = drifted /\ drifted = 0
      /\ place' = "calling" /\ lists \in Seq(Seq(MessageSet))
      /\ Opening(session') \in Seq(MessageSet)
  <2>1. session' \in Sessions
    BY DEF StartLoop, LoopInv, LoopTypes
  <2> QED
    BY <2>1, OpeningHasNoCalls DEF StartLoop, LoopInv, LoopTypes
<1>2. /\ Len(lists) \in Nat /\ DOMAIN lists = 1 .. Len(lists) /\ Len(lists') = Len(lists) + 1
      /\ DOMAIN lists' = 1 .. Len(lists) + 1
      /\ \A l \in DOMAIN lists : lists'[l] = lists[l]
      /\ lists'[Len(lists) + 1] = Opening(session')
  BY <1>1
<1>3. lists # <<>> => session' = session
  <2>1. lists # <<>> => session \in Sessions
    BY DEF CapturedShaped
  <2>2. \A s \in Sessions : s # None
    BY SessionsAssumption
  <2> QED
    BY <2>1, <2>2 DEF StartLoop
<1>4. Len(Opening(session')) = 2
  BY DEF Opening
<1>5. ListsOpened'
  <2>1. ASSUME NEW l \in DOMAIN lists'
        PROVE  /\ Len(lists'[l]) >= 2
               /\ lists'[l][1] = Opening(session')[1] /\ lists'[l][2] = Opening(session')[2]
    <3>1. CASE l = Len(lists) + 1
      BY <1>2, <1>4, <3>1
    <3>2. CASE l # Len(lists) + 1
      <4>1. l \in DOMAIN lists /\ lists'[l] = lists[l] /\ session' = session
        BY <1>1, <1>2, <1>3, <3>2
      <4> QED
        BY <4>1 DEF HistoryInv, ListsOpened
    <3> QED
      BY <3>1, <3>2
  <2>2. Len(Current') = 2 /\ place' # "routing"
    BY <1>1, <1>2, <1>4 DEF Current
  <2> QED
    BY <2>1, <2>2 DEF ListsOpened
<1>6. ASSUME NEW i \in DOMAIN captured' PROVE HasBeginning(captured[i], i)' /\ GrowsFrom(i)'
  <2>1. i \in DOMAIN captured /\ HasBeginning(captured[i], i) /\ GrowsFrom(i)
    BY <1>1, <1>6 DEF HistoryInv
  <2>2. captured[i].list \in DOMAIN lists
    BY <2>1 DEF HasBeginning
  <2>3. session' = session
    BY <1>1, <1>3, <2>2
  <2>4. lists'[captured[i].list] = lists[captured[i].list] /\ captured[i].list \in DOMAIN lists'
    BY <1>2, <2>2
  <2>5. ASSUME NEW call, HasBeginning(call, i), call = captured[i] PROVE HasBeginning(call, i)'
    BY <1>1, <2>3, <2>4, <2>5 DEF HasBeginning, DriftedText
  <2> QED
    BY <1>1, <2>1, <2>5 DEF GrowsFrom
<1>7. DriftIsLast' /\ TraceOfCalls'
  BY <1>1 DEF DriftIsLast, TraceOfCalls
<1> QED
  BY <1>5, <1>6, <1>7 DEF HistoryInv

(* A call is captured with the whole of its list, of which the last captured  *)
(* call of the same list has less.                                            *)
LEMMA AnswerKeepsHistory ==
  ASSUME LoopInv, CapturedLists, HistoryInv, NEW reply \in Replies, Answer(reply),
         route # "file", UNCHANGED route
  PROVE  HistoryInv'
<1> DEFINE call == Call(reply)
           n == Len(captured)
           m == AssistantMessage(reply)
<1>1. /\ captured' = Append(captured, call) /\ lists' = Extended(m) /\ session' = session
      /\ drifted' = drifted /\ place = "calling" /\ lists # <<>>
      /\ m \in MessageSet /\ place' # "analysed"
  BY DEF Answer, MessageSet, LoopInv, LoopTypes
<1>2. drifted = 0
  BY <1>1 DEF HistoryInv, DriftIsLast
<1>3. \A l \in DOMAIN lists :
        /\ Len(lists[l]) >= 2
        /\ lists[l][1] = Opening(session)[1] /\ lists[l][2] = Opening(session)[2]
  BY DEF HistoryInv, ListsOpened
<1> HIDE DEF m
<1>4. /\ \A l \in DOMAIN lists' :
           /\ Len(lists'[l]) >= 2
           /\ lists'[l][1] = Opening(session')[1] /\ lists'[l][2] = Opening(session')[2]
      /\ \A c, i : HasBeginning(c, i) => HasBeginning(c, i)'
      /\ Len(lists') = Len(lists) /\ Len(lists) \in DOMAIN lists
      /\ Len(Current) \in Nat /\ Len(lists'[Len(lists)]) = Len(Current) + 1
      /\ \A k \in 1 .. Len(Current) : lists'[Len(lists)][k] = Current[k]
      /\ Current = lists[Len(lists)] /\ DOMAIN lists' = DOMAIN lists
  BY <1>1, <1>3, ExtensionKeeps
<1>5. /\ {"model", "tools", "extra", "messages", "list"} \subseteq DOMAIN call
      /\ call.model = session.model /\ call.tools = session.tools /\ call.extra = session.extra
      /\ call.messages = Current /\ call.list = Len(lists)
  BY DEF Call
<1> HIDE DEF call
<1>6. /\ n \in Nat /\ DOMAIN captured = 1 .. n /\ DOMAIN captured' = 1 .. n + 1
      /\ \A i \in 1 .. n : captured'[i] = captured[i]
      /\ captured'[n + 1] = call /\ Len(captured') = n + 1 /\ captured' # <<>>
      /\ (n # 0 => captured # <<>>)
  <2>1. IsListOf(captured)
    BY DEF CapturedLists
  <2>2. n \in Nat /\ DOMAIN captured = 1 .. n
    BY <2>1, ListsAreLists
  <2> QED
    BY <1>1, <2>1, <2>2, ListsAreLists
<1> HIDE DEF n
<1>7. ASSUME NEW i \in DOMAIN captured' PROVE HasBeginning(captured[i], i)'
  <2>1. CASE i = n + 1
    <3>1. ASSUME NEW c, c = call PROVE HasBeginning(c, i)'
      <4>1. Len(Current) >= 2 /\ Current[1] = Opening(session)[1]
        BY <1>3, <1>4
      <4>2. i # drifted'
        BY <1>1, <1>2, <1>6, <2>1
      <4>3. Len(Current) \in 2 .. Len(lists'[Len(lists)]) - 1
        BY <1>4, <4>1
      <4>4. \A k \in 2 .. Len(Current) : Current[k] = lists'[Len(lists)][k]
        BY <1>4
      <4>5. Current[1] = Opening(session')[1]
        BY <1>1, <4>1
      <4>6. Len(lists) \in DOMAIN lists'
        BY <1>4
      <4>7. /\ c.messages = Current /\ c.list = Len(lists)
            /\ {"model", "tools", "extra", "messages", "list"} \subseteq DOMAIN c
            /\ c.model = session'.model /\ c.tools = session'.tools /\ c.extra = session'.extra
        BY <1>1, <1>5, <3>1
      <4> QED
        BY <4>2, <4>3, <4>4, <4>5, <4>6, <4>7 DEF HasBeginning
    <3> QED
      BY <1>6, <2>1, <3>1
  <2>2. CASE i # n + 1
    <3>1. i \in DOMAIN captured /\ captured'[i] = captured[i]
      BY <1>6, <2>2
    <3>2. HasBeginning(captured[i], i)
      BY <3>1 DEF HistoryInv
    <3> QED
      BY <1>4, <3>1, <3>2
  <2> QED
    BY <2>1, <2>2
<1>8. ASSUME NEW i \in DOMAIN captured' PROVE GrowsFrom(i)'
  <2>1. CASE i = n + 1
    <3>1. CASE n = 0 \/ captured[n].list # Len(lists)
      <4>1. captured = <<>> \/ captured[n].list # Len(lists)
        BY <1>6, <3>1 DEF n, CapturedLists, IsListOf
      <4>2. Len(Current) = 2
        BY <1>1, <4>1 DEF HistoryInv, ListsOpened, n
      <4>3. captured'[i].list = Len(lists) /\ Len(captured'[i].messages) = 2
        BY <1>5, <1>6, <2>1, <4>2
      <4>4. i = 1 \/ captured'[i - 1].list # captured'[i].list
        BY <1>6, <2>1, <3>1, <4>3
      <4> QED
        BY <4>3, <4>4 DEF GrowsFrom
    <3>2. CASE n # 0 /\ captured[n].list = Len(lists)
      <4>1. n \in DOMAIN captured
        BY <1>6, <3>2
      <4>2. HasBeginning(captured[n], n)
        BY <4>1 DEF HistoryInv
      <4>3. Len(captured[n].messages) \in 2 .. Len(Current) - 1
        BY <1>4, <3>2, <4>2 DEF HasBeginning
      <4>4. /\ captured'[i].messages = Current /\ captured'[i - 1] = captured[n]
            /\ captured'[i].list = Len(lists) /\ i # 1
        BY <1>5, <1>6, <2>1, <3>2
      <4> QED
        BY <1>4, <3>2, <4>3, <4>4 DEF GrowsFrom
    <3> QED
      BY <3>1, <3>2
  <2>2. CASE i # n + 1
    <3>1. i \in 1 .. n /\ (i # 1 => i - 1 \in 1 .. n)
      BY <1>6, <2>2
    <3>2. GrowsFrom(i)
      BY <1>6, <3>1 DEF HistoryInv
    <3> QED
      BY <1>6, <3>1, <3>2 DEF GrowsFrom
  <2> QED
    BY <2>1, <2>2
<1>9. ListsOpened'
  <2>1. captured'[Len(captured')].list = Len(lists')
    BY <1>4, <1>5, <1>6
  <2> QED
    BY <1>4, <1>6, <2>1 DEF ListsOpened
<1>10. DriftIsLast' /\ TraceOfCalls'
  BY <1>1, <1>2 DEF DriftIsLast, TraceOfCalls
<1> QED
  BY <1>7, <1>8, <1>9, <1>10 DEF HistoryInv

(* A result goes to a list whose last call is captured.                       *)
LEMMA RouteKeepsHistory ==
  ASSUME LoopInv, HistoryInv, RouteCall, route # "file", UNCHANGED route
  PROVE  HistoryInv'
<1> DEFINE m == ResultOf(Head(pending))
<1>1. /\ captured' = captured /\ lists' = Extended(m) /\ session' = session
      /\ drifted' = drifted /\ place = "routing" /\ lists # <<>>
      /\ m \in MessageSet /\ place' # "analysed"
  <2>1. pending \in Seq(CallSet) /\ pending # <<>> /\ lists # <<>>
    BY DEF RouteCall, LoopInv, LoopTypes
  <2> QED
    BY <2>1 DEF RouteCall, MessageSet
<1>2. \A l \in DOMAIN lists :
        /\ Len(lists[l]) >= 2
        /\ lists[l][1] = Opening(session)[1] /\ lists[l][2] = Opening(session)[2]
  BY DEF HistoryInv, ListsOpened
<1> HIDE DEF m
<1>3. /\ \A l \in DOMAIN lists' :
           /\ Len(lists'[l]) >= 2
           /\ lists'[l][1] = Opening(session')[1] /\ lists'[l][2] = Opening(session')[2]
      /\ \A c, i : HasBeginning(c, i) => HasBeginning(c, i)'
      /\ Len(lists') = Len(lists)
  BY <1>1, <1>2, ExtensionKeeps
<1>4. captured # <<>> /\ captured[Len(captured)].list = Len(lists)
  BY <1>1 DEF HistoryInv, ListsOpened
<1>5. ListsOpened'
  BY <1>1, <1>3, <1>4 DEF ListsOpened
<1>6. DriftIsLast' /\ TraceOfCalls'
  BY <1>1 DEF HistoryInv, DriftIsLast, TraceOfCalls
<1>7. ASSUME NEW i \in DOMAIN captured' PROVE HasBeginning(captured[i], i)' /\ GrowsFrom(i)'
  <2>1. HasBeginning(captured[i], i) /\ GrowsFrom(i)
    BY <1>1 DEF HistoryInv
  <2> QED
    BY <1>1, <1>3, <2>1 DEF GrowsFrom
<1> QED
  BY <1>5, <1>6, <1>7 DEF HistoryInv

(* What is analysed is the requests of the captured calls, as they are.       *)
LEMMA AnalyzeKeepsHistory ==
  ASSUME HistoryInv, AnalyzeCaptured, route # "file", UNCHANGED route
  PROVE  HistoryInv'
<1> DEFINE calls == [i \in DOMAIN captured |->
                       [captured[i] EXCEPT !.messages = Snapshot(captured[i].list, @)]]
           requests == [i \in DOMAIN calls |-> BridgedRequest(calls[i], i - 1)]
<1>1. /\ UNCHANGED <<session, lists, captured, drifted>>
      /\ \/ place' = "refused"
         \/ place' = "analysed" /\ trace' = requests /\ \A i \in DOMAIN calls : Bridges(calls[i])
  BY DEF AnalyzeCaptured, Analyze
<1>2. /\ requests = [i \in DOMAIN captured |-> BridgedRequest(captured[i], i - 1)]
      /\ \A i \in DOMAIN captured : Bridges(calls[i]) <=> Bridges(captured[i])
      /\ DOMAIN calls = DOMAIN captured
  <2>1. ASSUME NEW i \in DOMAIN captured
        PROVE  /\ BridgedRequest(calls[i], i - 1) = BridgedRequest(captured[i], i - 1)
               /\ Bridges(calls[i]) <=> Bridges(captured[i])
    <3> DEFINE call == captured[i]
               copy == calls[i]
    <3>1. {"model", "tools", "extra", "messages"} \subseteq DOMAIN call
      BY DEF HistoryInv, HasBeginning
    <3>2. copy = [call EXCEPT !.messages = call.messages]
      BY DEF Snapshot
    <3> HIDE DEF call, copy
    <3>3. /\ copy.model = call.model /\ copy.tools = call.tools
          /\ copy.extra = call.extra /\ copy.messages = call.messages
      BY <3>1, <3>2
    <3>4. BridgedRequest(copy, i - 1) = BridgedRequest(call, i - 1)
      BY <3>3 DEF BridgedRequest
    <3>5. Bridges(copy) <=> Bridges(call)
      BY <3>3 DEF Bridges
    <3> QED
      BY <3>4, <3>5 DEF call, copy
  <2>2. DOMAIN calls = DOMAIN captured
    OBVIOUS
  <2> HIDE DEF calls
  <2> QED
    BY <2>1, <2>2
<1> HIDE DEF requests, calls
<1>3. TraceOfCalls'
  <2>1. captured' = captured /\ route' = route
    BY <1>1
  <2> QED
    BY <1>1, <1>2, <2>1 DEF TraceOfCalls
<1> QED
  BY <1>1, <1>3, HistoryStays

(* The other steps of the programs leave the conversation and its trace.      *)
LEMMA ConversationOrNot ==
  ASSUME [Next]_vars
  PROVE  /\ route' = route
         /\ \/ LoopStep /\ route # "file"
            \/ UNCHANGED <<loopVars, trace>>
            \/ UNCHANGED loopVars /\ route = "file"
<1>1. CASE ByFile
  BY <1>1 DEF ByFile
<1>2. CASE ByScript
  BY <1>2 DEF ByScript
<1>3. CASE Main
  BY <1>3 DEF Main, InferenceStep, LocalExit
<1>4. CASE Around
  BY <1>4 DEF Around
<1>5. CASE UNCHANGED vars
  BY <1>5 DEF vars
<1> QED
  BY <1>1, <1>2, <1>3, <1>4, <1>5 DEF Next

(* It is an invariant of the three programs.                                  *)
LEMMA HistoryHolds == Spec => []HistoryInv
<1>1. Init => HistoryInv
  BY DEF Init, ToolLoopInit, HistoryInv, ListsOpened, DriftIsLast, TraceOfCalls
<1>2. ASSUME AnalysisInv, HistoryInv, [Next]_vars PROVE HistoryInv'
  <2>1. LoopInv /\ CapturedLists /\ CapturedShaped
    BY <1>2 DEF AnalysisInv
  <2>2. CASE LoopStep /\ route # "file" /\ route' = route
    <3>1. CASE StartLoop
      BY <1>2, <2>1, <2>2, <3>1, StartKeepsHistory
    <3>2. CASE \E reply \in Replies : Answer(reply)
      BY <1>2, <2>1, <2>2, <3>2, AnswerKeepsHistory
    <3>3. CASE RouteCall
      BY <1>2, <2>1, <2>2, <3>3, RouteKeepsHistory
    <3>4. CASE Drift
      BY <1>2, <2>1, <2>2, <3>4, DriftKeepsHistory
    <3>5. CASE CreateRaises \/ CallFails \/ LoopEnds
      <4>1. /\ UNCHANGED <<session, lists, captured, drifted>>
            /\ place' \in {"idle", "raised"}
        BY <3>5 DEF CreateRaises, CallFails, LoopEnds
      <4>2. TraceOfCalls'
        BY <2>2, <4>1 DEF TraceOfCalls
      <4> QED
        BY <1>2, <4>1, <4>2, HistoryStays
    <3>6. CASE AnalyzeCaptured
      BY <1>2, <2>2, <3>6, AnalyzeKeepsHistory
    <3> QED
      BY <2>2, <3>1, <3>2, <3>3, <3>4, <3>5, <3>6 DEF LoopStep
  <2>3. CASE UNCHANGED loopVars /\ route' = route /\ (trace' = trace \/ route = "file")
    <3>1. UNCHANGED <<session, lists, captured, drifted, place>>
      BY <2>3 DEF loopVars
    <3>2. TraceOfCalls'
      BY <1>2, <2>3, <3>1 DEF HistoryInv, TraceOfCalls
    <3> QED
      BY <1>2, <3>1, <3>2, HistoryStays
  <2> QED
    BY <1>2, <2>2, <2>3, ConversationOrNot
<1> QED
  BY <1>1, <1>2, AnalysisInvHolds, PTL DEF Spec

(* The text of the demo is another than that of the session.                  *)
LEMMA DriftShows ==
  ASSUME NEW s \in Sessions, Is("str", s.system),
         NEW p, NEW c, p.system = s.system.str, c.system = s.system.str \o <<"drift">>
  PROVE  SystemText(p) # SystemText(c)
<1> DEFINE text == s.system.str
           words == ToSet(text) \cup {"drift"}
<1>1. IsListOf(text)
  BY SessionsAssumption, FieldLists
<1>2. None \notin Seq(words)
  BY SessionsAssumption
<1> HIDE DEF text
<1>3. text \in Seq(words) /\ text \o <<"drift">> \in Seq(words)
  <2>1. text \in Seq(words)
    BY <1>1, Lists
  <2>2. <<"drift">> \in Seq(words)
    OBVIOUS
  <2> HIDE DEF words
  <2> QED
    BY <2>1, <2>2
<1> HIDE DEF words
<1>4. text # text \o <<"drift">>
  <2>1. Len(text \o <<"drift">>) = Len(text) + 1 /\ Len(text) \in Nat
    BY <1>3
  <2> QED
    BY <2>1
<1>5. SystemText(p) = text /\ SystemText(c) = text \o <<"drift">>
  BY <1>2, <1>3 DEF SystemText, text
<1> QED
  BY <1>4, <1>5

(* A captured call and the next, as the requests that are compared: all but   *)
(* the messages, and the text the demo edited, is the same.                   *)
LEMMA PairOfCalls ==
  ASSUME CapturedLists, CapturedShaped, HistoryInv, place = "analysed",
         NEW i, i \in DOMAIN captured, i + 1 \in DOMAIN captured,
         NEW p, p = BridgedRequest(captured[i], i - 1),
         NEW c, c = BridgedRequest(captured[i + 1], i)
  PROVE  /\ SameControls(p, c) /\ p.tools = c.tools
         /\ SystemText(p) = SystemText(c) <=> drifted \notin {i, i + 1}
         /\ IsPrefix(p.messages, c.messages) <=>
              ~(/\ captured[i].list # captured[i + 1].list
                /\ i > 1 /\ captured[i - 1].list = captured[i].list)
<1> DEFINE cp == captured[i]
           cc == captured[i + 1]
           np == Len(cp.messages)
           nc == Len(cc.messages)
<1>1. HasBeginning(cp, i) /\ HasBeginning(cc, i + 1) /\ GrowsFrom(i) /\ GrowsFrom(i + 1)
  BY DEF HistoryInv
<1>2. /\ cp.model = cc.model /\ cp.tools = cc.tools /\ cp.extra = cc.extra
  BY <1>1 DEF HasBeginning
<1>3. SameControls(p, c) /\ p.tools = c.tools
  BY <1>2 DEF SameControls, BridgedRequest
<1>4. DOMAIN captured = 1 .. Len(captured) /\ Len(captured) \in Nat /\ i \in Nat \ {0}
  <2>1. DOMAIN captured = 1 .. Len(captured) /\ Len(captured) \in Nat
    BY ListsAreLists DEF CapturedLists
  <2> QED
    BY <2>1
<1>5. /\ p.system = cp.messages[1].obj.content.str
      /\ c.system = cc.messages[1].obj.content.str
  BY DEF BridgedRequest
<1>6. session \in Sessions
  <2>1. lists # <<>>
    BY <1>1 DEF HasBeginning
  <2> QED
    BY <2>1 DEF CapturedShaped
<1>7. Opening(session)[1].obj.content = session.system
  BY DEF Opening, Obj
<1>8. /\ p.system = IF i = drifted THEN DriftedText ELSE session.system.str
      /\ c.system = IF i + 1 = drifted THEN DriftedText ELSE session.system.str
  BY <1>1, <1>5, <1>7 DEF HasBeginning
<1>9. SystemText(p) = SystemText(c) <=> drifted \notin {i, i + 1}
  <2>1. CASE drifted \notin {i, i + 1}
    BY <1>8, <2>1 DEF SystemText
  <2>2. CASE drifted \in {i, i + 1}
    <3>1. drifted # 0
      BY <1>4, <2>2
    <3>2. Is("str", session.system)
      BY <3>1 DEF HistoryInv, DriftIsLast
    <3>3. CASE drifted = i
      <4>1. p.system = session.system.str \o <<"drift">> /\ c.system = session.system.str
        BY <1>4, <1>8, <3>3 DEF DriftedText
      <4>2. SystemText(c) # SystemText(p)
        BY <1>6, <3>2, <4>1, DriftShows
      <4> QED
        BY <2>2, <4>2
    <3>4. CASE drifted = i + 1
      <4>1. c.system = session.system.str \o <<"drift">> /\ p.system = session.system.str
        BY <1>4, <1>8, <3>4 DEF DriftedText
      <4>2. SystemText(p) # SystemText(c)
        BY <1>6, <3>2, <4>1, DriftShows
      <4> QED
        BY <2>2, <4>2
    <3> QED
      BY <2>2, <3>3, <3>4
  <2> QED
    BY <2>1, <2>2
<1>10. /\ np \in Nat /\ nc \in Nat /\ np >= 2 /\ nc >= 2
       /\ \A k \in 2 .. np : cp.messages[k] = lists[cp.list][k]
       /\ \A k \in 2 .. nc : cc.messages[k] = lists[cc.list][k]
       /\ cp.list \in DOMAIN lists /\ cc.list \in DOMAIN lists
  <2>1. np \in 2 .. Len(lists[cp.list]) - 1 /\ nc \in 2 .. Len(lists[cc.list]) - 1
    BY <1>1 DEF HasBeginning
  <2>2. np \in Nat /\ nc \in Nat /\ np >= 2 /\ nc >= 2
    BY <2>1
  <2> QED
    BY <1>1, <2>2 DEF HasBeginning
<1>11. /\ p.messages = [k \in 1 .. np - 1 |-> BridgedMessage(cp.messages[k + 1])]
       /\ c.messages = [k \in 1 .. nc - 1 |-> BridgedMessage(cc.messages[k + 1])]
  BY DEF BridgedRequest
<1> DEFINE mp == p.messages
           mc == c.messages
<1> HIDE DEF cp, cc, np, nc, mp, mc
<1>12. /\ IsListOf(mp) /\ Len(mp) = np - 1 /\ \A k \in 1 .. np - 1 : mp[k] = BridgedMessage(cp.messages[k + 1])
       /\ IsListOf(mc) /\ Len(mc) = nc - 1 /\ \A k \in 1 .. nc - 1 : mc[k] = BridgedMessage(cc.messages[k + 1])
  <2>1. np - 1 \in Nat /\ nc - 1 \in Nat
    BY <1>10
  <2>2. /\ mp = [k \in 1 .. np - 1 |-> mp[k]] /\ mc = [k \in 1 .. nc - 1 |-> mc[k]]
        /\ \A k \in 1 .. np - 1 : mp[k] = BridgedMessage(cp.messages[k + 1])
        /\ \A k \in 1 .. nc - 1 : mc[k] = BridgedMessage(cc.messages[k + 1])
    BY <1>11 DEF mp, mc
  <2> QED
    BY <2>1, <2>2, ListOfFunction
<1>13. IsPrefix(mp, mc) <=> Starts(mp, mc)
  BY <1>12, PrefixStarts
<1>14. ASSUME np =< nc, \A k \in 2 .. np : cp.messages[k] = cc.messages[k] PROVE Starts(mp, mc)
  <2>1. Len(mp) =< Len(mc)
    BY <1>10, <1>12, <1>14
  <2>2. \A k \in 1 .. np - 1 : k \in 1 .. nc - 1 /\ k + 1 \in 2 .. np
    BY <1>10, <1>14
  <2>3. \A k \in 1 .. np - 1 : mp[k] = mc[k]
    BY <1>12, <1>14, <2>2
  <2> QED
    BY <1>12, <2>1, <2>3 DEF Starts
<1>15. CASE cp.list = cc.list
  <2>1. i + 1 # 1 /\ (i + 1) - 1 = i
    BY <1>4
  <2>2. np < nc
    BY <1>1, <1>10, <1>15, <2>1 DEF GrowsFrom, cp, cc, np, nc
  <2>3. \A k \in 2 .. np : k \in 2 .. nc
    BY <1>10, <2>2
  <2>4. Starts(mp, mc)
    BY <1>10, <1>14, <1>15, <2>2, <2>3
  <2> QED
    BY <1>3, <1>9, <1>13, <1>15, <2>4 DEF cp, cc, mp, mc
<1>16. CASE cp.list # cc.list
  <2>1. (i + 1) - 1 = i
    BY <1>4
  <2>2. nc = 2
    BY <1>1, <1>16, <2>1 DEF GrowsFrom, cp, cc, nc
  <2>3. CASE i > 1 /\ captured[i - 1].list = captured[i].list
    <3>1. i - 1 \in DOMAIN captured /\ i # 1
      BY <1>4, <2>3
    <3>2. HasBeginning(captured[i - 1], i - 1)
      BY <3>1 DEF HistoryInv
    <3> DEFINE before == Len(captured[i - 1].messages)
    <3>3. before \in 2 .. Len(lists[captured[i - 1].list]) - 1
      BY <3>2 DEF HasBeginning
    <3>4. np > before
      BY <1>1, <2>3, <3>1 DEF GrowsFrom, cp, np
    <3> HIDE DEF before
    <3>5. before >= 2 /\ before \in Int
      BY <3>3
    <3>6. ~Starts(mp, mc)
      BY <1>10, <1>12, <2>2, <3>4, <3>5 DEF Starts
    <3> QED
      BY <1>3, <1>9, <1>13, <1>16, <2>3, <3>6 DEF cp, cc, mp, mc
  <2>4. CASE ~(i > 1 /\ captured[i - 1].list = captured[i].list)
    <3>1. i = 1 \/ captured[i - 1].list # captured[i].list
      BY <1>4, <2>4
    <3>2. np = 2
      BY <1>1, <3>1 DEF GrowsFrom, cp, np
    <3>3. cp.messages[2] = Opening(session)[2] /\ cc.messages[2] = Opening(session)[2]
      <4>1. \A l \in DOMAIN lists : lists[l][2] = Opening(session)[2]
        BY DEF HistoryInv, ListsOpened
      <4>2. 2 \in 2 .. np /\ 2 \in 2 .. nc
        BY <2>2, <3>2
      <4> QED
        BY <1>10, <4>1, <4>2
    <3>4. \A k \in 2 .. np : k = 2
      BY <3>2
    <3>5. Starts(mp, mc)
      BY <1>14, <2>2, <3>2, <3>3, <3>4
    <3> QED
      BY <1>3, <1>9, <1>13, <2>4, <3>5 DEF mp, mc
  <2> QED
    BY <2>3, <2>4
<1> QED
  BY <1>15, <1>16

(* The report on a conversation tells its history, for every session, answer, *)
(* number of turns and restarts: nothing between two calls of one loop,       *)
(* whatever was appended since they were captured; the edited call of the     *)
(* demo on both its sides; and a restart exactly where the loop before it had *)
(* gone past its first call (report.py:48, capture.py:53-57).                 *)
THEOREM ReportsTellHistory == Spec => []ReportTellsHistory
<1>1. AnalysisInv /\ HistoryInv => ReportTellsHistory
  <2> SUFFICES ASSUME AnalysisInv, HistoryInv, place = "analysed", NEW i \in DOMAIN Rows
               PROVE  Rows[i].change =
                        IF drifted \in {i, i + 1} THEN "system_changed"
                        ELSE IF captured[i].list # captured[i + 1].list
                                  /\ i > 1 /\ captured[i - 1].list = captured[i].list
                        THEN "messages_changed"
                        ELSE "none"
    BY DEF ReportTellsHistory
  <2>1. CapturedLists /\ CapturedShaped
    BY DEF AnalysisInv
  <2>2. /\ trace = [j \in DOMAIN captured |-> BridgedRequest(captured[j], j - 1)]
        /\ \A j \in DOMAIN captured : Bridges(captured[j])
    BY DEF HistoryInv, TraceOfCalls
  <2>3. IsListOf(trace)
    <3> DEFINE item == [j \in DOMAIN captured |-> BridgedRequest(captured[j], j - 1)]
    <3>1. trace = [j \in DOMAIN captured |-> item[j]] /\ IsListOf(captured)
      BY <2>1, <2>2 DEF CapturedLists
    <3> HIDE DEF item
    <3> QED
      BY <3>1, ListsMade
  <2>4. /\ i \in DOMAIN trace /\ i + 1 \in DOMAIN trace
        /\ Reports[i] = PairReport(trace, i) /\ Rows[i].change = Reports[i].kind
    BY <2>3, RowsAre
  <2> DEFINE p == trace[i]
             c == trace[i + 1]
             report == Reports[i]
  <2>5. DOMAIN captured = 1 .. Len(captured) /\ Len(captured) \in Nat /\ i \in Nat
    <3>1. DOMAIN captured = 1 .. Len(captured) /\ Len(captured) \in Nat
      BY <2>1, ListsAreLists DEF CapturedLists
    <3>2. i \in DOMAIN captured
      BY <2>2, <2>4
    <3> QED
      BY <3>1, <3>2
  <2>6. /\ i \in DOMAIN captured /\ i + 1 \in DOMAIN captured
        /\ p = BridgedRequest(captured[i], i - 1) /\ c = BridgedRequest(captured[i + 1], i)
    <3>1. i \in DOMAIN captured /\ i + 1 \in DOMAIN captured /\ (i + 1) - 1 = i
      BY <2>2, <2>4, <2>5
    <3> QED
      BY <2>2, <3>1
  <2>7. \A j \in DOMAIN captured :
          /\ WellShaped(BridgedRequest(captured[j], j - 1))
          /\ <<EphemeralKey, BridgedRequest(captured[j], j - 1).tool_choice>> # None
    <3> SUFFICES ASSUME NEW j \in DOMAIN captured
                 PROVE  /\ WellShaped(BridgedRequest(captured[j], j - 1))
                        /\ <<EphemeralKey, BridgedRequest(captured[j], j - 1).tool_choice>> # None
      OBVIOUS
    <3>1. /\ CallShaped(captured[j]) /\ IsListOf(captured[j].messages)
          /\ captured[j].messages # <<>> /\ Bridges(captured[j])
      BY <2>1, <2>2 DEF CapturedLists, CapturedShaped
    <3> QED
      BY <3>1, BridgedIsShaped
  <2>8. /\ WellShaped(p) /\ <<EphemeralKey, p.tool_choice>> # None
        /\ WellShaped(c) /\ <<EphemeralKey, c.tool_choice>> # None
    BY <2>2, <2>6, <2>7
  <2>9. report = Compare(FingerprintRequest(p, EphemeralKey), FingerprintRequest(c, EphemeralKey))
    BY <2>4 DEF PairReport
  <2> HIDE DEF p, c, report
  <2>10. FindsTheChange(p, c, report)
    BY <2>8, <2>9, CompareIsExact
  <2> DEFINE restart == /\ captured[i].list # captured[i + 1].list
                        /\ i > 1 /\ captured[i - 1].list = captured[i].list
  <2>11. /\ SameControls(p, c) /\ p.tools = c.tools
         /\ SystemText(p) = SystemText(c) <=> drifted \notin {i, i + 1}
         /\ IsPrefix(p.messages, c.messages) <=> ~restart
    BY <2>1, <2>6, PairOfCalls
  <2> HIDE DEF restart
  <2>12. OnlyAppended(p, c) <=> drifted \notin {i, i + 1} /\ ~restart
    BY <2>11 DEF OnlyAppended, SameControls
  <2>13. report.kind = "none" <=> drifted \notin {i, i + 1} /\ ~restart
    BY <2>10, <2>12 DEF FindsTheChange
  <2>14. ASSUME drifted \in {i, i + 1} \/ restart
         PROVE  report.kind = IF drifted \in {i, i + 1} THEN "system_changed" ELSE "messages_changed"
    <3>1. PICK k \in 1 .. 3 :
            /\ report.kind = KindForSegment[SEGMENT_ORDER[k]]
            /\ SEGMENT_ORDER[k] = IF SystemText(p) # SystemText(c) THEN "system" ELSE "messages"
      BY <2>10, <2>11, <2>12, <2>14 DEF FindsTheChange
    <3>2. SEGMENT_ORDER[k] = IF drifted \in {i, i + 1} THEN "system" ELSE "messages"
      BY <2>11, <3>1
    <3> QED
      BY <3>1, <3>2 DEF KindForSegment
  <2>15. report.kind = IF drifted \in {i, i + 1} THEN "system_changed"
                       ELSE IF restart THEN "messages_changed" ELSE "none"
    BY <2>13, <2>14
  <2> QED
    BY <2>4, <2>15 DEF report, restart
<1> QED
  BY <1>1, AnalysisInvHolds, HistoryHolds, PTL
=============================================================================

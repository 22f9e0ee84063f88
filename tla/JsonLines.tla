------------------------------ MODULE JsonLines ------------------------------
(* The two readers of the normalized trace format: parse_jsonl                *)
(* (ingest/jsonl.py), which coerces, and parse_strict_jsonl                   *)
(* (ingest/strict_jsonl.py), which refuses, and tool_choice.py.               *)
(*                                                                            *)
(* A JSON value is a record whose field says what it is.  A line is the value *)
(* json.loads makes of it, or else Blank, Garbage or Deep (nested beyond      *)
(* MaxDepth).  An object also says whether a key stands in it twice.          *)
EXTENDS Structure

CONSTANTS
  MaxRequests,      \* parse_strict_jsonl's max_requests
  MaxDepth          \* what json.loads can nest (Python's recursion limit)

(* The format itself is nested five deep.                                     *)
ASSUME DepthAssumption == MaxDepth \in Nat /\ MaxDepth >= 5

Null == [null |-> TRUE]
Bool(b) == [bool |-> b]
Num(n) == [num |-> n]
Str(text) == [str |-> text]
Arr(items) == [arr |-> items]
Obj(fields) == [obj |-> fields, twice |-> FALSE]

Blank == [line |-> "blank"]
Garbage == [line |-> "garbage"]
Deep == [line |-> "deep"]

(* Of numbers: NaN and Infinity are extensions json.loads reads, 1e999 a      *)
(* literal beyond the floats, and 10**400 an int no float can hold.           *)
NonFinite == {"NaN", "Infinity", "1e999"}
Ints == {"0", "7", "-1", "10**400"}
NaturalInts == Ints \ {"-1"}

Is(type, v) == type \in DOMAIN v
Has(v, field) == field \in DOMAIN v.obj
Field(v, field) == IF Has(v, field) THEN v.obj[field] ELSE Null
Items(v) == IF v = Null THEN <<>> ELSE v.arr

(* A value, what it is made of, and so on.                                    *)
Children(v) == (IF Is("arr", v) THEN ToSet(v.arr) ELSE {})
                 \cup (IF Is("obj", v) THEN {v.obj[f] : f \in DOMAIN v.obj} ELSE {})

Parts(v) ==
  LET level[d \in 0 .. MaxDepth] ==
        IF d = 0 THEN {v} ELSE UNION {Children(x) : x \in level[d - 1]}
  IN UNION {level[d] : d \in 0 .. MaxDepth}

(* What json.loads makes of a text and of an array is a sequence.             *)
IsJson(v) == \A x \in Parts(v) : /\ Is("str", x) => x.str \in Seq(ToSet(x.str))
                                 /\ Is("arr", x) => x.arr \in Seq(ToSet(x.arr))

NonEmptyStr(v) == Is("str", v) /\ v.str # <<>>

(* str(v), None, and what stays of any other value where nothing coerces it.  *)
StrOf(v) == IF Is("str", v) THEN v.str
            ELSE IF Is("num", v) THEN <<v.num>>
            ELSE IF Is("null", v) THEN <<"None">>
            ELSE <<"repr">>

RawOf(v) == IF v = Null THEN None ELSE IF Is("str", v) THEN v.str ELSE v

(* Sorted keys and the last of two equal ones: a function has no order.       *)
CanonicalJson(v) == IF Is("obj", v) THEN v.obj ELSE v

-----------------------------------------------------------------------------
(* parse_tool_choice *)

IsModeChoice(v) == Is("str", v) /\ v.str \in {<<"auto">>, <<"none">>, <<"required">>}

IsFunctionChoice(v) ==
  /\ Is("obj", v)
  /\ DOMAIN v.obj = {"type", "function"}
  /\ v.obj.type = Str(<<"function">>)
  /\ Is("obj", v.obj.function)
  /\ DOMAIN v.obj.function.obj = {"name"}
  /\ NonEmptyStr(v.obj.function.obj.name)

ToolChoice(v) == IF Is("str", v) THEN [mode |-> v.str, function_name |-> None]
                 ELSE [mode |-> <<"function">>, function_name |-> v.obj.function.obj.name.str]

-----------------------------------------------------------------------------
(* parse_line: what it accepts, and the request it makes *)

Roles == {<<"system">>, <<"user">>, <<"assistant">>, <<"tool">>}

IsList(v, nullable) == Is("arr", v) \/ (nullable /\ v = Null)

(* A list of the field, or null for it, and each item accepted.               *)
ListOf(v, nullable, Item(_)) == IsList(v, nullable) /\ \A x \in ToSet(Items(v)) : Item(x)

ParsesCall(v) ==
  Is("obj", v) /\ {"id", "name"} \subseteq DOMAIN v.obj
    /\ (Has(v, "arguments") => Is("str", v.obj.arguments))

ParsesMessage(v) ==
  /\ Is("obj", v)
  /\ Has(v, "role") /\ Is("str", v.obj.role) /\ v.obj.role.str \in Roles
  /\ ListOf(Field(v, "tool_calls"), TRUE, ParsesCall)

ParsesTool(v) == Is("obj", v) /\ Has(v, "name")

(* float(v), short of a value it overflows on.                                *)
IsFloat(v) == Is("num", v) \/ Is("bool", v) \/ (Is("str", v) /\ v.str \in {<<"7">>, <<"NaN">>})

(* `or {}`: any false value counts as no usage.                               *)
IsFalse(v) == v \in {Null, Bool(FALSE), Num("0"), Str(<<>>), Arr(<<>>), Obj(<<>>)}

ParsesControls(v) ==
  /\ Is("obj", v)
  /\ IsFalse(Field(v, "usage")) \/ Is("obj", Field(v, "usage"))
  /\ Has(v, "tool_choice") => IsModeChoice(v.obj.tool_choice) \/ IsFunctionChoice(v.obj.tool_choice)
  /\ {"request_id", "timestamp"} \subseteq DOMAIN v.obj

ParsesLine(v) ==
  /\ ParsesControls(v)
  /\ IsFloat(v.obj.timestamp) /\ v.obj.timestamp # Num("10**400")
  /\ Has(v, "model")
  /\ ListOf(Field(v, "tools"), TRUE, ParsesTool)
  /\ Has(v, "messages") /\ ListOf(v.obj.messages, FALSE, ParsesMessage)

(* Not every refusal names its line: json.loads may run out of stack, and     *)
(* float() raises OverflowError, which _require_float does not catch.         *)
Escapes(v) == v = Deep \/ (ParsesControls(v) /\ v.obj.timestamp = Num("10**400"))

CallOf(v) == [id |-> StrOf(v.obj.id), name |-> StrOf(v.obj.name),
              arguments_raw |-> IF Has(v, "arguments") THEN v.obj.arguments.str ELSE <<>>]

MessageOf(v) ==
  [role |-> v.obj.role.str,
   content |-> IF Field(v, "content") = Null THEN <<>> ELSE StrOf(v.obj.content),
   tool_call_id |-> RawOf(Field(v, "tool_call_id")),
   tool_calls |-> LET calls == Items(Field(v, "tool_calls"))
                  IN [k \in DOMAIN calls |-> CallOf(calls[k])]]

ToolOf(v) == [name |-> StrOf(v.obj.name),
              description |-> IF Has(v, "description") THEN StrOf(v.obj.description) ELSE <<>>,
              schema_json |-> IF Has(v, "schema") THEN CanonicalJson(v.obj.schema) ELSE <<>>]

UsageOf(v) == [f \in {"input_tokens", "output_tokens", "cache_read_input_tokens"} |->
                 IF IsFalse(v) THEN None ELSE RawOf(Field(v, f))]

RequestOf(v) ==
  [request_id  |-> StrOf(v.obj.request_id),
   timestamp   |-> StrOf(v.obj.timestamp),
   model       |-> StrOf(v.obj.model),
   system      |-> RawOf(Field(v, "system")),
   tools       |-> LET tools == Items(Field(v, "tools")) IN [k \in DOMAIN tools |-> ToolOf(tools[k])],
   messages    |-> LET messages == v.obj.messages.arr
                   IN [k \in DOMAIN messages |-> MessageOf(messages[k])],
   usage       |-> UsageOf(Field(v, "usage")),
   tool_choice |-> IF Has(v, "tool_choice") THEN ToolChoice(v.obj.tool_choice) ELSE None]

-----------------------------------------------------------------------------
(* _validate and the hooks of json.loads: what the strict reader accepts *)

(* No key twice, no number that is not finite, anywhere in the value.         *)
WellFormed(v) ==
  \A x \in Parts(v) : /\ Is("num", x) => x.num \notin NonFinite
                      /\ Is("obj", x) => ~x.twice

Shape(v, allowed, required) ==
  Is("obj", v) /\ required \subseteq DOMAIN v.obj /\ DOMAIN v.obj \subseteq allowed

StrOrNull(v) == v = Null \/ Is("str", v)

ValidTool(v) ==
  /\ Shape(v, {"name", "description", "schema"}, {"name"})
  /\ NonEmptyStr(v.obj.name)
  /\ Has(v, "description") => Is("str", v.obj.description)
  /\ Has(v, "schema") => Is("obj", v.obj.schema)

ValidCall(v) ==
  /\ Shape(v, {"id", "name", "arguments"}, {"id", "name", "arguments"})
  /\ NonEmptyStr(v.obj.id) /\ NonEmptyStr(v.obj.name) /\ Is("str", v.obj.arguments)

(* Mutant of ValidMessage: content may be anything.                           *)
ValidMessageAnyContent(v) ==
  /\ Shape(v, {"role", "content", "tool_call_id", "tool_calls"}, {"role"})
  /\ Is("str", v.obj.role) /\ v.obj.role.str \in Roles
  /\ IF v.obj.role.str = <<"tool">> THEN NonEmptyStr(Field(v, "tool_call_id"))
     ELSE Field(v, "tool_call_id") = Null
  /\ ListOf(Field(v, "tool_calls"), TRUE, ValidCall)
  /\ Items(Field(v, "tool_calls")) # <<>> => v.obj.role.str = <<"assistant">>

(* A result is bound to its call, and only an assistant calls.                *)
ValidMessage(v) ==
  /\ Shape(v, {"role", "content", "tool_call_id", "tool_calls"}, {"role"})
  /\ Is("str", v.obj.role) /\ v.obj.role.str \in Roles
  /\ StrOrNull(Field(v, "content"))
  /\ IF v.obj.role.str = <<"tool">> THEN NonEmptyStr(Field(v, "tool_call_id"))
     ELSE Field(v, "tool_call_id") = Null
  /\ ListOf(Field(v, "tool_calls"), TRUE, ValidCall)
  /\ Items(Field(v, "tool_calls")) # <<>> => v.obj.role.str = <<"assistant">>

ValidUsage(v) ==
  v = Null \/ (/\ Shape(v, {"input_tokens", "output_tokens", "cache_read_input_tokens"}, {})
               /\ \A f \in DOMAIN v.obj :
                    v.obj[f] = Null \/ (Is("num", v.obj[f]) /\ v.obj[f].num \in NaturalInts))

ValidLine(v) ==
  /\ Shape(v, {"request_id", "timestamp", "model", "system", "tools", "messages", "usage",
               "tool_choice"}, {"request_id", "timestamp", "model", "messages"})
  /\ NonEmptyStr(v.obj.request_id) /\ NonEmptyStr(v.obj.model)
  /\ Is("num", v.obj.timestamp) /\ v.obj.timestamp.num \notin NonFinite \cup {"10**400"}
  /\ StrOrNull(Field(v, "system"))
  /\ ListOf(Field(v, "tools"), TRUE, ValidTool)
  /\ ListOf(v.obj.messages, FALSE, ValidMessage)
  /\ ValidUsage(Field(v, "usage"))

Accepts(v) == WellFormed(v) /\ ValidLine(v) /\ ParsesLine(v)

-----------------------------------------------------------------------------
(* parse_jsonl and parse_strict_jsonl: a trace, or the first line they refuse *)

LinesOf(file) == {i \in DOMAIN file : file[i] # Blank}

(* Line by line, past the blank ones.                                         *)
Requests(file) ==
  LET read[i \in 0 .. Len(file)] ==
        IF i = 0 THEN <<>>
        ELSE IF file[i] = Blank THEN read[i - 1]
        ELSE Append(read[i - 1], RequestOf(file[i]))
  IN read[Len(file)]

(* line 0: an exception that does not say where.                              *)
ParseJsonl(file) ==
  LET bad == {i \in LinesOf(file) : ~ParsesLine(file[i])}
  IN IF bad = {} THEN [requests |-> Requests(file)]
     ELSE [line |-> IF Escapes(file[Min(bad)]) THEN 0 ELSE Min(bad)]

ParseStrictJsonl(file) ==
  LET bad == {i \in LinesOf(file) : \/ ~Accepts(file[i])
                                    \/ Cardinality(LinesOf(file) \cap (1 .. i - 1)) >= MaxRequests}
  IN IF bad = {} THEN [requests |-> Requests(file)] ELSE [line |-> Min(bad)]
=============================================================================

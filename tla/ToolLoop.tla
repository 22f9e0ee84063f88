------------------------------- MODULE ToolLoop -------------------------------
(* The tool loop of the pilot and what it captures: run_scripted_loop and     *)
(* convert_captured_calls (pilots/agentfuse/bridge.py), the clients that keep *)
(* a copy of each call (fake_client.py, local_client.py) and the repository   *)
(* tools (repo_tools.py).  Messages, tools and replies are JSON values.       *)
EXTENDS LocalAnalysis

CONSTANTS
  Sessions,         \* what a loop may be called with
  Replies,          \* what a model may answer to one call
  JsonTexts,        \* the argument texts that are JSON, with the value of each
  Files,            \* the paths of the router's snapshot
  MaxTurns,         \* turns of one loop
  MaxLoops          \* bound on the loops over one scripted client

VARIABLES
  route,            \* "file", "scripted" or "local": the way to the analysis
  session,          \* what the loops are called with
  lists,            \* the list of messages of each loop so far
  captured,         \* the calls the client has captured
  turns,            \* turns taken by the current loop
  pending,          \* tool calls of the last reply that wait for a result
  place,            \* "idle", "calling", "routing", "raised", "refused" or "analysed"
  status,           \* how the current loop ended, or "failure"
  drifted,          \* the captured call the demo edits, 0 for none
  counts,           \* the router's counters
  asked             \* the reads the router remembers

loopVars == <<session, lists, captured, turns, pending, place, status, drifted, counts, asked>>

Current == lists[Len(lists)]
Extended(message) == [lists EXCEPT ![Len(lists)] = Append(@, message)]
CallsOf(message) == IF Has(message, "tool_calls") THEN message.obj.tool_calls.arr ELSE <<>>
OrElse(v, default) == IF v = Null THEN default ELSE v

-----------------------------------------------------------------------------
(* convert_captured_calls: what it accepts, and the request it makes *)

KeysWithin(v, keys) == Is("obj", v) /\ DOMAIN v.obj \subseteq keys
IsFunction(v, keys) ==
  /\ KeysWithin(v, {"id", "type", "function"})
  /\ Field(v, "type") = Str(<<"function">>)
  /\ KeysWithin(Field(v, "function"), keys)
  /\ NonEmptyStr(Field(v.obj.function, "name"))

BridgesTool(v) ==
  /\ IsFunction(v, {"name", "description", "parameters"}) /\ ~Has(v, "id")
  /\ Has(v.obj.function, "description") => Is("str", v.obj.function.obj.description)
  /\ Has(v.obj.function, "parameters") => Is("obj", v.obj.function.obj.parameters)

BridgesCall(v) ==
  /\ IsFunction(v, {"name", "arguments"})
  /\ NonEmptyStr(Field(v, "id"))
  /\ Is("str", Field(v.obj.function, "arguments"))

BridgesMessage(v) ==
  /\ KeysWithin(v, {"role", "content", "tool_call_id", "tool_calls"})
  /\ Field(v, "role") \in {Str(<<"user">>), Str(<<"assistant">>), Str(<<"tool">>)}
  /\ StrOrNull(Field(v, "content"))
  /\ Has(v, "tool_calls") => ListOf(v.obj.tool_calls, FALSE, BridgesCall)
  /\ CallsOf(v) # <<>> => v.obj.role = Str(<<"assistant">>)
  /\ IF v.obj.role = Str(<<"tool">>) THEN NonEmptyStr(Field(v, "tool_call_id"))
     ELSE Field(v, "tool_call_id") = Null

Bridges(call) ==
  /\ KeysWithin(call.extra, {"tool_choice"})
  /\ \A choice \in Range(call.extra.obj) : IsModeChoice(choice) \/ IsFunctionChoice(choice)
  /\ NonEmptyStr(call.model)
  /\ ListOf(call.tools, FALSE, BridgesTool)
  /\ KeysWithin(call.messages[1], {"role", "content"})
  /\ Field(call.messages[1], "role") = Str(<<"system">>)
  /\ Is("str", Field(call.messages[1], "content"))
  /\ \A m \in ToSet(Tail(call.messages)) : BridgesMessage(m)

BridgedTool(v) ==
  [name |-> v.obj.function.obj.name.str,
   description |-> OrElse(Field(v.obj.function, "description"), Str(<<>>)).str,
   schema_json |-> CanonicalJson(OrElse(Field(v.obj.function, "parameters"), Obj(<<>>)))]

BridgedCall(v) == [id |-> v.obj.id.str, name |-> v.obj.function.obj.name.str,
                   arguments_raw |-> v.obj.function.obj.arguments.str]

(* Mutant of BridgedMessage: results lose the call they answer.               *)
BridgedUnbound(v) ==
  [role |-> v.obj.role.str, content |-> OrElse(Field(v, "content"), Str(<<>>)).str,
   tool_call_id |-> None,
   tool_calls |-> [k \in DOMAIN CallsOf(v) |-> BridgedCall(CallsOf(v)[k])]]

BridgedMessage(v) ==
  [role |-> v.obj.role.str, content |-> OrElse(Field(v, "content"), Str(<<>>)).str,
   tool_call_id |-> RawOf(Field(v, "tool_call_id")),
   tool_calls |-> [k \in DOMAIN CallsOf(v) |-> BridgedCall(CallsOf(v)[k])]]

(* Usage and time are not part of the comparison.                             *)
BridgedRequest(call, index) ==
  [request_id  |-> <<"pilot_", ToString(index)>>,
   timestamp   |-> <<"7">>,
   model       |-> call.model.str,
   system      |-> call.messages[1].obj.content.str,
   tools       |-> [k \in DOMAIN call.tools.arr |-> BridgedTool(call.tools.arr[k])],
   messages    |-> [k \in 1 .. Len(call.messages) - 1 |-> BridgedMessage(call.messages[k + 1])],
   usage       |-> UsageOf(Null),
   tool_choice |-> IF Has(call.extra, "tool_choice") THEN ToolChoice(call.extra.obj.tool_choice)
                   ELSE None]

-----------------------------------------------------------------------------
(* PublicRepoTools.__call__ *)

Whole(v) == IF Is("num", v) /\ v.num \in NaturalInts \ {"0"} THEN v.num ELSE None

IsSearch(name, args) ==
  /\ Is("obj", args) /\ name = <<"search_files">> /\ DOMAIN args.obj = {"query"}
  /\ NonEmptyStr(args.obj.query)

(* What is read, with the defaults filled in.                                 *)
ReadOf(args) == [path  |-> Field(args, "path"),
                start |-> Whole(OrElse(Field(args, "start_line"), Num("1"))),
                count |-> Whole(OrElse(Field(args, "max_lines"), Num("60")))]

IsRead(name, args) ==
  /\ KeysWithin(args, {"path", "start_line", "max_lines"}) /\ name = <<"read_file">>
  /\ ReadOf(args).path \in Files
  /\ ReadOf(args).start # None
  /\ ReadOf(args).count \notin {None, "10**400"}

(* json.loads(arguments or "{}"), and {} for what is not JSON.                *)
Arguments(call) == LET text == call.obj.function.obj.arguments.str
                   IN IF text \in DOMAIN JsonTexts THEN JsonTexts[text] ELSE Obj(<<>>)

Kind(call) ==
  LET name == call.obj.function.obj.name.str
  IN CASE IsSearch(name, Arguments(call)) -> "search"
       [] IsRead(name, Arguments(call))   -> "read"
       [] OTHER                           -> "rejected"

-----------------------------------------------------------------------------
(* _completion: the answers of a server the local client supports.            *)
Completes(reply) ==
  /\ Is("obj", reply)
  /\ StrOrNull(Field(reply, "content"))
  /\ Has(reply, "tool_calls") => Is("arr", reply.obj.tool_calls)
  /\ Len(CallsOf(reply)) <= 4
  /\ \A call \in ToSet(CallsOf(reply)) :
       /\ Is("obj", call) /\ Field(call, "type") = Str(<<"function">>) /\ Is("str", Field(call, "id"))
       /\ Is("obj", Field(call, "function"))
       /\ \A f \in {"name", "arguments"} : Is("str", Field(call.obj.function, f))

(* What a loop is called with and answered are JSON values; None is not one,  *)
(* nor a text or a digest.                                                    *)
ASSUME RepliesAssumption == \A reply \in Replies : IsJson(reply)

ASSUME SessionsAssumption ==
  \A s \in Sessions :
    /\ s # None
    /\ \A v \in {s.system, s.user, s.tools} : IsJson(v)
    /\ Is("str", s.system) => None \notin Seq(ToSet(s.system.str) \cup {"drift"})
    /\ \A choice \in Range(s.extra.obj) :
         IsModeChoice(choice) \/ IsFunctionChoice(choice) => <<EphemeralKey, ToolChoice(choice)>> # None
    /\ <<EphemeralKey, None>> # None

ToolLoopInit ==
  /\ session = None
  /\ lists = <<>> /\ captured = <<>> /\ turns = 0 /\ pending = <<>> /\ place = "idle"
  /\ status = "incomplete" /\ drifted = 0 /\ counts = [search |-> 0, read |-> 0, repeated |-> 0, rejected |-> 0]
  /\ asked = {}

Opening(s) == <<Obj([role |-> Str(<<"system">>), content |-> s.system]),
                Obj([role |-> Str(<<"user">>), content |-> s.user])>>

(* A loop begins with its two messages; a restart is the same loop once more, *)
(* over the same client.                                                      *)
StartLoop ==
  /\ place = "idle" /\ trace = None /\ drifted = 0
  /\ Len(lists) < IF route = "scripted" THEN MaxLoops ELSE 1
  /\ session' \in IF session = None THEN Sessions ELSE {session}
  /\ lists' = Append(lists, Opening(session'))
  /\ turns' = 0
  /\ place' = "calling"
  /\ UNCHANGED <<captured, pending, status, drifted, counts, asked>>

(* Mutant of Snapshot: the call keeps the caller's list (capture.py:53-57).   *)
ByReference(list, messages) == lists[list]

(* deepcopy, before the caller appends to its list.                           *)
Snapshot(list, messages) == messages

Call(reply) == [model |-> session.model, tools |-> session.tools, extra |-> session.extra,
                messages |-> Current, list |-> Len(lists), reply |-> reply]

(* local_client.py:141: a request is tried on the bridge with no reply yet.   *)
Supported == Bridges(Call(Obj(<<>>)))

Rebuilt(call) ==
  LET function == call.obj.function.obj
  IN Obj([id |-> call.obj.id, type |-> call.obj.type,
          function |-> Obj([name |-> function.name, arguments |-> function.arguments])])

AssistantMessage(reply) ==
  LET role    == Str(<<"assistant">>)
      content == OrElse(Field(reply, "content"), Str(<<>>))
      calls   == Arr([k \in DOMAIN CallsOf(reply) |-> Rebuilt(CallsOf(reply)[k])])
  IN IF CallsOf(reply) = <<>> THEN Obj([role |-> role, content |-> content])
     ELSE Obj([role |-> role, content |-> content, tool_calls |-> calls])

(* The reply is captured before create returns it.  The loop appends the      *)
(* assistant's message, rebuilt, and stops unless it asks for tools.          *)
Answer(reply) ==
  /\ place = "calling" /\ turns < MaxTurns
  /\ Completes(reply)
  /\ route = "local" => Supported
  /\ captured' = Append(captured, Call(reply))
  /\ turns' = turns + 1
  /\ lists' = Extended(AssistantMessage(reply))
  /\ pending' = CallsOf(reply)
  /\ place' = IF CallsOf(reply) = <<>> THEN "idle" ELSE "routing"
  /\ status' = IF CallsOf(reply) = <<>> THEN "complete" ELSE status
  /\ UNCHANGED <<session, drifted, counts, asked>>

(* An exception of create that ends the loop and the program: no reply is     *)
(* left in the script, or the local client refuses the shape of the request.  *)
CreateRaises ==
  /\ place = "calling" /\ turns < MaxTurns
  /\ route = "local" => ~Supported
  /\ place' = "raised"
  /\ UNCHANGED <<session, lists, captured, turns, pending, status, drifted, counts, asked>>

(* LocalPilotError: the budget, the connection or the server failed, or the   *)
(* answer is not one _completion supports.  run analyses what it has.         *)
CallFails ==
  /\ route = "local"
  /\ place = "calling" /\ turns < MaxTurns
  /\ Supported
  /\ place' = "idle"
  /\ status' = "failure"
  /\ UNCHANGED <<session, lists, captured, turns, pending, drifted, counts, asked>>

(* The loop runs out of turns; AgentFuse's monitor escalates between turns.   *)
LoopEnds ==
  /\ place = "calling"
  /\ \/ turns = MaxTurns /\ status' = "max_turns"
     \/ route = "local" /\ turns > 0 /\ status' = "escalated"
  /\ place' = "idle"
  /\ UNCHANGED <<session, lists, captured, turns, pending, drifted, counts, asked>>

(* Mutant of Count: a refused call is counted as a read.                      *)
CountAny(kind, args) ==
  /\ counts' = [counts EXCEPT ![IF kind = "search" THEN "search" ELSE "read"] = @ + 1]
  /\ asked' = asked

Count(kind, args) ==
  LET gains == {kind} \cup IF kind = "read" /\ ReadOf(args) \in asked THEN {"repeated"} ELSE {}
  IN /\ counts' = [c \in DOMAIN counts |-> IF c \in gains THEN counts[c] + 1 ELSE counts[c]]
     /\ asked' = asked \cup (IF kind = "read" THEN {ReadOf(args)} ELSE {})

ResultOf(call) == Obj([role |-> Str(<<"tool">>), tool_call_id |-> call.obj.id,
                       content |-> Str(<<Kind(call)>>)])

(* The router answers the next call of the reply; refusals are answers too.   *)
RouteCall ==
  /\ place = "routing"
  /\ Count(Kind(Head(pending)), Arguments(Head(pending)))
  /\ lists' = Extended(ResultOf(Head(pending)))
  /\ pending' = Tail(pending)
  /\ place' = IF pending' = <<>> THEN "calling" ELSE "routing"
  /\ UNCHANGED <<session, captured, turns, status, drifted>>

(* The demo's system-drift scenario edits the second captured call.           *)
Drift ==
  /\ route = "scripted" /\ place = "idle" /\ trace = None /\ drifted = 0
  /\ Len(captured) >= 2
  /\ Is("str", session.system)
  /\ captured' = [captured EXCEPT ![2].messages[1].obj.content.str = @ \o <<"drift">>]
  /\ drifted' = 2
  /\ UNCHANGED <<session, lists, turns, pending, place, status, counts, asked>>

(* analyze_captured_calls: one call that cannot be mapped refuses them all.   *)
AnalyzeCaptured ==
  LET calls    == [i \in DOMAIN captured |->
                     [captured[i] EXCEPT !.messages = Snapshot(captured[i].list, @)]]
      requests == [i \in DOMAIN calls |-> BridgedRequest(calls[i], i - 1)]
  IN /\ place = "idle" /\ lists # <<>>
     /\ IF \A i \in DOMAIN calls : Bridges(calls[i])
             /\ Analyzable(requests)
          THEN Analyze(requests) /\ place' = "analysed"
          ELSE place' = "refused" /\ UNCHANGED trace
     /\ UNCHANGED <<session, lists, captured, turns, pending, status, drifted, counts, asked>>

(* run_outcome of local_run.py, from the last reply the client captured.      *)
LastText == IF captured = <<>> THEN <<>>
            ELSE OrElse(Field(Last(captured).reply, "content"), Str(<<>>)).str

(* Mutant of RunOutcome: the length limit is not told from a stop.            *)
RunOutcomeAnyText ==
  CASE status = "failure"   -> "inference_failure"
    [] status = "max_turns" -> "incomplete_call_limit"
    [] status = "escalated" -> "escalated"
    [] OTHER -> IF ToSet(LastText) \ Blanks # {} THEN "finished_with_text"
                ELSE "incomplete_no_final_text"

RunOutcome ==
  LET reason == IF captured = <<>> THEN Null ELSE Field(Last(captured).reply, "finish_reason")
  IN CASE status = "failure"   -> "inference_failure"
       [] status = "max_turns" -> "incomplete_call_limit"
       [] status = "escalated" -> "escalated"
       [] OTHER -> IF reason = Str(<<"length">>) THEN "incomplete_output_limit"
                   ELSE IF reason = Str(<<"stop">>) /\ ToSet(LastText) \ Blanks # {}
                   THEN "finished_with_text"
                   ELSE "incomplete_no_final_text"

LoopStep ==
  \/ /\ \/ StartLoop \/ CreateRaises \/ CallFails \/ LoopEnds \/ RouteCall \/ Drift
        \/ \E reply \in Replies : Answer(reply)
     /\ UNCHANGED trace
  \/ AnalyzeCaptured

-----------------------------------------------------------------------------
(* The same request as a line of the normalized format.                       *)
LineTool(v) ==
  Obj([f \in {"name", "description", "schema"} |->
         CASE f = "name"        -> v.obj.function.obj.name
           [] f = "description" -> OrElse(Field(v.obj.function, "description"), Str(<<>>))
           [] f = "schema"      -> OrElse(Field(v.obj.function, "parameters"), Obj(<<>>))])

LineCall(v) == Obj([id |-> v.obj.id, name |-> v.obj.function.obj.name,
                    arguments |-> v.obj.function.obj.arguments])

LineMessage(v) ==
  Obj([role |-> v.obj.role, content |-> Field(v, "content"),
       tool_call_id |-> Field(v, "tool_call_id"),
       tool_calls |-> Arr([k \in DOMAIN CallsOf(v) |-> LineCall(CallsOf(v)[k])])])

LineFields(call, index) ==
  [request_id |-> Str(<<"pilot_", ToString(index)>>), timestamp |-> Num("7"),
   model |-> call.model, system |-> call.messages[1].obj.content,
   tools |-> Arr([k \in DOMAIN call.tools.arr |-> LineTool(call.tools.arr[k])]),
   messages |-> Arr([k \in 1 .. Len(call.messages) - 1 |-> LineMessage(call.messages[k + 1])])]

Line(call, index) ==
  LET fields == LineFields(call, index)
      extra  == call.extra.obj
  IN Obj([f \in DOMAIN fields \cup DOMAIN extra |->
            IF f \in DOMAIN fields THEN fields[f] ELSE extra[f]])

(* Two requests of one loop differ by appended messages only, however many    *)
(* turns and tool results lie between them and whatever the loop appended     *)
(* after they were captured.  A change is reported where the demo edits a     *)
(* call, and where a loop starts over from a conversation that had gone past  *)
(* its first call (report.py:48, capture.py:53-57).                           *)
ReportTellsHistory ==
  place = "analysed" =>
    \A i \in DOMAIN Rows :
      Rows[i].change =
        IF drifted \in {i, i + 1} THEN "system_changed"
        ELSE IF captured[i].list # captured[i + 1].list /\ i > 1 /\ captured[i - 1].list = captured[i].list
        THEN "messages_changed"
        ELSE "none"

(* Both ways into the comparison agree on what a request is.  A call the      *)
(* bridge takes over is, written as a line of the normalized format, one the  *)
(* strict reader accepts, and is read as the same request; a number that is   *)
(* not finite is the exception, which only the reader refuses (bridge.py:19,  *)
(* ingest/strict_jsonl.py:1-13).                                              *)
BridgeWithinFormat ==
  \A i \in DOMAIN captured :
    Bridges(captured[i]) /\ WellFormed(Line(captured[i], i)) =>
      /\ Accepts(Line(captured[i], i))
      /\ RequestOf(Line(captured[i], i)) = BridgedRequest(captured[i], i)

(* Where the tool results are, and the reads that have one: the results of a *)
(* message's calls follow it in their order.                                  *)
Results == {at \in UNION {{l} \X DOMAIN lists[l] : l \in DOMAIN lists} :
              lists[at[1]][at[2]].obj.role = Str(<<"tool">>)}

AnsweredIn(list) ==
  UNION {{CallsOf(list[k])[j] : j \in {i \in DOMAIN CallsOf(list[k]) : k + i <= Len(list)}} :
         k \in DOMAIN list}

AnsweredReads ==
  {call \in UNION {AnsweredIn(lists[l]) : l \in DOMAIN lists} : Kind(call) = "read"}

(* The counters of the report add up to the tool results in the lists, and a  *)
(* read counts as repeated when the same lines, defaults filled in, were read *)
(* before in any of them (repo_tools.py:72-95).                               *)
ToolCountsAddUp ==
  /\ counts.search + counts.read + counts.rejected = Cardinality(Results)
  /\ counts.read - counts.repeated =
       Cardinality({ReadOf(Arguments(call)) : call \in AnsweredReads})
=============================================================================

------------------------------ MODULE Structure ------------------------------
(* The content-free comparison of requests: units (fingerprint/tokenize.py,   *)
(* fingerprint/fingerprint.py), fingerprints (fingerprint/types.py) and       *)
(* compare (fingerprint/divergence.py).                                       *)
(*                                                                            *)
(* A text is a sequence of symbols, each a piece of a word or a blank; a      *)
(* number, an id or a schema inside a request is a text too.  HMAC and        *)
(* SHA-256 are ideal: a digest is the tuple of what went into it.             *)
EXTENDS Integers, Sequences, SequencesExt, FiniteSetsExt

CONSTANTS
  None,             \* Python's None
  Blanks,           \* the symbols that are white space
  Surrogates        \* the symbols UTF-8 cannot encode

ASSUME NoneAssumption == None \notin Nat

SEGMENT_ORDER == <<"tools", "system", "messages">>

GROWTH_TOLERANT_SEGMENTS == {"messages"}

-----------------------------------------------------------------------------
(* Units *)

(* A unit starts where blank and non-blank meet.                              *)
UnitStarts(text) ==
  {i \in DOMAIN text : i = 1 \/ (text[i] \in Blanks) # (text[i - 1] \in Blanks)}

(* Read from left to right, a symbol opens a unit or goes on with the last.   *)
Tokenize(text) ==
  LET units[i \in 0 .. Len(text)] ==
        IF i = 0 THEN <<>>
        ELSE IF i \in UnitStarts(text) THEN Append(units[i - 1], <<text[i]>>)
        ELSE [units[i - 1] EXCEPT ![Len(units[i - 1])] = Append(@, text[i])]
  IN units[Len(text)]

TextUnits(text) == LET units == Tokenize(text) IN [k \in DOMAIN units |-> <<"text", units[k]>>]

ToolsUnits(request) ==
  [k \in DOMAIN request.tools |->
     LET tool == request.tools[k] IN <<"tool", tool.name, tool.description, tool.schema_json>>]

SystemUnits(request) == IF request.system = None THEN <<>> ELSE TextUnits(request.system)

CallUnits(calls) == [k \in DOMAIN calls |->
                       <<"tool_call", calls[k].id, calls[k].name, calls[k].arguments_raw>>]

UnitsOfMessage(m) ==
  <<<<"message_start", m.role, m.tool_call_id>>>> \o TextUnits(m.content)
    \o CallUnits(m.tool_calls) \o <<<<"message_end", m.role>>>>

MessageUnits(request) ==
  FlattenSeq([k \in DOMAIN request.messages |-> UnitsOfMessage(request.messages[k])])

Units(kind, request) ==
  CASE kind = "tools"    -> ToolsUnits(request)
    [] kind = "system"   -> SystemUnits(request)
    [] kind = "messages" -> MessageUnits(request)

-----------------------------------------------------------------------------
(* Fingerprints *)

(* Each step hashes the one before it; the seed is the key and the kind.      *)
HashChain(key, kind, units) == [i \in DOMAIN units |-> <<key, kind, SubSeq(units, 1, i)>>]

Segment(key, kind, units) ==
  [kind |-> kind, unit_count |-> Len(units), chain |-> HashChain(key, kind, units)]

FingerprintRequest(request, key) ==
  [request_ref        |-> <<key, request.request_id>>,
   key_ref            |-> <<"key_ref", key>>,
   timestamp          |-> request.timestamp,
   model_digest       |-> <<"model", request.model>>,
   segments           |-> [kind \in ToSet(SEGMENT_ORDER) |->
                             Segment(key, kind, Units(kind, request))],
   tool_choice_digest |-> IF request.tool_choice = None THEN None
                          ELSE <<key, request.tool_choice>>]

(* Every text that is hashed is encoded first, and a lone surrogate cannot be.*)
(* A schema is ASCII already: json.dumps escapes.                             *)
TextsOfMessage(m) ==
  {m.content} \cup ({m.tool_call_id} \ {None})
    \cup {c[f] : c \in ToSet(m.tool_calls), f \in {"id", "name", "arguments_raw"}}

TextsOf(request) ==
  {request.request_id, request.model}
    \cup {tool[f] : tool \in ToSet(request.tools), f \in {"name", "description"}}
    \cup (IF request.system = None THEN {} ELSE {request.system})
    \cup (UNION {TextsOfMessage(m) : m \in ToSet(request.messages)})
    \cup (IF request.tool_choice = None THEN {} ELSE {request.tool_choice.function_name} \ {None})

Fingerprintable(request) == \A text \in TextsOf(request) : ToSet(text) \cap Surrogates = {}

(* The units of the segments in front of the k-th.                            *)
UnitsBefore(fingerprint, k) ==
  LET sum[i \in 1 .. k] ==
        IF i = 1 THEN 0
        ELSE sum[i - 1] + fingerprint.segments[SEGMENT_ORDER[i - 1]].unit_count
  IN sum[k]

TotalUnits(fingerprint) == UnitsBefore(fingerprint, Len(SEGMENT_ORDER) + 1)

-----------------------------------------------------------------------------
(* compare *)

(* Mutant of SegmentDivergenceOffset: equal lengths are taken for a shrink.   *)
OffsetOffByOne(previous, current, tolerate_growth) ==
  LET shared    == Min({previous.unit_count, current.unit_count})
      differing == {i \in 0 .. shared - 1 : previous.chain[i + 1] # current.chain[i + 1]}
  IN IF differing # {} THEN Min(differing)
     ELSE IF tolerate_growth /\ current.unit_count > previous.unit_count THEN None
     ELSE shared

SegmentDivergenceOffset(previous, current, tolerate_growth) ==
  LET shared    == Min({previous.unit_count, current.unit_count})
      differing == {i \in 0 .. shared - 1 : previous.chain[i + 1] # current.chain[i + 1]}
  IN IF differing # {} THEN Min(differing)
     ELSE IF current.unit_count = previous.unit_count THEN None
     ELSE IF tolerate_growth /\ current.unit_count > previous.unit_count THEN None
     ELSE shared

KindForSegment ==
  [tools |-> "tools_changed", system |-> "system_changed", messages |-> "messages_changed"]

Report(previous, current, kind, offset, missed) ==
  [previous_request_ref |-> previous.request_ref, request_ref |-> current.request_ref,
   kind |-> kind, segment_offset |-> offset, cache_missed_units |-> missed]

SegmentReport(previous, current) ==
  LET Offset(k) == SegmentDivergenceOffset(previous.segments[SEGMENT_ORDER[k]],
                                           current.segments[SEGMENT_ORDER[k]],
                                           SEGMENT_ORDER[k] \in GROWTH_TOLERANT_SEGMENTS)
      diverged  == {k \in DOMAIN SEGMENT_ORDER : Offset(k) # None}
      first     == Min(diverged)
  IN IF diverged = {} THEN Report(previous, current, "none", 0, 0)
     ELSE Report(previous, current, KindForSegment[SEGMENT_ORDER[first]], Offset(first),
                 TotalUnits(current) - UnitsBefore(current, first) - Offset(first))

(* Fingerprints under different keys are refused: compare raises, which here  *)
(* is a report of a kind of its own.                                          *)
Comparable(previous, current) == previous.key_ref = current.key_ref

Compare(previous, current) ==
  IF ~Comparable(previous, current)
    THEN Report(previous, current, "refused", 0, 0)
  ELSE IF previous.model_digest # current.model_digest
    THEN Report(previous, current, "model_changed", 0, TotalUnits(current))
  ELSE IF previous.tool_choice_digest # current.tool_choice_digest
    THEN Report(previous, current, "tool_choice_changed", 0, 0)
  ELSE SegmentReport(previous, current)

(* Fingerprint.execute and Divergence.execute, one after the other.           *)
FingerprintTrace(requests, key) == [i \in DOMAIN requests |-> FingerprintRequest(requests[i], key)]

CompareTrace(fingerprints) ==
  [i \in 1 .. Len(fingerprints) - 1 |-> Compare(fingerprints[i], fingerprints[i + 1])]

ChangedPairs(reports) == {i \in DOMAIN reports : reports[i].kind # "none"}

-----------------------------------------------------------------------------
(* What compare is meant to find, said of the requests themselves *)

(* The prefix a provider reads: tools, system, messages, each unit tagged.    *)
Prefix(request) ==
  FlattenSeq([k \in DOMAIN SEGMENT_ORDER |->
                LET units == Units(SEGMENT_ORDER[k], request)
                IN [i \in DOMAIN units |-> <<SEGMENT_ORDER[k], units[i]>>]])

SystemText(request) == IF request.system = None THEN <<>> ELSE request.system

(* Nothing changed but that messages were appended.                           *)
OnlyAppended(p, c) ==
  /\ p.model = c.model
  /\ p.tool_choice = c.tool_choice
  /\ p.tools = c.tools
  /\ SystemText(p) = SystemText(c)
  /\ IsPrefix(p.messages, c.messages)
=============================================================================

---------------------------- MODULE LocalAnalysis ----------------------------
(* The analysis both the command line (cli.py, analyze_trace) and the pilot   *)
(* (pilots/agentfuse/report.py, analyze_captured_calls) run: a graph of       *)
(* InMemoryTraceSource, Fingerprint under an ephemeral key, and Divergence,   *)
(* no cache, and StructuralReport.to_dict (report.py) of what comes out.  How *)
(* the executor runs a graph is the business of module Executor.              *)
EXTENDS JsonLines

VARIABLES
  trace             \* the requests analysed, None without a result

AnalysisInit == trace = None

(* A key of 32 random bytes, of which nothing survives the call.              *)
EphemeralKey == "ephemeral"

(* The executor raises what the fingerprint node raises: there is no report.  *)
Analyzable(requests) == \A i \in DOMAIN requests : Fingerprintable(requests[i])

Analyze(requests) == Analyzable(requests) /\ trace' = requests

(* One report for each consecutive pair.                                      *)
ReportsOf(requests) == CompareTrace(FingerprintTrace(requests, EphemeralKey))

Reports == ReportsOf(trace)

(* Rows of the report.  The offset is left out where there is none.           *)
HasOffset(kind) == kind \in {"tools_changed", "system_changed", "messages_changed"}

Rows ==
  LET reports == Reports
  IN [i \in DOMAIN reports |->
        [previous_request_number |-> i, request_number |-> i + 1,
         change |-> reports[i].kind,
         segment_unit_offset |-> IF HasOffset(reports[i].kind) THEN reports[i].segment_offset
                                 ELSE None]]

ChangedPairCount(requests) == Cardinality(ChangedPairs(ReportsOf(requests)))

-----------------------------------------------------------------------------
(* The comparison reports nothing exactly when nothing changed but appended   *)
(* messages; otherwise it names the first thing that differs, and the offset  *)
(* and the units missed are those of the longest common prefix of the two     *)
(* requests (divergence.py:33-126, fingerprint/types.py:12-25).               *)
ReportIsExact ==
  trace # None =>
    LET reports == Reports
        rows == Rows
    IN /\ Len(rows) = (IF trace = <<>> THEN 0 ELSE Len(trace) - 1)
       /\ \A i \in DOMAIN rows :
            LET p == trace[i]
                c == trace[i + 1]
                kind == rows[i].change
                common == Len(LongestCommonPrefix({Prefix(p), Prefix(c)}))
                before == CASE kind = "tools_changed"    -> 0
                            [] kind = "system_changed"   -> Len(ToolsUnits(c))
                            [] kind = "messages_changed" -> Len(ToolsUnits(c)) + Len(SystemUnits(c))
            IN CASE OnlyAppended(p, c)               -> kind = "none"
                 [] p.model # c.model                -> kind = "model_changed"
                 [] p.model = c.model
                    /\ p.tool_choice # c.tool_choice -> kind = "tool_choice_changed"
                 [] OTHER ->
                      /\ kind = IF p.tools # c.tools THEN "tools_changed"
                                ELSE IF SystemText(p) # SystemText(c) THEN "system_changed"
                                ELSE "messages_changed"
                      /\ rows[i].segment_unit_offset = common - before
                      /\ reports[i].cache_missed_units = Len(Prefix(c)) - common
=============================================================================

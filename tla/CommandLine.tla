----------------------------- MODULE CommandLine -----------------------------
(* `python -m sixeyes analyze` (cli.py): an exporter writes a file line by    *)
(* line, main reads it strictly, analyses it and ends with an exit code.      *)
EXTENDS LocalAnalysis

CONSTANTS
  Lines,            \* lines an exporter may write
  MaxLines          \* bound on the lines of a file

(* Lines are read as JSON; None is neither a trace nor a digest.              *)
ASSUME LinesAssumption ==
  LET requests == {RequestOf(line) : line \in {v \in Lines : Accepts(v)}}
  IN /\ \A line \in Lines : IsJson(line)
     /\ None \notin Seq(requests)
     /\ \A request \in requests : <<EphemeralKey, request.tool_choice>> # None

VARIABLES
  file,             \* the lines of the input file
  fail_on_change,   \* the option
  stopped,          \* the line main names in its message, None when it names none
  exit              \* main's exit code, None while it has not ended

cliVars == <<file, fail_on_change, stopped, exit>>

CommandLineInit ==
  file = <<>> /\ fail_on_change \in BOOLEAN /\ stopped = None /\ exit = None

Write(line) ==
  /\ exit = None
  /\ Len(file) < MaxLines
  /\ file' = Append(file, line)
  /\ UNCHANGED <<fail_on_change, stopped, exit, trace>>

(* The file cannot be read, is larger than MAX_INPUT_BYTES, or is not UTF-8:  *)
(* an exception, or the explicit limit.  Nothing has been parsed.             *)
InputRefused ==
  /\ exit = None
  /\ exit' = 2
  /\ UNCHANGED <<file, fail_on_change, stopped, trace>>

(* JsonlFormatError: the message names the line, and nothing of its content.  *)
LineRefused ==
  /\ exit = None
  /\ "line" \in DOMAIN ParseStrictJsonl(file)
  /\ stopped' = ParseStrictJsonl(file).line
  /\ exit' = 2
  /\ UNCHANGED <<file, fail_on_change, trace>>

(* Any other exception: here, a text that cannot be encoded.                  *)
AnalysisRefused ==
  /\ exit = None
  /\ "requests" \in DOMAIN ParseStrictJsonl(file)
  /\ ~Analyzable(ParseStrictJsonl(file).requests)
  /\ exit' = 2
  /\ UNCHANGED <<file, fail_on_change, stopped, trace>>

ExitCode(requests, changed) ==
  IF requests < 2 THEN 3 ELSE IF fail_on_change /\ changed > 0 THEN 1 ELSE 0

Reported ==
  /\ exit = None
  /\ "requests" \in DOMAIN ParseStrictJsonl(file)
  /\ LET requests == ParseStrictJsonl(file).requests
     IN /\ Analyze(requests)
        /\ exit' = ExitCode(Len(requests), ChangedPairCount(requests))
  /\ UNCHANGED <<file, fail_on_change, stopped>>

CommandLineNext ==
  \/ \E line \in Lines : Write(line)
  \/ InputRefused \/ LineRefused \/ AnalysisRefused \/ Reported

-----------------------------------------------------------------------------
Strings(v) == {x.str : x \in {y \in Parts(v) : Is("str", y)}}

(* What the strict reader accepts it reads verbatim: no number, null or       *)
(* object of the file becomes a text of the request (strict_jsonl.py:3-4).    *)
NothingCoerced ==
  \A i \in DOMAIN file : Accepts(file[i]) =>
    TextsOf(RequestOf(file[i])) \subseteq Strings(file[i]) \cup {<<>>}

(* What the exit code, the line named and the report say of the file.         *)
ExitFitsFile ==
  LET requests == Requests(file)
      changed  == \E i \in 2 .. Len(requests) : ~OnlyAppended(requests[i - 1], requests[i])
  IN /\ exit \in {0, 1, 3} => \A i \in LinesOf(file) : Accepts(file[i])
     /\ exit = 0 => Len(requests) >= 2 /\ ~(fail_on_change /\ changed)
     /\ exit = 1 => fail_on_change /\ changed
     /\ exit = 3 => Len(requests) < 2
     /\ exit = 2 <=> exit # None /\ trace = None
     /\ stopped # None => \A i \in LinesOf(file) : i < stopped => Accepts(file[i])
=============================================================================

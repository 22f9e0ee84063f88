------------------------------- MODULE Analysis -------------------------------
(* The three programs that compare requests, each up to its exit code:        *)
(* `python -m sixeyes analyze` over a file (cli.py), `python -m               *)
(* pilots.agentfuse` over a scripted loop (__main__.py, demo.py), and the     *)
(* local pilot (local_run.py), whose loop runs against its own server.        *)
EXTENDS CommandLine, ToolLoop, LocalServer

vars == <<route, cliVars, trace, loopVars, serverVars>>

Init ==
  /\ route \in {"file", "scripted", "local"}
  /\ CommandLineInit /\ AnalysisInit /\ ToolLoopInit /\ ServerInit
  /\ route # "file" => ~fail_on_change

ByFile == route = "file" /\ CommandLineNext /\ UNCHANGED <<route, loopVars, serverVars>>

(* The demo ends with 2 for a RuntimeError (AgentFuse is not there, or the    *)
(* script is at its end), and with 1 for any other.                           *)
ByScript ==
  /\ route = "scripted" /\ exit = None
  /\ \/ LoopStep /\ UNCHANGED exit
     \/ /\ lists = <<>> \/ place \in {"raised", "refused", "analysed"}
        /\ exit' = CASE place = "analysed" -> 0 [] place = "refused" -> 1 [] OTHER -> 2
        /\ UNCHANGED <<trace, loopVars>>
  /\ UNCHANGED <<route, file, fail_on_change, stopped, serverVars>>

(* run, while the server is up.  A call is answered by whoever has the port.  *)
InferenceStep ==
  /\ server = "up"
  /\ LoopStep
  /\ captured' # captured => port # "free"
  /\ answered' = IF captured' # captured THEN answered \cup {port} ELSE answered
  /\ UNCHANGED <<server, process, port, late, exit>>

(* main's exit code, once the `with` block is left: 1 for any exception too.  *)
LocalExit ==
  /\ Ended /\ exit = None
  /\ exit' = IF place = "analysed" /\ status # "failure" /\ Len(captured) >= 2
                  /\ RunOutcome = "finished_with_text"
             THEN 0 ELSE 1
  /\ UNCHANGED <<trace, loopVars, serverVars>>

Main ==
  /\ \/ InferenceStep
     \/ /\ ServerStep \/ (server = "up" /\ place \in {"raised", "refused", "analysed"} /\ Leave)
        /\ UNCHANGED <<exit, trace, loopVars>>
     \/ LocalExit
  /\ route = "local"
  /\ UNCHANGED <<route, file, fail_on_change, stopped>>

(* What the local pilot has no say in: the clock, an interrupt, its child and *)
(* the other programs.                                                        *)
Around ==
  /\ route = "local" /\ exit = None
  /\ Deadline \/ Leave \/ Environment
  /\ UNCHANGED <<route, cliVars, trace, loopVars>>

Next == ByFile \/ ByScript \/ Main \/ Around

Spec == Init /\ [][Next]_vars

(* A program goes on; a call to the server, a tool and a wait each end within *)
(* their timeouts, and the clock runs.                                        *)
FairSpec ==
  /\ Spec
  /\ WF_vars(Main) /\ WF_vars(ByScript)
  /\ WF_vars(route = "local" /\ Deadline /\ UNCHANGED <<route, cliVars, trace, loopVars>>)

-----------------------------------------------------------------------------
(* A demo and a local pilot end, with an exit code: whatever the model        *)
(* answers, the child does and other programs do on its port (demo.py:72,     *)
(* local_run.py:60, local_runtime.py:62-88).                                  *)
SessionEnds == route # "file" => <>(exit # None)

(* What the exit code 0 of the local pilot says of the conversation.          *)
ExitFitsConversation ==
  /\ Len(Reports) >= 1
  /\ Last(Current).obj.role = Str(<<"assistant">>) /\ CallsOf(Last(Current)) = <<>>
  /\ ToSet(LastText) \ Blanks # {}
  /\ {c.obj.id : c \in UNION {ToSet(CallsOf(m)) : m \in ToSet(Current)}}
       = {m.obj.tool_call_id : m \in {x \in ToSet(Current) : x.obj.role = Str(<<"tool">>)}}
  /\ Field(Last(captured).reply, "finish_reason") = Str(<<"stop">>)

LocalExitIsEarned == route = "local" /\ exit = 0 => ExitFitsConversation

(* An exit code is earned.  By the file: with --fail-on-change a 0 means two  *)
(* requests or more, every line accepted, and every request its predecessor   *)
(* with at most messages appended; a 1 that some request is not; a 2 comes    *)
(* without a report and names the first line that is refused (cli.py:55-65).  *)
(* By the conversation: with a 0 of the local pilot the last request was      *)
(* answered by text, the model stopped by itself, every tool call has its     *)
(* result, and two requests were compared (local_run.py:27-39, 107-111).      *)
ExitIsEarned ==
  /\ route = "file" => ExitFitsFile
  /\ LocalExitIsEarned
=============================================================================

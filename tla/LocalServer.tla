------------------------------ MODULE LocalServer ------------------------------
(* local_server (pilots/agentfuse/local_runtime.py): the pilot's own server   *)
(* on a port of the machine, which other programs may bind as well.           *)

VARIABLES
  server,           \* where local_server is
  process,          \* the child: "none", "loading", "listening" or "exited"
  port,             \* who listens on the port: "free", "own" or "other"
  late,             \* the deadline for the start has passed
  answered          \* who has answered a request so far (history)

serverVars == <<server, process, port, late, answered>>

Ended == server \in {"refused", "ended"}
Alive == process \in {"loading", "listening"}

ServerInit ==
  /\ server = "verifying" /\ process = "none" /\ port = "free" /\ late = FALSE
  /\ answered = {}

Goto(place) == server' = place

(* A file is missing, or not the pinned one; or Popen fails.                  *)
Refuse ==
  /\ server \in {"verifying", "spawning"}
  /\ Goto("refused")
  /\ UNCHANGED <<process, port, late, answered>>

Verify ==
  /\ server = "verifying"
  /\ Goto("probing")
  /\ UNCHANGED <<process, port, late, answered>>

(* The probe binds the port, and closes its socket again.                     *)
Probe ==
  /\ server = "probing"
  /\ Goto(IF port = "free" THEN "spawning" ELSE "refused")
  /\ UNCHANGED <<process, port, late, answered>>

Spawn ==
  /\ server = "spawning"
  /\ process' = "loading"
  /\ Goto("polling")
  /\ UNCHANGED <<port, late, answered>>

(* Mutant of Poll: the deadline is forgotten.                                 *)
PollOn ==
  /\ server = "polling"
  /\ Goto(IF ~Alive THEN "stopping" ELSE "asking")
  /\ UNCHANGED <<process, port, late, answered>>

(* process.poll(), while the deadline has not passed.                         *)
Poll ==
  /\ server = "polling"
  /\ Goto(IF late \/ ~Alive THEN "stopping" ELSE "asking")
  /\ UNCHANGED <<process, port, late, answered>>

Deadline ==
  /\ server \in {"polling", "asking"} /\ ~late
  /\ late' = TRUE
  /\ UNCHANGED <<server, process, port, answered>>

(* GET /health: an answer with status 200 ends the wait, whoever gave it; no  *)
(* connection, no answer in time and any other status are waited out.         *)
Healthy ==
  /\ server = "asking" /\ port # "free"
  /\ answered' = answered \cup {port}
  /\ Goto("up")
  /\ UNCHANGED <<process, port, late>>

Unhealthy ==
  /\ server = "asking"
  /\ Goto("polling")
  /\ UNCHANGED <<process, port, late, answered>>

(* The block under `with` ends, or an exception or an interrupt leaves it or  *)
(* the wait.                                                                  *)
Leave ==
  /\ server \in {"polling", "asking", "up"}
  /\ Goto("stopping")
  /\ UNCHANGED <<process, port, late, answered>>

(* Mutant of Stop: a server that still loads is not waited for.               *)
StopListening ==
  /\ server = "stopping"
  /\ Goto(IF process = "listening" THEN "terminating" ELSE "ended")
  /\ UNCHANGED <<process, port, late, answered>>

(* finally: terminate, wait ten seconds, kill.                                *)
Stop ==
  /\ server = "stopping"
  /\ Goto(IF Alive THEN "terminating" ELSE "ended")
  /\ UNCHANGED <<process, port, late, answered>>

Waited ==
  /\ server = "terminating" /\ ~Alive
  /\ Goto("ended")
  /\ UNCHANGED <<process, port, late, answered>>

(* wait times out.                                                            *)
Kill ==
  /\ server = "terminating" /\ Alive
  /\ process' = "exited" /\ port' = IF port = "own" THEN "free" ELSE port
  /\ Goto("ended")
  /\ UNCHANGED <<late, answered>>

ServerStep ==
  Refuse \/ Verify \/ Probe \/ Spawn \/ Poll \/ Healthy \/ Unhealthy \/ Stop \/ Waited \/ Kill

-----------------------------------------------------------------------------
(* The child and the other programs of the machine                            *)

(* The child binds the port once its model is loaded, or gives up.            *)
Listen ==
  /\ process = "loading"
  /\ IF port = "free" THEN process' = "listening" /\ port' = "own"
     ELSE process' = "exited" /\ port' = port
  /\ UNCHANGED <<server, late, answered>>

Exit ==
  /\ Alive
  /\ process' = "exited" /\ port' = IF port = "own" THEN "free" ELSE port
  /\ UNCHANGED <<server, late, answered>>

OtherBinds ==
  /\ port \in {"free", "other"}
  /\ port' = IF port = "free" THEN "other" ELSE "free"
  /\ UNCHANGED <<server, process, late, answered>>

Environment == Listen \/ Exit \/ OtherBinds

ServerSpec == ServerInit /\ [][ServerStep \/ Deadline \/ Leave \/ Environment]_serverVars

-----------------------------------------------------------------------------
(* The server "is stopped on every exit" (local_runtime.py:43): when          *)
(* local_server has ended, whatever ended it and however far the child was,   *)
(* the child is gone and the port is not its own.                             *)
ServerStopped == Ended => ~Alive /\ port # "own"

(* "Refuse an already occupied port; do not accidentally query another        *)
(* service." (local_runtime.py:49): no other program's answer is taken.       *)
OnlyOwnServer == "other" \notin answered
=============================================================================

----------------------------- MODULE MCExecutor ------------------------------
(* Small graphs and small worlds on which TLC runs Executor.                  *)
EXTENDS Executor, TLC

CONSTANTS v1, v2          \* contents, configurations, samples
CONSTANTS a1, a2          \* configurations no content is equal to

(* The graph the command line builds: 1 JsonlSource, 2 Fingerprint, which     *)
(* reads a key of its own, 3 Divergence.                                      *)
AuditNodes == 1 .. 3
AuditUpstreams == <<{}, {1}, {2}>>
AuditKind == <<"source", "pure", "pure">>
AuditContent == <<TRUE, FALSE, FALSE>>
AuditDeclassifies == <<FALSE, TRUE, FALSE>>

(* A content-bearing source, a relay that carries its content undeclared, a   *)
(* declassifier, an LLM node on the raw content, which hides some Findings,   *)
(* and a declassified report of both, which only the LLM node above it keeps  *)
(* out of the cache: every closure of the plan differs from every other.      *)
JudgeNodes == 1 .. 5
JudgeUpstreams == <<{}, {1}, {2}, {2}, {3, 4}>>
JudgeKind == <<"source", "pure", "pure", "stochastic", "pure">>
JudgeContent == <<TRUE, FALSE, FALSE, FALSE, FALSE>>
JudgeDeclassifies == <<FALSE, FALSE, TRUE, FALSE, TRUE>>

(* Scheduling: two sources, three nodes between, one sink, one bystander.     *)
WideNodes == 1 .. 7
WideUpstreams == <<{}, {}, {1}, {1, 2}, {2}, {3, 4, 5}, {1}>>
WideKind == [n \in WideNodes |-> IF n \in {1, 2} THEN "source" ELSE "pure"]
WideFlags == [n \in WideNodes |-> FALSE]

(* Graph objects: h shares g's source object, k is built from fresh objects.  *)
CopyIn(nodes) ==
  [g \in {"g", "h", "k"} |->
     [n \in nodes |-> IF g = "g" \/ (g = "h" /\ n = 1) THEN "a" ELSE "b"]]

AuditCopy == CopyIn(AuditNodes)
JudgeCopy == [g \in {"g"} |-> [n \in JudgeNodes |-> "a"]]
WideCopy == [g \in {"g"} |-> [n \in WideNodes |-> "a"]]
OneGraphCopy == [g \in {"g"} |-> [n \in AuditNodes |-> "a"]]

OneConfig == [c \in {"a"} |-> v1]

OwnConfigs == [c \in {"a", "b"} |-> IF c = "a" THEN a1 ELSE a2]

(* Runs are alike, and so are contents where no configuration is one of them. *)
Exchange == Permutations(Runs) \cup Permutations(Contents)

AuditTargets == {{3}}
JudgeTargets == {{5}}
WideTargets == {{6}, {3, 4}, {5, 7}, {}}
=============================================================================

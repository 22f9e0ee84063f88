------------------------------ MODULE LossyStore ------------------------------
(* What an artifact cache promises (src/sixeyes/graph/cache.py): it may       *)
(* forget anything at any time, but it answers with a miss or with the value  *)
(* that was stored, never with anything else, and with no value before one    *)
(* was stored.                                                                *)
CONSTANTS Procs, Keys

VARIABLES
  tried,            \* the keys that were given to put
  key, answer       \* what process p asked for last, and what it was told

vars == <<tried, key, answer>>

Init == tried = {} /\ key \in [Procs -> Keys] /\ answer = [p \in Procs |-> "none"]

Store(p, k) ==
  /\ tried' = tried \cup {k}
  /\ key' = [key EXCEPT ![p] = k]
  /\ UNCHANGED answer

Ask(p, k) ==
  /\ key' = [key EXCEPT ![p] = k]
  /\ UNCHANGED <<tried, answer>>

Tell(p) ==
  /\ answer' \in [Procs -> {"none", "miss", "value"}]
  /\ \A q \in Procs : answer'[q] = answer[q] \/ q = p
  /\ answer'[p] = "value" => key'[p] \in tried
  /\ \E k \in Keys : key' = [key EXCEPT ![p] = k]
  /\ UNCHANGED tried

Next == \E p \in Procs : Tell(p) \/ \E k \in Keys : Store(p, k) \/ Ask(p, k)

Spec == Init /\ [][Next]_vars
=============================================================================

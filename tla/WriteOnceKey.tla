----------------------------- MODULE WriteOnceKey -----------------------------
(* What load_or_create_key promises to its callers, whoever they are and      *)
(* however they fail: there is one key, it is set once, and every call that   *)
(* returns a key returns that one.                                            *)
EXTENDS Naturals

CONSTANTS Callers, Old, Absent, Invalid, NoKey

(* A key is named by the call that drew it; Old was there before.             *)
Keys == Callers \union {Old}

VARIABLES key, answer

vars == <<key, answer>>

Init ==
  /\ key \in {Absent, Invalid, Old}
  /\ answer = [c \in Callers |-> NoKey]

(* The first use: a caller makes the key and is given it.                     *)
Create(c) ==
  /\ key = Absent
  /\ answer[c] = NoKey
  /\ key' = c
  /\ answer' = [answer EXCEPT ![c] = c]

(* Any other use: a caller is given the key that is there.                    *)
Load(c) ==
  /\ key \in Keys
  /\ answer[c] = NoKey
  /\ answer' = [answer EXCEPT ![c] = key]
  /\ UNCHANGED key

Next == \E c \in Callers : Create(c) \/ Load(c)

Spec == Init /\ [][Next]_vars

===============================================================================

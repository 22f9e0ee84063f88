----------------------------- MODULE AtomicBudget ----------------------------
(* What CallBudget promises the runs that share it: a call is counted in one  *)
(* step, before it is made; whoever counts is given a count nobody else has   *)
(* and may make one call with it, or none.                                    *)
EXTENDS Integers, Sequences

CONSTANTS
  Runs, Limit,
  Invalid         \* what a ledger is that no call is counted in

VARIABLES
  used,           \* the calls counted, or Invalid
  permit,         \* permit[r]: the count r may make a call with, or 0
  calls           \* the calls made, with the count of each

vars == <<used, permit, calls>>

Init ==
  /\ used \in 0..Limit \union {Invalid}
  /\ permit = [r \in Runs |-> 0]
  /\ calls = <<>>

Reserve(r) ==
  /\ used \in 0..(Limit - 1)
  /\ permit[r] = 0
  /\ used' = used + 1
  /\ permit' = [permit EXCEPT ![r] = used + 1]
  /\ UNCHANGED calls

Call(r) ==
  /\ permit[r] # 0
  /\ calls' = Append(calls, [run |-> r, ticket |-> permit[r]])
  /\ permit' = [permit EXCEPT ![r] = 0]
  /\ UNCHANGED used

(* The call is not made, and stays counted.                                   *)
Drop(r) ==
  /\ permit[r] # 0
  /\ permit' = [permit EXCEPT ![r] = 0]
  /\ UNCHANGED <<used, calls>>

Next == \E r \in Runs : Reserve(r) \/ Call(r) \/ Drop(r)

Spec == Init /\ [][Next]_vars
=============================================================================

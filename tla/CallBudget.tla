------------------------------ MODULE CallBudget ------------------------------
(* CallBudget (pilots/agentfuse/local_client.py): a ledger file that counts   *)
(* the inference calls of a session, shared by the processes that use it.     *)
(* A step is one operation on the ledger, its lock or its temporary file.     *)
(* The module has the steps of `reserve` and `used`; Pilot composes them with *)
(* the run that reserves.                                                     *)
EXTENDS Integers

CONSTANTS
  Runs,           \* processes that share the ledger
  Limit,          \* calls the session may attempt
  Absent,         \* no such file
  Invalid,        \* a ledger that `used` refuses, a file half written
  Stale,          \* a lock file left behind earlier
  Faults          \* what may go wrong: "os", "unlink", "net", "shape", "die"

ASSUME BudgetAssumption ==
  /\ Limit \in Nat \ {0}
  /\ Absent \notin Int
  /\ Invalid \notin Int
  /\ Absent # Invalid
  /\ Absent # Stale
  /\ Runs \intersect {Absent, Stale} = {}

Counts == 0..Limit
Ledgers == Counts \union {Absent, Invalid}

VARIABLES
  ledger,         \* the ledger file: Absent, Invalid or attempted_calls
  lock,           \* the lock file: Absent, Stale or the run that made it
  temp,           \* the file <ledger>.tmp, one name for all processes
  pc,             \* pc[r]: where run r is
  count,          \* count[r]: what `reserve` of r has read
  ending          \* ending[r]: where r goes once it has removed its lock

reserveVars == <<ledger, lock, temp, count, ending>>
budgetVars == <<reserveVars, pc>>

Goto(r, place) == pc' = [pc EXCEPT ![r] = place]

(* used(): no file counts as nothing; a ledger it does not expect and one     *)
(* that cannot be read are refused alike.                                     *)
Readable == ledger # Invalid
Unreadable == ~Readable \/ "os" \in Faults
Used == IF ledger = Absent THEN 0 ELSE ledger

-------------------------------------------------------------------------------
(* Mutant of LockBudget: open with mode "w".                                  *)
LockBudgetAnyway(r) ==
  /\ pc[r] = "locking"
  /\ lock' = r
  /\ Goto(r, "reading")
  /\ UNCHANGED <<ledger, temp, count, ending>>

(* reserve, up to the lock: open with mode "x" makes the file or fails.       *)
LockBudget(r) ==
  /\ pc[r] = "locking"
  /\ lock = Absent
  /\ lock' = r
  /\ Goto(r, "reading")
  /\ UNCHANGED <<ledger, temp, count, ending>>

(* Mutant of BudgetLocked: the reservation waits for the lock.                *)
BudgetAwaited(r) ==
  /\ pc[r] = "locking"
  /\ lock # Absent
  /\ UNCHANGED budgetVars

(* Nobody waits for a budget.                                                 *)
BudgetLocked(r) ==
  /\ pc[r] = "locking"
  /\ lock # Absent
  /\ Goto(r, "refused")
  /\ UNCHANGED reserveVars

FinallyUnlock(r, place) ==
  /\ ending' = [ending EXCEPT ![r] = place]
  /\ Goto(r, "unlocking")

(* Mutant of ReadCount: a ledger that cannot be read is started again.        *)
ReadCountOrReset(r) ==
  /\ pc[r] = "reading"
  /\ \/ /\ Readable /\ Used >= Limit
        /\ FinallyUnlock(r, "refused")
        /\ UNCHANGED count
     \/ /\ \/ Readable /\ Used < Limit /\ count' = [count EXCEPT ![r] = Used]
           \/ Unreadable /\ count' = [count EXCEPT ![r] = 0]
        /\ Goto(r, "writing")
        /\ UNCHANGED ending
  /\ UNCHANGED <<ledger, lock, temp>>

(* Mutant of ReadCount: one call more than the limit.                         *)
ReadCountOffByOne(r) ==
  /\ pc[r] = "reading"
  /\ \/ /\ Unreadable \/ Used > Limit
        /\ FinallyUnlock(r, "refused")
        /\ UNCHANGED count
     \/ /\ Readable /\ Used <= Limit
        /\ count' = [count EXCEPT ![r] = Used]
        /\ Goto(r, "writing")
        /\ UNCHANGED ending
  /\ UNCHANGED <<ledger, lock, temp>>

(* The count under the lock; a ledger that is not understood, or is exhausted,*)
(* refuses the call.                                                          *)
ReadCount(r) ==
  /\ pc[r] = "reading"
  /\ \/ /\ Unreadable \/ Used >= Limit
        /\ FinallyUnlock(r, "refused")
        /\ UNCHANGED count
     \/ /\ Readable /\ Used < Limit
        /\ count' = [count EXCEPT ![r] = Used]
        /\ Goto(r, "writing")
        /\ UNCHANGED ending
  /\ UNCHANGED <<ledger, lock, temp>>

TruncateTemp(r) ==
  /\ pc[r] = "writing"
  /\ temp' = Invalid
  /\ Goto(r, "filling")
  /\ UNCHANGED <<ledger, lock, count, ending>>

FillTemp(r) ==
  /\ pc[r] = "filling"
  /\ temp' = count[r] + 1
  /\ Goto(r, "replacing")
  /\ UNCHANGED <<ledger, lock, count, ending>>

Replace(r) ==
  /\ pc[r] = "replacing"
  /\ ledger' = temp
  /\ temp' = Absent
  /\ FinallyUnlock(r, "posting")
  /\ UNCHANGED <<lock, count>>

(* An OSError of reserve is not a LocalPilotError and leaves the run.         *)
BudgetError(r) ==
  /\ "os" \in Faults
  /\ \/ /\ pc[r] = "locking"
        /\ Goto(r, "escaped")
        /\ UNCHANGED ending
     \/ /\ pc[r] \in {"reading", "writing", "filling", "replacing"}
        /\ FinallyUnlock(r, "escaped")
  /\ UNCHANGED <<ledger, lock, temp, count>>

(* The finally; an unlink that fails raises instead of returning the count.   *)
Unlock(r) ==
  /\ pc[r] = "unlocking"
  /\ \/ lock' = Absent /\ Goto(r, ending[r])
     \/ "unlink" \in Faults /\ Goto(r, "escaped") /\ UNCHANGED lock
  /\ UNCHANGED <<ledger, temp, count, ending>>

Proceed(r) ==
  \/ LockBudget(r) \/ BudgetLocked(r) \/ ReadCount(r) \/ TruncateTemp(r)
  \/ FillTemp(r) \/ Replace(r) \/ Unlock(r)

Reserve(r) == Proceed(r) \/ BudgetError(r)

===============================================================================

--------------------------------- MODULE Pilot --------------------------------
(* Runs of the local pilot (pilots/agentfuse/local_run.py) over one ledger:   *)
(* each drives a tool loop of at most the calls that were left when it began, *)
(* reserves every call before it POSTs it, and reports what it attempted.     *)
(* The tool loop and the server are not this repository's code.               *)
EXTENDS CallBudget, Sequences, FiniteSets

VARIABLES
  first,          \* the count of the ledger when the session began (history)
  before,         \* before[r]: the count when run r began
  turns,          \* turns[r]: the iterations of its tool loop
  log,            \* the POSTs the server received, with the count reserved for
                  \* each (history)
  captured,       \* captured[r]: the reserved counts of its captured calls
  status,         \* status[r]: what the tool loop returned
  failure,        \* failure[r]: a LocalPilotError ended the loop
  session,        \* session[r]: session_attempted_calls of its report
  attempted       \* attempted[r]: run_attempted_calls of its report

pilotVars == <<first, before, turns, log, captured, status, failure,
               session, attempted>>
vars == <<budgetVars, pilotVars>>

Ended == {"done", "escaped", "died"}
Reserving ==
  {"locking", "reading", "writing", "filling", "replacing", "unlocking"}
Places == {"start", "looping", "refused", "posting", "awaiting", "reporting",
           "subtracting"} \union Reserving \union Ended

Init ==
  /\ ledger \in Ledgers
  /\ lock \in {Absent, Stale}
  /\ temp \in {Absent, Invalid}
  /\ pc = [r \in Runs |-> "start"]
  /\ count = [r \in Runs |-> 0]
  /\ ending = [r \in Runs |-> "posting"]
  /\ first = Used
  /\ before = [r \in Runs |-> 0]
  /\ turns = [r \in Runs |-> 0]
  /\ log = <<>>
  /\ captured = [r \in Runs |-> {}]
  /\ status = [r \in Runs |-> "incomplete"]
  /\ failure = [r \in Runs |-> FALSE]
  /\ session = [r \in Runs |-> 0]
  /\ attempted = [r \in Runs |-> 0]

-------------------------------------------------------------------------------
(* before = budget.used(), outside the try and without the lock.              *)
Begin(r) ==
  /\ pc[r] = "start"
  /\ \/ /\ Readable
        /\ before' = [before EXCEPT ![r] = Used]
        /\ Goto(r, "looping")
     \/ /\ Unreadable
        /\ Goto(r, "escaped")
        /\ UNCHANGED before
  /\ UNCHANGED <<reserveVars, first, turns, log, captured, status, failure,
                 session, attempted>>

(* Mutant of MaxTurns: the last call is kept back.                            *)
MaxTurnsButOne(r) == IF Limit > before[r] THEN Limit - before[r] - 1 ELSE 0

(* max_turns=max(0, 10 - before)                                              *)
MaxTurns(r) == IF Limit >= before[r] THEN Limit - before[r] ELSE 0

(* The loop calls create, which checks the request before it reserves: a body *)
(* that is too large is a pilot error, a shape it does not support is not.    *)
Turn(r) ==
  /\ pc[r] = "looping"
  /\ turns[r] < MaxTurns(r)
  /\ turns' = [turns EXCEPT ![r] = @ + 1]
  /\ \/ Goto(r, "locking")
     \/ "shape" \in Faults /\ (Goto(r, "refused") \/ Goto(r, "escaped"))
  /\ UNCHANGED <<reserveVars, first, before, log, captured, status, failure,
                 session, attempted>>

EndLoop(r, how) ==
  /\ status' = [status EXCEPT ![r] = how]
  /\ Goto(r, "reporting")

(* The loop returns: out of turns.                                            *)
OutOfTurns(r) ==
  /\ pc[r] = "looping"
  /\ turns[r] >= MaxTurns(r)
  /\ EndLoop(r, "max_turns")
  /\ UNCHANGED <<reserveVars, first, before, turns, log, captured, failure,
                 session, attempted>>

(* Mutant of Post: a failed request is sent once more on the same reservation.*)
PostTwice(r) ==
  /\ pc[r] = "posting"
  /\ log' \in {Append(log, [run |-> r, ticket |-> count[r] + 1]),
               log \o [i \in 1..2 |-> [run |-> r, ticket |-> count[r] + 1]]}
  /\ Goto(r, "awaiting")
  /\ UNCHANGED <<reserveVars, first, before, turns, captured, status, failure,
                 session, attempted>>

(* The request reaches the server.                                            *)
Post(r) ==
  /\ pc[r] = "posting"
  /\ log' = Append(log, [run |-> r, ticket |-> count[r] + 1])
  /\ Goto(r, "awaiting")
  /\ UNCHANGED <<reserveVars, first, before, turns, captured, status, failure,
                 session, attempted>>

(* A 200 with a completion the client supports is captured.  The loop goes on *)
(* if it asks for tools, and ends otherwise or when the monitor escalates.    *)
Answer(r) ==
  /\ pc[r] = "awaiting"
  /\ captured' = [captured EXCEPT ![r] = @ \union {count[r] + 1}]
  /\ \/ Goto(r, "looping") /\ UNCHANGED status
     \/ EndLoop(r, "complete")
     \/ EndLoop(r, "escalated")
  /\ UNCHANGED <<reserveVars, first, before, turns, log, failure, session,
                 attempted>>

(* The connection, the server, the status or the body fails: the attempt is   *)
(* counted, nothing is captured, nothing is tried again.                      *)
CallFails(r) ==
  /\ "net" \in Faults
  /\ pc[r] \in {"posting", "awaiting"}
  /\ Goto(r, "refused")
  /\ UNCHANGED <<reserveVars, pilotVars>>

(* except LocalPilotError                                                     *)
Fail(r) ==
  /\ pc[r] = "refused"
  /\ failure' = [failure EXCEPT ![r] = TRUE]
  /\ Goto(r, "reporting")
  /\ UNCHANGED <<reserveVars, first, before, turns, log, captured, status,
                 session, attempted>>

(* The report reads the ledger twice.                                         *)
ReportSession(r) ==
  /\ pc[r] = "reporting"
  /\ \/ /\ Readable
        /\ session' = [session EXCEPT ![r] = Used]
        /\ Goto(r, "subtracting")
     \/ /\ Unreadable
        /\ Goto(r, "escaped")
        /\ UNCHANGED session
  /\ UNCHANGED <<reserveVars, first, before, turns, log, captured, status,
                 failure, attempted>>

(* Mutant of ReportAttempted: the run counts what it captured.                *)
ReportCaptured(r) ==
  /\ pc[r] = "subtracting"
  /\ attempted' = [attempted EXCEPT ![r] = Cardinality(captured[r])]
  /\ Goto(r, "done")
  /\ UNCHANGED <<reserveVars, first, before, turns, log, captured, status,
                 failure, session>>

ReportAttempted(r) ==
  /\ pc[r] = "subtracting"
  /\ \/ /\ Readable
        /\ attempted' = [attempted EXCEPT ![r] = Used - before[r]]
        /\ Goto(r, "done")
     \/ /\ Unreadable
        /\ Goto(r, "escaped")
        /\ UNCHANGED attempted
  /\ UNCHANGED <<reserveVars, first, before, turns, log, captured, status,
                 failure, session>>

(* run_outcome = "incomplete_call_limit"                                      *)
StoppedAtLimit(r) == ~failure[r] /\ status[r] = "max_turns"

(* The process dies; its files stay.                                          *)
Die(r) ==
  /\ "die" \in Faults
  /\ pc[r] \notin Ended
  /\ Goto(r, "died")
  /\ UNCHANGED <<reserveVars, pilotVars>>

GoOn(r) ==
  \/ Begin(r) \/ Turn(r) \/ OutOfTurns(r)
  \/ Proceed(r) /\ UNCHANGED pilotVars
  \/ Post(r) \/ Answer(r) \/ CallFails(r) \/ Fail(r)
  \/ ReportSession(r) \/ ReportAttempted(r)

Step(r) == GoOn(r) \/ (BudgetError(r) /\ UNCHANGED pilotVars)

Next == \E r \in Runs : Step(r) \/ Die(r)

Spec == Init /\ [][Next]_vars

(* A run goes on, without an error of the file system to help it out; a       *)
(* request has a timeout.                                                     *)
FairSpec == Spec /\ \A r \in Runs : WF_vars(GoOn(r))

-------------------------------------------------------------------------------
Posts(r) == {i \in DOMAIN log : log[i].run = r}

(* Types.                                                                     *)
TypeOK ==
  /\ ledger \in Ledgers
  /\ lock \in Runs \union {Absent, Stale}
  /\ temp \in Ledgers
  /\ pc \in [Runs -> Places]
  /\ count \in [Runs -> Counts]
  /\ ending \in [Runs -> {"posting", "refused", "escaped"}]
  /\ first \in Counts \union {Invalid}
  /\ before \in [Runs -> Counts]
  /\ turns \in [Runs -> Counts]
  /\ log \in Seq([run : Runs, ticket : 1..Limit])
  /\ captured \in [Runs -> SUBSET (1..Limit)]
  /\ status \in [Runs -> {"incomplete", "max_turns", "complete", "escalated"}]
  /\ failure \in [Runs -> BOOLEAN]
  /\ session \in [Runs -> Counts]
  /\ attempted \in [Runs -> Counts]

(* local_client.py:26: a call is counted before it is sent.  All requests of  *)
(* all runs, those included that failed or whose run died, are in the ledger, *)
(* and so are never more than the limit.                                      *)
CountedBeforeSent ==
  IF Readable THEN first + Len(log) <= Used ELSE log = <<>>

(* The reservation of r is in the ledger and no request has used it.          *)
Granted(r) ==
  pc[r] = "posting" \/ (pc[r] = "unlocking" /\ ending[r] = "posting")

(* The lock, the temporary file and the rename make one step of it: each      *)
(* request is made on a count of its own, which its run took from the ledger  *)
(* when nobody else had taken it, at most once and in no other way            *)
(* (local_client.py:34-54).                                                   *)
Promise == INSTANCE AtomicBudget WITH
  used   <- IF Readable THEN Used ELSE Invalid,
  permit <- [r \in Runs |-> IF Granted(r) THEN count[r] + 1 ELSE 0],
  calls  <- log

BudgetIsAtomic == Promise!Spec

(* local_run.py:76: a run reports at least the calls it sent itself, also     *)
(* when others wrote the ledger in between.                                   *)
ReportCoversOwn ==
  \A r \in Runs : pc[r] = "done" => Cardinality(Posts(r)) <= attempted[r]

(* docs/LOCAL_PILOT.md:48: no automatic retries.  A run without a failure has  *)
(* captured every call it sent, any other run all but the one that ended it.  *)
NoRetry ==
  \A r \in Runs :
    /\ Cardinality(Posts(r)) <= Cardinality(captured[r]) + 1
    /\ pc[r] = "done" /\ ~failure[r] =>
         Cardinality(Posts(r)) = Cardinality(captured[r])

(* local_run.py:30: a run that says it stopped at the call limit has left     *)
(* nothing of the budget.                                                     *)
CallLimitIsReal ==
  \A r \in Runs :
    pc[r] = "done" /\ StoppedAtLimit(r) => session[r] = Limit

(* A run ends, whatever its server, its ledger and other runs do.             *)
RunEnds == \A r \in Runs : <>(pc[r] \in Ended)

===============================================================================

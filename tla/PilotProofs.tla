------------------------------ MODULE PilotProofs -----------------------------
(* For any number of runs and any limit, whatever fails: no request without   *)
(* a count of its own in the ledger, and so never more than the limit (IInv); *)
(* nothing sent twice, and a call limit that is reported is one that was      *)
(* reached (Accounts, on top of IInv).                                        *)
EXTENDS Pilot, FiniteSetTheorems, SequenceTheorems, TLAPS

(* The lock that is there belongs to the one run that is past opening it.     *)
Exclusive == \A r \in Runs : pc[r] \in Reserving \ {"locking"} => lock = r

(* The count read under the lock is still the ledger's.                       *)
CountHeld ==
  \A r \in Runs :
    /\ pc[r] \in {"writing", "filling", "replacing"} =>
         Readable /\ Used = count[r] /\ count[r] < Limit
    /\ pc[r] = "awaiting" => count[r] < Limit

OwnTemp == \A r \in Runs : pc[r] = "replacing" => temp = count[r] + 1

(* Each granted reservation is a count of its own.                            *)
Reservations ==
  \A r \in Runs : Granted(r) =>
    /\ Readable
    /\ first <= count[r] /\ before[r] <= count[r] /\ count[r] + 1 <= Used
    /\ \A i \in DOMAIN log : log[i].ticket # count[r] + 1
    /\ \A q \in Runs : Granted(q) /\ count[q] = count[r] => q = r

(* Each request has a count of its own, taken since its run began.            *)
Requests ==
  /\ \A i \in DOMAIN log :
       /\ Readable
       /\ first < log[i].ticket /\ before[log[i].run] < log[i].ticket
       /\ log[i].ticket <= Used
       /\ pc[log[i].run] # "start"
  /\ \A i, j \in DOMAIN log : log[i].ticket = log[j].ticket => i = j

(* A run that began found a ledger, and a ledger never counts down.           *)
Begun ==
  /\ Readable => first \in Counts /\ first <= Used
  /\ \A r \in Runs : /\ pc[r] \notin {"start"} \union Ended => Readable
                     /\ Readable => before[r] <= Used

IInv ==
  /\ TypeOK
  /\ Exclusive
  /\ CountHeld
  /\ OwnTemp
  /\ Reservations
  /\ Requests
  /\ Begun
  /\ ReportCoversOwn

-------------------------------------------------------------------------------
LEMMA LogTyped ==
  ASSUME log \in Seq([run : Runs, ticket : 1..Limit])
  PROVE  /\ Len(log) \in Nat
         /\ DOMAIN log = 1..Len(log)
         /\ \A i \in DOMAIN log : /\ log[i].run \in Runs
                                  /\ log[i].ticket \in 1..Limit
<1> DEFINE T == [run : Runs, ticket : 1..Limit]
<1>1. \A t \in T : t.run \in Runs /\ t.ticket \in 1..Limit
  OBVIOUS
<1> HIDE DEF T
<1>2. Len(log) \in Nat /\ DOMAIN log = 1..Len(log)
  BY LenProperties DEF T
<1>3. \A i \in 1..Len(log) : log[i] \in T
  BY ElementOfSeq DEF T
<1>4. QED
  BY <1>1, <1>2, <1>3

(* Requests with different counts above a and up to b are at most b - a.      *)
LEMMA DistinctTickets ==
  ASSUME NEW a \in Nat, NEW b \in Nat, a <= b,
         log \in Seq([run : Runs, ticket : 1..Limit]),
         NEW S \in SUBSET DOMAIN log,
         \A i \in S : a < log[i].ticket /\ log[i].ticket <= b,
         \A i, j \in S : log[i].ticket = log[j].ticket => i = j
  PROVE  Cardinality(S) <= b - a
<1> DEFINE f == [i \in S |-> log[i].ticket]
<1>1. f \in Injection(S, (a + 1)..b)
  <2>1. \A i \in S : log[i].ticket \in 1..Limit
    BY LogTyped
  <2>2. \A i \in S : log[i].ticket \in (a + 1)..b
    BY <2>1, BudgetAssumption DEF BudgetAssumption
  <2>3. QED
    BY <2>2 DEF Injection, IsInjective
<1>2. /\ IsFiniteSet((a + 1)..b)
      /\ Cardinality((a + 1)..b) = b - a
  <2>1. a + 1 \in Int /\ b \in Int
    OBVIOUS
  <2>2. /\ IsFiniteSet((a + 1)..b)
        /\ Cardinality((a + 1)..b) = IF a + 1 > b THEN 0 ELSE b - (a + 1) + 1
    BY <2>1, FS_Interval
  <2>3. QED
    BY <2>2
<1> HIDE DEF f
<1>3. QED
  BY <1>1, <1>2, FS_Injection

LEMMA LogCounted ==
  ASSUME IInv, Readable
  PROVE  first + Len(log) <= Used
<1>1. /\ Cardinality(1..Len(log)) = Len(log)
      /\ Len(log) \in Nat
      /\ DOMAIN log = 1..Len(log)
  <2>1. Len(log) \in Nat /\ DOMAIN log = 1..Len(log)
    BY LogTyped DEF IInv, TypeOK
  <2>2. Cardinality(1..Len(log)) = IF 1 > Len(log) THEN 0 ELSE Len(log) - 1 + 1
    BY <2>1, FS_Interval
  <2>3. QED
    BY <2>1, <2>2
<1>2. Used \in Nat /\ first \in Nat /\ first <= Used
  BY BudgetAssumption DEF BudgetAssumption, IInv, TypeOK, Begun, Ledgers, Counts, Readable, Used
<1>3. Cardinality(1..Len(log)) <= Used - first
  BY <1>1, <1>2, DistinctTickets DEF IInv, TypeOK, Requests
<1>4. QED
  BY <1>1, <1>2, <1>3

LEMMA OwnCounted ==
  ASSUME IInv, Readable, NEW r \in Runs
  PROVE  Cardinality(Posts(r)) <= Used - before[r]
<1>1. Used \in Nat /\ before[r] \in Nat /\ before[r] <= Used
  BY BudgetAssumption DEF BudgetAssumption, IInv, TypeOK, Begun, Ledgers, Counts, Readable, Used
<1>2. Posts(r) \in SUBSET DOMAIN log
  BY DEF Posts
<1>3. QED
  BY <1>1, <1>2, DistinctTickets DEF IInv, TypeOK, Requests, Posts

-------------------------------------------------------------------------------
LEMMA InitIInv == Init => IInv
<1> SUFFICES ASSUME Init PROVE IInv
  OBVIOUS
<1> USE BudgetAssumption DEF BudgetAssumption, Init, Ledgers, Counts
<1>1. TypeOK
  BY DEF TypeOK, Places, Used
<1>2. Exclusive /\ CountHeld /\ OwnTemp /\ Reservations
  BY DEF Exclusive, CountHeld, OwnTemp, Reservations, Granted, Reserving
<1>3. Requests /\ Begun /\ ReportCoversOwn
  BY DEF Requests, Begun, ReportCoversOwn, Readable, Used
<1>4. QED
  BY <1>1, <1>2, <1>3 DEF IInv

(* A step that leaves the ledger, the lock and the reservations alone, takes  *)
(* nobody into `reserve` and sends nothing.                                   *)
Elsewhere(r) ==
  /\ UNCHANGED <<reserveVars, first, before, log>>
  /\ pc[r] \notin {"start"} \union Ended \union (Reserving \ {"locking"})
  /\ \E place \in Places \ ({"start", "posting", "awaiting"}
                           \union (Reserving \ {"locking"})) :
       Goto(r, place)

LEMMA ElsewherePreserves ==
  ASSUME IInv, NEW r \in Runs, Elsewhere(r)
  PROVE  /\ Exclusive' /\ CountHeld' /\ OwnTemp'
         /\ Reservations' /\ Requests' /\ Begun'
<1> USE DEF Elsewhere, reserveVars, Goto, IInv, TypeOK
<1>1. Exclusive' /\ CountHeld' /\ OwnTemp'
  BY DEF Exclusive, CountHeld, OwnTemp, Reserving, Places, Readable, Used
<1>2. Reservations'
  BY DEF Reservations, Granted, Reserving, Places, Readable, Used
<1>3. Requests'
  BY DEF Requests, Readable, Used, Ended
<1>4. Begun'
  BY DEF Begun, Readable, Used
<1>5. QED
  BY <1>1, <1>2, <1>3, <1>4

(* What a step of `reserve` leaves alone: the requests and, but for Replace,  *)
(* the ledger.                                                                *)
LEMMA LedgerUnchanged ==
  ASSUME IInv, NEW r \in Runs, UNCHANGED <<ledger, pilotVars>>,
         pc[r] \in Reserving,
         NEW place \in Places \ {"start", "done"}, Goto(r, place)
  PROVE  Requests' /\ Begun' /\ ReportCoversOwn'
<1> USE DEF Goto, pilotVars, IInv, TypeOK
<1>1. Requests'
  BY DEF Requests, Readable, Used
<1>2. Begun'
  BY DEF Begun, Readable, Used, Reserving, Ended
<1>3. ReportCoversOwn'
  BY DEF ReportCoversOwn, Posts
<1>4. QED
  BY <1>1, <1>2, <1>3

(* A reservation stays good while the ledger and the requests stay.           *)
LEMMA ReservationsKept ==
  ASSUME IInv, NEW r \in Runs, UNCHANGED <<ledger, first, before, log>>,
         Granted(r)' => Granted(r) /\ count'[r] = count[r],
         \A q \in Runs \ {r} : /\ pc'[q] = pc[q]
                               /\ ending'[q] = ending[q]
                               /\ count'[q] = count[q]
  PROVE  Reservations'
<1>1. \A q \in Runs : Granted(q)' => Granted(q) /\ count'[q] = count[q]
  BY DEF Granted
<1>2. Readable' = Readable /\ Used' = Used
  BY DEF Readable, Used
<1>3. QED
  BY <1>1, <1>2 DEF IInv, Reservations

LEMMA UsedTyped ==
  ASSUME TypeOK, Readable
  PROVE  Used \in Counts
BY BudgetAssumption DEF BudgetAssumption, TypeOK, Ledgers, Counts, Readable, Used

LEMMA ReservePreserves ==
  ASSUME IInv, NEW r \in Runs, Reserve(r), UNCHANGED pilotVars
  PROVE  IInv'
<1> USE DEF Goto, FinallyUnlock
<1>1. CASE LockBudget(r)
  <2>1. TypeOK'
    BY <1>1 DEF LockBudget, IInv, TypeOK, pilotVars, Places, Reserving, Ended,
                Ledgers
  <2>2. Requests' /\ Begun' /\ ReportCoversOwn'
    BY <1>1, LedgerUnchanged
       DEF LockBudget, IInv, TypeOK, Places, Reserving, Ended
  <2>3. Exclusive' /\ CountHeld' /\ OwnTemp'
    BY <1>1, BudgetAssumption
       DEF BudgetAssumption, LockBudget, IInv, TypeOK, Exclusive, CountHeld, OwnTemp,
           Reserving, Readable, Used
  <2>4. Reservations'
    BY <1>1, ReservationsKept DEF LockBudget, IInv, TypeOK, pilotVars, Granted
  <2>5. QED
    BY <2>1, <2>2, <2>3, <2>4 DEF IInv
<1>2. CASE BudgetLocked(r)
  <2>1. TypeOK'
    BY <1>2 DEF BudgetLocked, reserveVars, IInv, TypeOK, pilotVars, Places, Reserving, Ended,
                Ledgers
  <2>2. Requests' /\ Begun' /\ ReportCoversOwn'
    BY <1>2, LedgerUnchanged
       DEF BudgetLocked, reserveVars, IInv, TypeOK, Places, Reserving, Ended
  <2>3. Exclusive' /\ CountHeld' /\ OwnTemp'
    <3>1. Exclusive'
      BY <1>2 DEF BudgetLocked, reserveVars, IInv, TypeOK, Exclusive, Reserving
    <3>2. CountHeld'
      BY <1>2 DEF BudgetLocked, reserveVars, IInv, TypeOK, CountHeld, Readable, Used
    <3>3. OwnTemp'
      BY <1>2 DEF BudgetLocked, reserveVars, IInv, TypeOK, OwnTemp
    <3>4. QED
      BY <3>1, <3>2, <3>3
  <2>4. Reservations'
    BY <1>2, ReservationsKept DEF BudgetLocked, reserveVars, IInv, TypeOK, pilotVars, Granted
  <2>5. QED
    BY <2>1, <2>2, <2>3, <2>4 DEF IInv
<1>3. CASE ReadCount(r)
  <2>1. CASE UNCHANGED count /\ FinallyUnlock(r, "refused")
    <3>1. TypeOK'
      BY <1>3, <2>1 DEF ReadCount, IInv, TypeOK, pilotVars, Places, Reserving
    <3>2. Requests' /\ Begun' /\ ReportCoversOwn'
      BY <1>3, <2>1, LedgerUnchanged DEF ReadCount, IInv, Places, Reserving, Ended
    <3>3. Exclusive' /\ CountHeld' /\ OwnTemp'
      BY <1>3, <2>1 DEF ReadCount, IInv, TypeOK, Exclusive, CountHeld, OwnTemp,
                        Reserving, Readable, Used
    <3>4. Reservations'
      BY <1>3, <2>1, ReservationsKept
         DEF ReadCount, IInv, TypeOK, pilotVars, Granted
    <3>5. QED
      BY <3>1, <3>2, <3>3, <3>4 DEF IInv
  <2>2. CASE /\ Readable /\ Used < Limit
             /\ count' = [count EXCEPT ![r] = Used]
             /\ Goto(r, "writing")
             /\ UNCHANGED ending
    <3>1. TypeOK'
      BY <1>3, <2>2, UsedTyped DEF ReadCount, IInv, TypeOK, pilotVars, Places, Reserving
    <3>2. Requests' /\ Begun' /\ ReportCoversOwn'
      BY <1>3, <2>2, LedgerUnchanged DEF ReadCount, IInv, Places, Reserving, Ended
    <3>3. Exclusive'
      BY <1>3, <2>2 DEF ReadCount, IInv, TypeOK, Exclusive, Reserving
    <3>4. CountHeld' /\ OwnTemp'
      BY <1>3, <2>2 DEF ReadCount, IInv, TypeOK, CountHeld, OwnTemp, Readable, Used
    <3>5. Reservations'
      BY <1>3, <2>2, ReservationsKept
         DEF ReadCount, IInv, TypeOK, pilotVars, Granted
    <3>6. QED
      BY <3>1, <3>2, <3>3, <3>4, <3>5 DEF IInv
  <2>3. QED
    BY <1>3, <2>1, <2>2 DEF ReadCount
<1>4. CASE TruncateTemp(r)
  <2>1. TypeOK'
    BY <1>4 DEF TruncateTemp, IInv, TypeOK, pilotVars, Places, Reserving, Ended,
                Ledgers
  <2>2. Requests' /\ Begun' /\ ReportCoversOwn'
    BY <1>4, LedgerUnchanged
       DEF TruncateTemp, IInv, TypeOK, Places, Reserving, Ended
  <2>3. Exclusive' /\ CountHeld' /\ OwnTemp'
    BY <1>4 DEF TruncateTemp, IInv, TypeOK, Exclusive, CountHeld, OwnTemp,
                Reserving, Readable, Used
  <2>4. Reservations'
    BY <1>4, ReservationsKept DEF TruncateTemp, IInv, TypeOK, pilotVars, Granted
  <2>5. QED
    BY <2>1, <2>2, <2>3, <2>4 DEF IInv
<1>5. CASE FillTemp(r)
  <2>1. TypeOK'
    <3>1. count[r] + 1 \in Counts
      BY <1>5, BudgetAssumption
         DEF FillTemp, IInv, TypeOK, CountHeld, Counts, BudgetAssumption
    <3>2. QED
      BY <1>5, <3>1
         DEF FillTemp, IInv, TypeOK, pilotVars, Places, Reserving, Ledgers
  <2>2. Requests' /\ Begun' /\ ReportCoversOwn'
    BY <1>5, LedgerUnchanged
       DEF FillTemp, IInv, TypeOK, Places, Reserving, Ended
  <2>3. Exclusive' /\ CountHeld' /\ OwnTemp'
    BY <1>5 DEF FillTemp, IInv, TypeOK, Exclusive, CountHeld, OwnTemp,
                Reserving, Readable, Used
  <2>4. Reservations'
    BY <1>5, ReservationsKept DEF FillTemp, IInv, TypeOK, pilotVars, Granted
  <2>5. QED
    BY <2>1, <2>2, <2>3, <2>4 DEF IInv
<1>6. CASE BudgetError(r)
  <2>1. TypeOK'
    BY <1>6 DEF BudgetError, IInv, TypeOK, pilotVars, Places, Reserving, Ended,
                Ledgers
  <2>2. Requests' /\ Begun' /\ ReportCoversOwn'
    BY <1>6, LedgerUnchanged
       DEF BudgetError, IInv, TypeOK, Places, Reserving, Ended
  <2>3. Exclusive' /\ CountHeld' /\ OwnTemp'
    BY <1>6 DEF BudgetError, IInv, TypeOK, Exclusive, CountHeld, OwnTemp,
                Reserving, Readable, Used
  <2>4. Reservations'
    BY <1>6, ReservationsKept DEF BudgetError, IInv, TypeOK, pilotVars, Granted
  <2>5. QED
    BY <2>1, <2>2, <2>3, <2>4 DEF IInv
<1>7. CASE Unlock(r)
  <2>1. TypeOK'
    BY <1>7 DEF Unlock, IInv, TypeOK, pilotVars, Places, Reserving, Ended,
                Ledgers
  <2>2. Requests' /\ Begun' /\ ReportCoversOwn'
    BY <1>7, LedgerUnchanged
       DEF Unlock, IInv, TypeOK, Places, Reserving, Ended
  <2>3. Exclusive' /\ CountHeld' /\ OwnTemp'
    BY <1>7 DEF Unlock, IInv, TypeOK, Exclusive, CountHeld, OwnTemp,
                Reserving, Readable, Used
  <2>4. Reservations'
    BY <1>7, ReservationsKept DEF Unlock, IInv, TypeOK, pilotVars, Granted
  <2>5. QED
    BY <2>1, <2>2, <2>3, <2>4 DEF IInv
<1>8. CASE Replace(r)
  <2>1. /\ Readable /\ Used = count[r] /\ count[r] < Limit
        /\ Readable' /\ Used' = count[r] + 1
        /\ count[r] \in Nat /\ count[r] + 1 \in Counts
    BY <1>8, BudgetAssumption DEF BudgetAssumption, Replace, IInv, TypeOK, CountHeld, OwnTemp,
                                  Readable, Used, Counts
  <2>2. /\ \A i \in DOMAIN log : log[i].run \in Runs /\ log[i].ticket \in Nat
        /\ \A q \in Runs : count[q] \in Nat /\ before[q] \in Nat
        /\ first \in Nat
    <3>1. \A i \in DOMAIN log : log[i].run \in Runs /\ log[i].ticket \in 1..Limit
      BY LogTyped DEF IInv, TypeOK
    <3>2. \A q \in Runs : count[q] \in Counts /\ before[q] \in Counts
      BY DEF IInv, TypeOK
    <3>3. first \in Counts
      BY <2>1 DEF IInv, Begun
    <3>4. QED
      BY <3>1, <3>2, <3>3, BudgetAssumption DEF BudgetAssumption, Counts
  <2>3. TypeOK'
    BY <1>8, <2>1 DEF Replace, IInv, TypeOK, pilotVars, Places, Reserving, OwnTemp, Ledgers
  <2>4. Exclusive' /\ CountHeld' /\ OwnTemp'
    BY <1>8 DEF Replace, IInv, TypeOK, Exclusive, CountHeld, OwnTemp, Reserving
  <2>5. Reservations'
    <3>1. /\ \A q \in Runs \ {r} : Granted(q)' <=> Granted(q)
          /\ UNCHANGED <<count, first, before, log>>
      BY <1>8 DEF Replace, Granted, pilotVars, IInv, TypeOK
    <3>2. first <= count[r] /\ before[r] <= count[r]
      BY <2>1 DEF IInv, Begun
    <3>3. \A i \in DOMAIN log : log[i].ticket # count[r] + 1
      BY <2>1, <2>2 DEF IInv, Requests
    <3>4. \A q \in Runs \ {r} : Granted(q) => count[q] + 1 <= count[r]
      BY <2>1 DEF IInv, Reservations
    <3>5. \A q \in Runs \ {r} : Granted(q) => count[q] # count[r]
      BY <2>1, <2>2, <3>4
    <3>6. \A q \in Runs \ {r} : Granted(q)' =>
            /\ first <= count[q] /\ before[q] <= count[q]
            /\ count[q] + 1 <= count[r] + 1
            /\ \A i \in DOMAIN log : log[i].ticket # count[q] + 1
            /\ \A p \in Runs \ {r} : Granted(p)' /\ count[p] = count[q] => p = q
      BY <2>2, <3>1, <3>4 DEF IInv, Reservations
    <3>7. QED
      BY <2>1, <2>2, <3>1, <3>2, <3>3, <3>5, <3>6 DEF Reservations
  <2>6. Requests'
    <3>1. UNCHANGED <<first, before, log>>
      BY <1>8 DEF pilotVars
    <3>2. \A q \in Runs : pc[q] # "start" => pc'[q] # "start"
      BY <1>8 DEF Replace, IInv, TypeOK
    <3>3. QED
      BY <2>1, <2>2, <3>1, <3>2 DEF IInv, Requests
  <2>7. Begun'
    <3>1. UNCHANGED <<first, before>>
      BY <1>8 DEF pilotVars
    <3>2. QED
      BY <2>1, <2>2, <3>1 DEF IInv, Begun
  <2>8. ReportCoversOwn'
    BY <1>8 DEF Replace, IInv, TypeOK, ReportCoversOwn, Posts, pilotVars
  <2>9. QED
    BY <2>3, <2>4, <2>5, <2>6, <2>7, <2>8 DEF IInv
<1>9. QED
  BY <1>1, <1>2, <1>3, <1>4, <1>5, <1>6, <1>7, <1>8 DEF Reserve, Proceed

-------------------------------------------------------------------------------
LEMMA BeginPreserves ==
  ASSUME IInv, NEW r \in Runs, Begin(r)
  PROVE  IInv'
<1> USE DEF Goto
<1>1. TypeOK'
  BY UsedTyped DEF Begin, IInv, TypeOK, Places, Ended, reserveVars
<1>2. Exclusive' /\ CountHeld' /\ OwnTemp'
  BY DEF Begin, IInv, TypeOK, Exclusive, CountHeld, OwnTemp, Reserving, Readable,
         Used, reserveVars
<1>3. /\ UNCHANGED <<ledger, count, ending, first, log>>
      /\ \A q \in Runs \ {r} : before'[q] = before[q] /\ pc'[q] = pc[q]
      /\ pc'[r] \in {"looping", "escaped"}
      /\ before'[r] = before[r] \/ (Readable /\ before'[r] = Used)
      /\ pc'[r] = "looping" => Readable
  BY DEF Begin, reserveVars, IInv, TypeOK
<1>4. Readable' = Readable /\ Used' = Used
  BY <1>3 DEF Readable, Used
<1>5. Reservations'
  <2>1. ~Granted(r)' /\ \A q \in Runs \ {r} : Granted(q)' <=> Granted(q)
    BY <1>3 DEF Granted
  <2>2. QED
    BY <1>3, <1>4, <2>1 DEF IInv, Reservations
<1>6. Requests'
  <2>1. \A i \in DOMAIN log : log[i].run \in Runs \ {r}
    BY LogTyped DEF IInv, TypeOK, Requests, Begin
  <2>2. QED
    BY <1>3, <1>4, <2>1 DEF IInv, Requests
<1>7. Begun'
  <2>1. Readable => Used <= Used
    BY UsedTyped, BudgetAssumption DEF IInv, Counts, BudgetAssumption
  <2>2. QED
    BY <1>3, <1>4, <2>1 DEF IInv, Begun, Ended
<1>8. ReportCoversOwn'
  BY <1>3 DEF Begin, IInv, ReportCoversOwn, Posts
<1>9. QED
  BY <1>1, <1>2, <1>5, <1>6, <1>7, <1>8 DEF IInv

(* One request more, at the end of the log.                                   *)
LEMMA PostAppends ==
  ASSUME IInv, NEW r \in Runs, Post(r)
  PROVE  /\ log' \in Seq([run : Runs, ticket : 1..Limit])
         /\ Len(log) + 1 \notin DOMAIN log
         /\ DOMAIN log' = DOMAIN log \union {Len(log) + 1}
         /\ \A i \in DOMAIN log : log'[i] = log[i]
         /\ log'[Len(log) + 1].run = r
         /\ log'[Len(log) + 1].ticket = count[r] + 1
<1> DEFINE e == [run |-> r, ticket |-> count[r] + 1]
           T == [run : Runs, ticket : 1..Limit]
<1>1. e \in T
  <2>1. Readable /\ count[r] + 1 <= Used
    BY DEF IInv, Reservations, Granted, Post
  <2>2. count[r] \in Counts /\ Used \in Counts
    BY <2>1, UsedTyped DEF IInv, TypeOK
  <2>3. QED
    BY <2>1, <2>2, BudgetAssumption DEF BudgetAssumption, Counts
<1>2. e.run = r /\ e.ticket = count[r] + 1
  OBVIOUS
<1>3. log \in Seq(T) /\ log' = Append(log, e)
  BY DEF IInv, TypeOK, Post
<1> HIDE DEF e, T
<1>4. /\ log' \in Seq(T)
      /\ Len(log) \in Nat /\ DOMAIN log = 1..Len(log)
      /\ DOMAIN log' = 1..(Len(log) + 1)
      /\ \A i \in 1..Len(log) : log'[i] = log[i]
      /\ log'[Len(log) + 1] = e
  <2>1. Len(log) \in Nat /\ DOMAIN log = 1..Len(log)
    BY <1>3, LenProperties
  <2>2. /\ log' \in Seq(T)
        /\ Len(log') = Len(log) + 1
        /\ \A i \in 1..Len(log) : log'[i] = log[i]
        /\ log'[Len(log) + 1] = e
    BY <1>1, <1>3, AppendProperties
  <2>3. DOMAIN log' = 1..(Len(log) + 1)
    BY <2>2, LenProperties
  <2>4. QED
    BY <2>1, <2>2, <2>3
<1>5. 1..(Len(log) + 1) = (1..Len(log)) \union {Len(log) + 1}
  BY <1>4
<1>6. QED
  BY <1>2, <1>4, <1>5 DEF T

LEMMA PostPreserves ==
  ASSUME IInv, NEW r \in Runs, Post(r)
  PROVE  IInv'
<1> DEFINE new == Len(log) + 1
<1>1. /\ Readable /\ Used \in Nat /\ count[r] \in Nat /\ count[r] + 1 \in 1..Limit
      /\ first <= count[r] /\ before[r] <= count[r] /\ count[r] + 1 <= Used
      /\ first \in Nat /\ before[r] \in Nat
  <2>1. Granted(r)
    BY DEF Post, Granted
  <2>2. /\ Readable
        /\ first <= count[r] /\ before[r] <= count[r] /\ count[r] + 1 <= Used
    BY <2>1 DEF IInv, Reservations
  <2>3. count[r] \in Counts /\ before[r] \in Counts /\ first \in Counts /\ Used \in Counts
    BY <2>2, UsedTyped DEF IInv, TypeOK, Begun
  <2>4. QED
    BY <2>2, <2>3, BudgetAssumption DEF BudgetAssumption, Counts
<1>2. /\ log' \in Seq([run : Runs, ticket : 1..Limit])
      /\ new \notin DOMAIN log /\ DOMAIN log' = DOMAIN log \union {new}
      /\ \A i \in DOMAIN log : log'[i] = log[i]
      /\ log'[new].run = r /\ log'[new].ticket = count[r] + 1
  BY PostAppends
<1> HIDE DEF new
<1>3. /\ UNCHANGED <<reserveVars, first, before, turns, captured, status,
                     failure, session, attempted>>
      /\ pc' = [pc EXCEPT ![r] = "awaiting"]
      /\ pc[r] = "posting"
  BY DEF Post, Goto
<1>4. TypeOK'
  BY <1>2, <1>3 DEF IInv, TypeOK, Places, reserveVars
<1>5. Exclusive' /\ CountHeld' /\ OwnTemp'
  BY <1>1, <1>3, BudgetAssumption
     DEF BudgetAssumption, IInv, TypeOK, Exclusive, CountHeld, OwnTemp, Reserving,
         Readable, Used, reserveVars
<1>6. Readable' = Readable /\ Used' = Used /\ UNCHANGED <<count, ending, first, before>>
  BY <1>3 DEF Readable, Used, reserveVars
<1>7. \A q \in Runs : pc'[q] = IF q = r THEN "awaiting" ELSE pc[q]
  BY <1>3 DEF IInv, TypeOK
<1>8. Reservations'
  <2>1. ~Granted(r)' /\ \A q \in Runs \ {r} : Granted(q)' <=> Granted(q)
    BY <1>6, <1>7 DEF Granted
  <2>2. \A q \in Runs \ {r} : Granted(q) => count[q] # count[r]
    BY <1>3 DEF IInv, Reservations, Granted
  <2>3. \A q \in Runs : count[q] \in Nat
    BY BudgetAssumption DEF BudgetAssumption, IInv, TypeOK, Counts
  <2>4. \A q \in Runs \ {r} : Granted(q) =>
          \A i \in DOMAIN log' : log'[i].ticket # count[q] + 1
    BY <1>1, <1>2, <2>2, <2>3 DEF IInv, Reservations
  <2>5. QED
    BY <1>6, <2>1, <2>4 DEF IInv, Reservations
<1>9. Requests'
  <2>1. \A i \in DOMAIN log : log[i].run \in Runs
    BY LogTyped DEF IInv, TypeOK
  <2>2. \A i \in DOMAIN log' :
          /\ Readable
          /\ first < log'[i].ticket /\ before[log'[i].run] < log'[i].ticket
          /\ log'[i].ticket <= Used
          /\ pc'[log'[i].run] # "start"
    BY <1>1, <1>2, <1>7, <2>1 DEF IInv, Requests
  <2>3. \A i \in DOMAIN log : log[i].ticket # count[r] + 1
    BY <1>3 DEF IInv, Reservations, Granted
  <2>4. \A i, j \in DOMAIN log' : log'[i].ticket = log'[j].ticket => i = j
    BY <1>2, <2>3 DEF IInv, Requests
  <2>5. QED
    BY <1>6, <2>2, <2>4 DEF Requests
<1>10. Begun'
  BY <1>1, <1>6, <1>7 DEF IInv, Begun
<1>11. ReportCoversOwn'
  <2>1. \A q \in Runs \ {r} : Posts(q)' = Posts(q)
    BY <1>2 DEF Posts
  <2>2. attempted' = attempted
    BY <1>3
  <2>3. QED
    BY <1>7, <2>1, <2>2 DEF IInv, ReportCoversOwn
<1>12. QED
  BY <1>4, <1>5, <1>8, <1>9, <1>10, <1>11 DEF IInv

(* Steps that change neither the files nor the requests.                      *)
LEMMA QuietPreserves ==
  ASSUME IInv, NEW r \in Runs,
         Turn(r) \/ OutOfTurns(r) \/ Answer(r) \/ CallFails(r) \/ Fail(r) \/ ReportSession(r)
  PROVE  IInv'
<1> USE DEF Turn, OutOfTurns, Answer, CallFails, Fail, ReportSession, EndLoop, Goto,
            pilotVars
<1>1. TypeOK'
  PROOF
  <2>1. CASE Turn(r)
    <3>1. turns[r] + 1 \in Counts
      <4>1. turns[r] \in Counts /\ before[r] \in Counts /\ turns[r] < MaxTurns(r)
        BY <2>1 DEF IInv, TypeOK
      <4>2. QED
        BY <4>1, BudgetAssumption DEF BudgetAssumption, MaxTurns, Counts
    <3>2. QED
      BY <2>1, <3>1 DEF IInv, TypeOK, Places, Reserving, Ended, reserveVars
  <2>2. CASE Answer(r)
    <3>1. count[r] + 1 \in 1..Limit
      BY <2>2, BudgetAssumption
         DEF BudgetAssumption, IInv, TypeOK, CountHeld, Counts
    <3>2. QED
      BY <2>2, <3>1 DEF IInv, TypeOK, Places, reserveVars
  <2>3. CASE OutOfTurns(r) \/ CallFails(r) \/ Fail(r)
    BY <2>3 DEF IInv, TypeOK, Places, reserveVars
  <2>4. CASE ReportSession(r)
    BY <2>4, UsedTyped DEF IInv, TypeOK, Places, Ended, reserveVars
  <2>5. QED
    BY <2>1, <2>2, <2>3, <2>4
<1>2. Elsewhere(r)
  BY DEF Elsewhere, Places, Reserving, Ended
<1>3. ReportCoversOwn'
  <2>1. log' = log /\ attempted' = attempted
    OBVIOUS
  <2>2. \A q \in Runs : pc'[q] = "done" => pc[q] = "done"
    BY DEF IInv, TypeOK
  <2>3. QED
    BY <2>1, <2>2 DEF IInv, ReportCoversOwn, Posts
<1>4. QED
  BY <1>1, <1>2, <1>3, ElsewherePreserves DEF IInv

LEMMA ReportPreserves ==
  ASSUME IInv, NEW r \in Runs, ReportAttempted(r)
  PROVE  IInv'
<1> USE DEF ReportAttempted, Goto
<1>1. Readable => Used - before[r] \in Counts
  BY UsedTyped, BudgetAssumption DEF BudgetAssumption, IInv, TypeOK, Begun, Counts
<1>2. TypeOK'
  BY <1>1 DEF IInv, TypeOK, Places, Ended, reserveVars
<1>3. Elsewhere(r)
  BY DEF Elsewhere, Places, Reserving, Ended
<1>4. ReportCoversOwn'
  <2>1. \A q \in Runs : Posts(q)' = Posts(q)
    BY DEF Posts
  <2>2. QED
    BY <2>1, OwnCounted DEF IInv, TypeOK, ReportCoversOwn
<1>5. QED
  BY <1>2, <1>3, <1>4, ElsewherePreserves DEF IInv

LEMMA DiePreserves ==
  ASSUME IInv, NEW r \in Runs, Die(r)
  PROVE  IInv'
<1> USE DEF Die, Goto, pilotVars, reserveVars, IInv, TypeOK
<1>1. TypeOK'
  BY DEF Places, Ended
<1>2. Exclusive' /\ CountHeld' /\ OwnTemp'
  BY DEF Exclusive, CountHeld, OwnTemp, Reserving, Readable, Used
<1>3. Reservations'
  BY ReservationsKept DEF Granted
<1>4. Requests' /\ Begun'
  BY DEF Requests, Begun, Readable, Used, Ended
<1>5. ReportCoversOwn'
  BY DEF ReportCoversOwn, Posts
<1>6. QED
  BY <1>1, <1>2, <1>3, <1>4, <1>5

(* The inductive invariant holds in every reachable state.                    *)
THEOREM PilotInvariant == Spec => []IInv
<1>1. ASSUME IInv, [Next]_vars
      PROVE  IInv'
  <2>1. CASE UNCHANGED vars
    BY <1>1, <2>1 DEF vars, budgetVars, reserveVars, pilotVars, IInv, TypeOK, Exclusive,
                      CountHeld, OwnTemp, Reservations, Granted, Requests, Begun,
                      ReportCoversOwn, Posts, Readable, Used
  <2>2. ASSUME NEW r \in Runs, Step(r) \/ Die(r)
        PROVE  IInv'
    BY <1>1, <2>2, ReservePreserves, BeginPreserves, PostPreserves, QuietPreserves,
       ReportPreserves, DiePreserves DEF Step, GoOn, Reserve
  <2>3. QED
    BY <1>1, <2>1, <2>2 DEF Next
<1>2. QED
  BY <1>1, InitIInv, PTL DEF Spec

(* Types.                                                                     *)
THEOREM PilotTypes == Spec => []TypeOK
BY PilotInvariant, PTL DEF IInv

(* local_client.py:26: every request of every run is counted before it is     *)
(* sent, so the session never sends more requests than the ledger counts, and *)
(* never more than the limit.                                                 *)
THEOREM CallsAreCounted == Spec => []CountedBeforeSent
<1>1. IInv => CountedBeforeSent
  <2> SUFFICES ASSUME IInv PROVE CountedBeforeSent
    OBVIOUS
  <2>1. CASE Readable
    BY <2>1, LogCounted DEF CountedBeforeSent
  <2>2. CASE ~Readable
    <3>1. DOMAIN log = {}
      BY <2>2 DEF IInv, Requests
    <3>2. log = <<>>
      BY <3>1, LogTyped DEF IInv, TypeOK
    <3>3. QED
      BY <2>2, <3>2 DEF CountedBeforeSent
  <2>3. QED
    BY <2>1, <2>2
<1>2. QED
  BY <1>1, PilotInvariant, PTL

(* local_run.py:76: a report never says less than the run has sent.           *)
THEOREM ReportsCover == Spec => []ReportCoversOwn
BY PilotInvariant, PTL DEF IInv

(* The ledger only ever counts one more call, under the lock.                 *)
LedgerCounts ==
  [][ledger' # ledger => /\ Readable
                         /\ ledger' = Used + 1
                         /\ lock \in Runs]_vars

(* The ledger counts one call at a time, under the lock, and is never reset.  *)
THEOREM LedgerOnlyCounts == Spec => LedgerCounts
<1>1. ASSUME IInv, [Next]_vars
      PROVE  ledger' # ledger => /\ Readable
                                /\ ledger' = Used + 1
                                /\ lock \in Runs
  <2> SUFFICES ASSUME ledger' # ledger
               PROVE  Readable /\ ledger' = Used + 1 /\ lock \in Runs
    OBVIOUS
  <2>1. PICK r \in Runs : Replace(r)
    BY <1>1 DEF Next, Step, GoOn, Die, Proceed, LockBudget, BudgetLocked, ReadCount,
                TruncateTemp, FillTemp, BudgetError, Unlock, Begin, Turn, OutOfTurns,
                Post, Answer, CallFails, Fail, ReportSession, ReportAttempted,
                vars, budgetVars, reserveVars
  <2>2. QED
    BY <1>1, <2>1 DEF IInv, Replace, CountHeld, OwnTemp, Exclusive, Reserving
<1>2. QED
  BY <1>1, PilotInvariant, PTL DEF Spec, LedgerCounts

(* A step of r that does not count, send or take a reservation.               *)
LEMMA QuietIsDropOrStutter ==
  ASSUME IInv, NEW r \in Runs, UNCHANGED <<ledger, log>>,
         Granted(r)' => Granted(r) /\ count'[r] = count[r],
         \A q \in Runs \ {r} : /\ pc'[q] = pc[q]
                               /\ ending'[q] = ending[q]
                               /\ count'[q] = count[q]
  PROVE  [Promise!Next]_(Promise!vars)
<1> DEFINE Permit == [q \in Runs |-> IF Granted(q) THEN count[q] + 1 ELSE 0]
           Known == IF Readable THEN Used ELSE Invalid
<1>1. Known' = Known /\ log' = log
  BY DEF Readable, Used
<1>2. \A q \in Runs \ {r} : Permit'[q] = Permit[q]
  BY DEF Granted
<1>3. CASE Granted(r)' <=> Granted(r)
  <2>1. Permit' = Permit
    BY <1>2, <1>3
  <2>2. QED
    BY <1>1, <2>1 DEF Promise!vars
<1>4. CASE Granted(r) /\ ~Granted(r)'
  <2>1. Permit[r] # 0 /\ Permit'[r] = 0
    BY <1>4, BudgetAssumption DEF BudgetAssumption, IInv, TypeOK, Counts
  <2>2. Permit' = [Permit EXCEPT ![r] = 0]
    BY <1>2, <2>1
  <2>3. Promise!Drop(r)
    BY <1>1, <2>1, <2>2 DEF Promise!Drop
  <2>4. QED
    BY <2>3 DEF Promise!Next
<1>5. QED
  BY <1>3, <1>4

LEMMA ReplaceReserves ==
  ASSUME IInv, NEW r \in Runs, Replace(r), UNCHANGED pilotVars
  PROVE  Promise!Reserve(r)
<1> DEFINE Permit == [q \in Runs |-> IF Granted(q) THEN count[q] + 1 ELSE 0]
           Known == IF Readable THEN Used ELSE Invalid
<1>1. /\ Readable /\ Used = count[r] /\ count[r] < Limit /\ count[r] \in Nat
      /\ ledger' = count[r] + 1 /\ log' = log
      /\ ~Granted(r) /\ Granted(r)'
      /\ UNCHANGED count
      /\ \A q \in Runs \ {r} : pc'[q] = pc[q] /\ ending'[q] = ending[q]
  BY DEF Replace, FinallyUnlock, Goto, IInv, TypeOK, CountHeld, OwnTemp,
         Granted, Counts, pilotVars
<1>2. Known = count[r] /\ Known' = count[r] + 1
  BY <1>1, BudgetAssumption DEF BudgetAssumption, Readable, Used
<1>3. Permit[r] = 0 /\ Permit' = [Permit EXCEPT ![r] = count[r] + 1]
  <2>1. \A q \in Runs \ {r} : Granted(q)' <=> Granted(q)
    BY <1>1 DEF Granted
  <2>2. QED
    BY <1>1, <2>1
<1>4. Known \in 0..(Limit - 1)
  BY <1>1, <1>2, BudgetAssumption DEF BudgetAssumption
<1>5. QED
  BY <1>1, <1>2, <1>3, <1>4 DEF Promise!Reserve

LEMMA PostCalls ==
  ASSUME IInv, NEW r \in Runs, Post(r)
  PROVE  Promise!Call(r)
<1> DEFINE Permit == [q \in Runs |-> IF Granted(q) THEN count[q] + 1 ELSE 0]
           Known == IF Readable THEN Used ELSE Invalid
<1>1. /\ Granted(r) /\ ~Granted(r)'
      /\ log' = Append(log, [run |-> r, ticket |-> count[r] + 1])
      /\ UNCHANGED <<ledger, count, ending>>
      /\ \A q \in Runs \ {r} : pc'[q] = pc[q]
  BY DEF Post, Goto, IInv, TypeOK, Granted, reserveVars
<1>2. Permit[r] = count[r] + 1 /\ count[r] + 1 # 0
  BY <1>1, BudgetAssumption DEF BudgetAssumption, IInv, TypeOK, Counts
<1>3. Permit' = [Permit EXCEPT ![r] = 0]
  BY <1>1 DEF Granted
<1>4. Known' = Known
  BY <1>1 DEF Readable, Used
<1>5. QED
  BY <1>1, <1>2, <1>3, <1>4 DEF Promise!Call

(* The budget keeps the promise of AtomicBudget, for any number of runs and   *)
(* any limit: reserve counts in one step, by its rename, whatever fails or    *)
(* dies around it, and a request uses what its run reserved                   *)
(* (local_client.py:26-54).                                                   *)
THEOREM BudgetKeepsPromise == Spec => BudgetIsAtomic
<1>1. Init => Promise!Init
  <2> SUFFICES ASSUME Init PROVE Promise!Init
    OBVIOUS
  <2>1. \A r \in Runs : ~Granted(r)
    BY DEF Init, Granted
  <2>2. (IF Readable THEN Used ELSE Invalid) \in 0..Limit \union {Invalid}
    BY BudgetAssumption
       DEF BudgetAssumption, Init, Ledgers, Counts, Readable, Used
  <2>3. QED
    BY <2>1, <2>2 DEF Init, Promise!Init
<1>2. ASSUME IInv, [Next]_vars
      PROVE  [Promise!Next]_(Promise!vars)
  <2>1. CASE UNCHANGED vars
    <3>1. UNCHANGED <<ledger, log, pc, ending, count>>
      BY <2>1 DEF vars, budgetVars, reserveVars, pilotVars
    <3>2. QED
      BY <3>1 DEF Promise!vars, Readable, Used, Granted
  <2>2. ASSUME NEW r \in Runs, Step(r) \/ Die(r)
        PROVE  [Promise!Next]_(Promise!vars)
    <3>1. CASE Replace(r) /\ UNCHANGED pilotVars
      BY <1>2, <3>1, ReplaceReserves DEF Promise!Next
    <3>2. CASE Post(r)
      BY <1>2, <3>2, PostCalls DEF Promise!Next
    <3>3. CASE ~Post(r) /\ ~(Replace(r) /\ UNCHANGED pilotVars)
      <4>1. UNCHANGED <<ledger, log>>
        BY <2>2, <3>3
           DEF Step, GoOn, Die, Proceed, LockBudget, BudgetLocked, ReadCount,
               TruncateTemp, FillTemp, BudgetError, Unlock, Begin, Turn,
               OutOfTurns, Answer, CallFails, Fail, ReportSession,
               ReportAttempted, reserveVars, pilotVars
      <4>2. Granted(r)' => Granted(r) /\ count'[r] = count[r]
        BY <1>2, <2>2, <3>3
           DEF Step, GoOn, Die, Proceed, LockBudget, BudgetLocked, ReadCount,
               TruncateTemp, FillTemp, BudgetError, Unlock, Begin, Turn,
               OutOfTurns, Answer, CallFails, Fail, ReportSession,
               ReportAttempted, reserveVars, pilotVars, Goto, FinallyUnlock,
               EndLoop, Granted, IInv, TypeOK
      <4>3. \A q \in Runs \ {r} : /\ pc'[q] = pc[q]
                                  /\ ending'[q] = ending[q]
                                  /\ count'[q] = count[q]
        BY <1>2, <2>2, <3>3
           DEF Step, GoOn, Die, Proceed, LockBudget, BudgetLocked, ReadCount,
               TruncateTemp, FillTemp, BudgetError, Unlock, Begin, Turn,
               OutOfTurns, Answer, CallFails, Fail, ReportSession,
               ReportAttempted, reserveVars, pilotVars, Goto, FinallyUnlock,
               EndLoop, IInv, TypeOK
      <4>4. QED
        BY <1>2, <4>1, <4>2, <4>3, QuietIsDropOrStutter
    <3>4. QED
      BY <3>1, <3>2, <3>3
  <2>3. QED
    BY <1>2, <2>1, <2>2 DEF Next
<1>3. QED
  BY <1>1, <1>2, PilotInvariant, PTL DEF Spec, BudgetIsAtomic, Promise!Spec

-------------------------------------------------------------------------------
(* What the server was sent against what the run knows of it.  A request of r *)
(* that it has captured nothing of:                                           *)
Lost(r) == {i \in Posts(r) : log[i].ticket \notin captured[r]}

(* Only what was sent is captured, and at most the last request is not: the   *)
(* one r waits for, or the one whose loss has ended it.                       *)
Tracked(r) ==
  /\ \A t \in captured[r] : \E i \in Posts(r) : log[i].ticket = t
  /\ \A i, j \in Lost(r) : i = j
  /\ Lost(r) # {} =>
       \/ pc[r] \in {"awaiting", "refused", "escaped", "died"}
       \/ failure[r] /\ pc[r] \in {"reporting", "subtracting", "done"}
  /\ pc[r] = "awaiting" => \E i \in Lost(r) : log[i].ticket = count[r] + 1

(* Each turn that is over has sent one request; the one in `reserve` is still *)
(* to send its own.                                                           *)
Turned(r) ==
  /\ pc[r] \in {"start", "looping", "awaiting"} =>
       Cardinality(Posts(r)) = turns[r]
  /\ pc[r] \in Reserving \union {"posting"} =>
       Cardinality(Posts(r)) + 1 = turns[r]

(* Out of turns is out of budget, for good.                                   *)
Stopped(r) ==
  /\ pc[r] \notin {"reporting", "subtracting"} \union Ended =>
       status[r] = "incomplete"
  /\ status[r] = "max_turns" =>
       /\ pc[r] = "reporting" => Readable /\ Used = Limit
       /\ pc[r] \in {"subtracting", "done"} => session[r] = Limit

Accounts == \A r \in Runs : Tracked(r) /\ Turned(r) /\ Stopped(r)

-------------------------------------------------------------------------------
LEMMA PostsFinite ==
  ASSUME TypeOK, NEW r \in Runs
  PROVE  IsFiniteSet(Posts(r)) /\ Cardinality(Posts(r)) \in Nat
<1>1. Len(log) \in Nat /\ DOMAIN log = 1..Len(log)
  BY LogTyped DEF TypeOK
<1>2. IsFiniteSet(1..Len(log))
  BY <1>1, FS_Interval
<1>3. QED
  BY <1>1, <1>2, FS_Subset, FS_CardinalityType DEF Posts

(* What a run has captured, and what it lost, is what it sent.                *)
LEMMA SentIsKnown ==
  ASSUME IInv, NEW r \in Runs, Tracked(r)
  PROVE  /\ Cardinality(Posts(r)) <= Cardinality(captured[r]) + 1
         /\ Lost(r) = {} => Cardinality(Posts(r)) = Cardinality(captured[r])
         /\ Cardinality(Posts(r)) \in Nat /\ Cardinality(captured[r]) \in Nat
<1> DEFINE K == Posts(r) \ Lost(r)
           f == [i \in K |-> log[i].ticket]
<1>1. IsFiniteSet(Posts(r)) /\ Cardinality(Posts(r)) \in Nat
  BY PostsFinite DEF IInv
<1>2. IsFiniteSet(K) /\ IsFiniteSet(Lost(r)) /\ Posts(r) = K \union Lost(r)
  BY <1>1, FS_Subset DEF Lost
<1>3. f \in Bijection(K, captured[r])
  <2>1. \A i \in K : f[i] \in captured[r]
    BY DEF Lost
  <2>2. \A i, j \in K : f[i] = f[j] => i = j
    BY DEF IInv, Requests, Posts
  <2>3. \A t \in captured[r] : \E i \in K : f[i] = t
    BY DEF Tracked, Lost
  <2> HIDE DEF K
  <2>4. f \in [K -> captured[r]]
    BY <2>1
  <2>5. QED
    BY <2>2, <2>3, <2>4 DEF Bijection, Injection, IsInjective, Surjection
<1>4. /\ IsFiniteSet(captured[r])
      /\ Cardinality(captured[r]) = Cardinality(K) /\ Cardinality(K) \in Nat
  <2> HIDE DEF f, K
  <2>1. QED
    BY <1>2, <1>3, FS_Bijection, FS_CardinalityType DEF ExistsBijection
<1>5. Cardinality(Lost(r)) <= 1 /\ Cardinality(Lost(r)) \in Nat
  <2>1. CASE Lost(r) = {}
    BY <2>1, FS_EmptySet
  <2>2. CASE Lost(r) # {}
    <3>1. PICK i : Lost(r) = {i}
      BY <2>2 DEF Tracked
    <3>2. QED
      BY <3>1, FS_Singleton
  <2>3. QED
    BY <2>1, <2>2
<1>6. Cardinality(Posts(r)) <= Cardinality(K) + Cardinality(Lost(r))
  <2>1. K \intersect Lost(r) = {}
    OBVIOUS
  <2> HIDE DEF K
  <2>2. Cardinality(Posts(r)) =
          Cardinality(K) + Cardinality(Lost(r)) - Cardinality(K \intersect Lost(r))
    BY <1>2, FS_Union
  <2>3. Cardinality({}) = 0
    BY FS_EmptySet
  <2>4. QED
    BY <1>1, <1>4, <1>5, <2>1, <2>2, <2>3
<1>7. Lost(r) = {} => K = Posts(r)
  OBVIOUS
<1> HIDE DEF K
<1>8. QED
  BY <1>1, <1>4, <1>5, <1>6, <1>7

-------------------------------------------------------------------------------
(* A budget that is used up stays used up.                                    *)
LEMMA LimitIsFinal ==
  ASSUME IInv, NEW r \in Runs, Step(r) \/ Die(r), Readable, Used = Limit
  PROVE  Readable' /\ Used' = Limit
<1>1. ~Replace(r)
  BY BudgetAssumption DEF BudgetAssumption, IInv, CountHeld, Replace
<1>2. ledger' = ledger
  BY <1>1 DEF Step, GoOn, Die, Proceed, LockBudget, BudgetLocked, ReadCount,
              TruncateTemp, FillTemp, BudgetError, Unlock, Begin, Turn, OutOfTurns,
              Post, Answer, CallFails, Fail, ReportSession, ReportAttempted,
              reserveVars
<1>3. QED
  BY <1>2 DEF Readable, Used

(* What a step leaves of what the invariant says of run q.                    *)
Untouched(q) ==
  /\ Posts(q)' = Posts(q) /\ \A i \in Posts(q) : log'[i] = log[i]
  /\ captured'[q] = captured[q]
  /\ pc'[q] = pc[q] /\ count'[q] = count[q] /\ turns'[q] = turns[q]
  /\ status'[q] = status[q] /\ failure'[q] = failure[q]
  /\ session'[q] = session[q]
  /\ Readable /\ Used = Limit => Readable' /\ Used' = Limit

LEMMA UntouchedKeeps ==
  ASSUME NEW q \in Runs, Untouched(q), Tracked(q), Turned(q), Stopped(q)
  PROVE  Tracked(q)' /\ Turned(q)' /\ Stopped(q)'
<1>1. Lost(q)' = Lost(q) /\ \A i \in Lost(q) : log'[i] = log[i]
  BY DEF Untouched, Lost
<1>2. Tracked(q)'
  BY <1>1 DEF Tracked, Untouched
<1>3. Turned(q)'
  BY DEF Turned, Untouched
<1>4. Stopped(q)'
  BY DEF Stopped, Untouched
<1>5. QED
  BY <1>2, <1>3, <1>4

LEMMA OthersUntouched ==
  ASSUME IInv, NEW r \in Runs, Step(r) \/ Die(r), NEW q \in Runs \ {r}
  PROVE  Untouched(q)
<1>1. Posts(q)' = Posts(q) /\ \A i \in Posts(q) : log'[i] = log[i]
  <2>1. CASE Post(r)
    BY <2>1, PostAppends DEF Posts
  <2>2. CASE log' = log
    BY <2>2 DEF Posts
  <2>3. QED
    BY <2>1, <2>2
       DEF Step, GoOn, Die, Proceed, BudgetError, Begin, Turn, OutOfTurns,
           Answer, CallFails, Fail, ReportSession, ReportAttempted, pilotVars
<1>2. /\ pc'[q] = pc[q] /\ count'[q] = count[q]
  BY DEF IInv, TypeOK, Goto, FinallyUnlock, EndLoop, Step, GoOn, Die, Proceed,
         LockBudget, BudgetLocked, ReadCount, TruncateTemp, FillTemp, Replace, BudgetError, Unlock, Begin, Turn, OutOfTurns,
         Post, Answer, CallFails, Fail, ReportSession, ReportAttempted,
         reserveVars
<1>3. /\ captured'[q] = captured[q] /\ turns'[q] = turns[q]
      /\ status'[q] = status[q] /\ failure'[q] = failure[q]
      /\ session'[q] = session[q]
  BY DEF IInv, TypeOK, EndLoop, Step, GoOn, Die, Begin, Turn, OutOfTurns,
         Post, Answer, CallFails, Fail, ReportSession, ReportAttempted,
         pilotVars
<1>4. QED
  BY <1>1, <1>2, <1>3, LimitIsFinal DEF Untouched

-------------------------------------------------------------------------------
(* A step of r that neither sends nor captures.                               *)
LEMMA SilentTracked ==
  ASSUME NEW r \in Runs, Tracked(r), UNCHANGED <<log, captured>>,
         pc'[r] # "awaiting",
         Lost(r) # {} =>
           \/ pc'[r] \in {"refused", "escaped", "died"}
           \/ failure'[r] /\ pc'[r] \in {"reporting", "subtracting", "done"}
  PROVE  Tracked(r)' /\ Posts(r)' = Posts(r)
<1>1. Posts(r)' = Posts(r) /\ Lost(r)' = Lost(r)
  BY DEF Posts, Lost
<1>2. QED
  BY <1>1 DEF Tracked

LEMMA PostKeeps ==
  ASSUME IInv, NEW r \in Runs, Post(r), Tracked(r), Turned(r), Stopped(r)
  PROVE  Tracked(r)' /\ Turned(r)' /\ Stopped(r)'
<1> DEFINE new == Len(log) + 1
<1>1. /\ new \notin DOMAIN log /\ DOMAIN log' = DOMAIN log \union {new}
      /\ \A i \in DOMAIN log : log'[i] = log[i]
      /\ log'[new].run = r /\ log'[new].ticket = count[r] + 1
  BY PostAppends
<1> HIDE DEF new
<1>2. /\ pc[r] = "posting" /\ pc'[r] = "awaiting"
      /\ UNCHANGED <<captured, count, turns, status, failure, session, ledger>>
  BY DEF Post, Goto, reserveVars, IInv, TypeOK
<1>3. Posts(r)' = Posts(r) \union {new} /\ new \notin Posts(r)
  BY <1>1 DEF Posts
<1>4. \A i \in DOMAIN log : log[i].ticket # count[r] + 1
  BY <1>2 DEF IInv, Reservations, Granted
<1>5. count[r] + 1 \notin captured[r]
  BY <1>4 DEF Tracked, Posts
<1>6. Lost(r) = {}
  BY <1>2 DEF Tracked
<1>7. Lost(r)' = {new}
  <2>1. \A i \in Posts(r) : log[i].ticket \in captured[r] /\ log'[i] = log[i]
    BY <1>1, <1>6 DEF Lost, Posts
  <2>2. QED
    BY <1>1, <1>2, <1>3, <1>5, <2>1 DEF Lost
<1>8. Tracked(r)'
  <2>1. \A t \in captured[r] : \E i \in Posts(r)' : log'[i].ticket = t
    BY <1>1, <1>3 DEF Tracked, Posts
  <2>2. QED
    BY <1>1, <1>2, <1>7, <2>1 DEF Tracked
<1>9. Turned(r)'
  <2>1. IsFiniteSet(Posts(r)) /\ Cardinality(Posts(r)) \in Nat
    BY PostsFinite DEF IInv
  <2>2. Cardinality(Posts(r) \union {new}) = Cardinality(Posts(r)) + 1
    BY <1>3, <2>1, FS_AddElement
  <2>3. Cardinality(Posts(r)) + 1 = turns[r]
    BY <1>2 DEF Turned
  <2>4. QED
    BY <1>2, <1>3, <2>2, <2>3 DEF Turned, Reserving
<1>10. Stopped(r)'
  BY <1>2 DEF Stopped, Ended
<1>11. QED
  BY <1>8, <1>9, <1>10

LEMMA AnswerKeeps ==
  ASSUME IInv, NEW r \in Runs, Answer(r), Tracked(r), Turned(r), Stopped(r)
  PROVE  Tracked(r)' /\ Turned(r)' /\ Stopped(r)'
<1>1. /\ pc[r] = "awaiting" /\ pc'[r] \in {"looping", "reporting"}
      /\ captured'[r] = captured[r] \union {count[r] + 1}
      /\ UNCHANGED <<log, count, turns, ledger, session>>
      /\ pc'[r] = "looping" => status'[r] = status[r]
      /\ pc'[r] = "reporting" => status'[r] # "max_turns"
  BY DEF Answer, EndLoop, Goto, reserveVars, IInv, TypeOK
<1>2. PICK i \in Lost(r) : log[i].ticket = count[r] + 1
  BY <1>1 DEF Tracked
<1>3. Lost(r) = {i}
  BY <1>2 DEF Tracked
<1>4. Posts(r)' = Posts(r)
  BY <1>1 DEF Posts
<1>5. Lost(r)' = {}
  BY <1>1, <1>2, <1>3, <1>4 DEF Lost
<1>6. \A t \in captured[r]' : \E j \in Posts(r) : log[j].ticket = t
  BY <1>1, <1>2 DEF Tracked, Lost
<1>7. Tracked(r)'
  BY <1>1, <1>4, <1>5, <1>6 DEF Tracked
<1>8. Turned(r)'
  BY <1>1, <1>4 DEF Turned, Reserving
<1>9. Stopped(r)'
  BY <1>1 DEF Stopped, Ended
<1>10. QED
  BY <1>7, <1>8, <1>9

(* The steps of `reserve`: nothing is sent until the reservation is made.     *)
LEMMA ReserveKeeps ==
  ASSUME IInv, NEW r \in Runs, Reserve(r), UNCHANGED pilotVars,
         Tracked(r), Turned(r), Stopped(r)
  PROVE  Tracked(r)' /\ Turned(r)' /\ Stopped(r)'
<1>1. /\ pc[r] \in Reserving
      /\ pc'[r] \in Reserving \union {"posting", "refused", "escaped"}
  BY DEF Reserve, Proceed, LockBudget, BudgetLocked, ReadCount, TruncateTemp, FillTemp,
         Replace, BudgetError, Unlock, Goto, FinallyUnlock, Reserving, IInv, TypeOK
<1>2. Lost(r) = {}
  BY <1>1 DEF Tracked, Reserving
<1>3. Tracked(r)' /\ Posts(r)' = Posts(r)
  BY <1>1, <1>2, SilentTracked DEF pilotVars, Reserving
<1>4. Turned(r)'
  BY <1>1, <1>3 DEF Turned, Reserving, pilotVars
<1>5. Stopped(r)'
  BY <1>1 DEF Stopped, Reserving, Ended, pilotVars
<1>6. QED
  BY <1>3, <1>4, <1>5

(* A loop that is out of turns has used the whole budget with what others     *)
(* have used.                                                                 *)
LEMMA OutOfTurnsKeeps ==
  ASSUME IInv, NEW r \in Runs, OutOfTurns(r), Tracked(r), Turned(r), Stopped(r)
  PROVE  Tracked(r)' /\ Turned(r)' /\ Stopped(r)'
<1>1. /\ pc[r] = "looping" /\ turns[r] >= MaxTurns(r)
      /\ pc'[r] = "reporting" /\ UNCHANGED <<log, captured, ledger>>
  BY DEF OutOfTurns, EndLoop, Goto, reserveVars, IInv, TypeOK
<1>2. Tracked(r)' /\ Posts(r)' = Posts(r)
  <2>1. Lost(r) = {}
    BY <1>1 DEF Tracked
  <2>2. QED
    BY <1>1, <2>1, SilentTracked
<1>3. Readable /\ Used = Limit
  <2>1. Readable
    BY <1>1 DEF IInv, Begun, Ended
  <2>2. Cardinality(Posts(r)) <= Used - before[r]
    BY <2>1, OwnCounted
  <2>3. Cardinality(Posts(r)) = turns[r]
    BY <1>1 DEF Turned
  <2>4. Used \in Counts /\ before[r] \in Counts /\ turns[r] \in Counts
    BY <2>1, UsedTyped DEF IInv, TypeOK
  <2>5. QED
    BY <1>1, <2>1, <2>2, <2>3, <2>4, BudgetAssumption
       DEF BudgetAssumption, Counts, MaxTurns
<1>4. Turned(r)' /\ Stopped(r)'
  BY <1>1, <1>3 DEF Turned, Stopped, Reserving, Ended, Readable, Used
<1>5. QED
  BY <1>2, <1>4

(* The other steps of a run.                                                  *)
LEMMA StepKeeps ==
  ASSUME IInv, NEW r \in Runs, Step(r) \/ Die(r),
         Tracked(r), Turned(r), Stopped(r)
  PROVE  Tracked(r)' /\ Turned(r)' /\ Stopped(r)'
<1> USE DEF Goto
<1>1. CASE Post(r)
  BY <1>1, PostKeeps
<1>2. CASE Answer(r)
  BY <1>2, AnswerKeeps
<1>3. CASE Reserve(r) /\ UNCHANGED pilotVars
  BY <1>3, ReserveKeeps
<1>4. CASE OutOfTurns(r)
  BY <1>4, OutOfTurnsKeeps
<1>5. CASE Begin(r)
  <2>1. /\ pc[r] = "start" /\ pc'[r] \in {"looping", "escaped"}
        /\ UNCHANGED <<log, captured, turns, status, failure, session>>
    BY <1>5 DEF Begin, IInv, TypeOK
  <2>2. Tracked(r)' /\ Posts(r)' = Posts(r)
    BY <2>1, SilentTracked DEF Tracked
  <2>3. QED
    BY <2>1, <2>2 DEF Turned, Stopped, Reserving, Ended
<1>6. CASE Turn(r)
  <2>1. /\ pc[r] = "looping" /\ pc'[r] \in {"locking", "refused", "escaped"}
        /\ UNCHANGED <<log, captured, status, failure, session>>
        /\ turns'[r] = turns[r] + 1
    BY <1>6 DEF Turn, IInv, TypeOK
  <2>2. Tracked(r)' /\ Posts(r)' = Posts(r)
    BY <2>1, SilentTracked DEF Tracked
  <2>3. QED
    BY <2>1, <2>2 DEF Turned, Stopped, Reserving, Ended
<1>7. CASE CallFails(r)
  <2>1. /\ pc[r] \in {"posting", "awaiting"} /\ pc'[r] = "refused"
        /\ UNCHANGED <<log, captured, turns, status, failure, session>>
    BY <1>7 DEF CallFails, pilotVars, IInv, TypeOK
  <2>2. QED
    BY <2>1, SilentTracked DEF Turned, Stopped, Reserving, Ended
<1>8. CASE Fail(r)
  <2>1. /\ pc[r] = "refused" /\ pc'[r] = "reporting" /\ failure'[r]
        /\ UNCHANGED <<log, captured, status>>
    BY <1>8 DEF Fail, IInv, TypeOK
  <2>2. QED
    BY <2>1, SilentTracked DEF Turned, Stopped, Reserving, Ended
<1>9. CASE ReportSession(r)
  <2>1. /\ pc[r] = "reporting" /\ pc'[r] \in {"subtracting", "escaped"}
        /\ UNCHANGED <<log, captured, status, failure>>
        /\ pc'[r] = "subtracting" => session'[r] = Used
    BY <1>9 DEF ReportSession, IInv, TypeOK
  <2>2. Tracked(r)'
    BY <2>1, SilentTracked DEF Tracked
  <2>3. QED
    BY <2>1, <2>2 DEF Turned, Stopped, Reserving, Ended
<1>10. CASE ReportAttempted(r)
  <2>1. /\ pc[r] = "subtracting" /\ pc'[r] \in {"done", "escaped"}
        /\ UNCHANGED <<log, captured, status, failure, session>>
    BY <1>10 DEF ReportAttempted, IInv, TypeOK
  <2>2. Tracked(r)'
    BY <2>1, SilentTracked DEF Tracked
  <2>3. QED
    BY <2>1, <2>2 DEF Turned, Stopped, Reserving, Ended
<1>11. CASE Die(r)
  <2>1. /\ pc'[r] = "died" /\ UNCHANGED <<log, captured>>
    BY <1>11 DEF Die, pilotVars, IInv, TypeOK
  <2>2. QED
    BY <2>1, SilentTracked DEF Turned, Stopped, Reserving, Ended
<1>12. QED
  BY <1>1, <1>2, <1>3, <1>4, <1>5, <1>6, <1>7, <1>8, <1>9, <1>10, <1>11
     DEF Step, GoOn, Reserve

(* The accounts of every run are right in every reachable state.              *)
THEOREM AccountsHold == Spec => [](IInv /\ Accounts)
<1>1. Init => Accounts
  <2> SUFFICES ASSUME Init, NEW r \in Runs
               PROVE  Tracked(r) /\ Turned(r) /\ Stopped(r)
    BY DEF Accounts
  <2>1. Posts(r) = {} /\ Lost(r) = {} /\ captured[r] = {} /\ pc[r] = "start"
        /\ turns[r] = 0 /\ status[r] = "incomplete"
    BY DEF Init, Posts, Lost
  <2>2. Cardinality({}) = 0
    BY FS_EmptySet
  <2>3. QED
    BY <2>1, <2>2 DEF Tracked, Turned, Stopped, Reserving
<1>2. ASSUME IInv, Accounts, [Next]_vars
      PROVE  Accounts'
  <2>1. CASE UNCHANGED vars
    BY <1>2, <2>1 DEF vars, budgetVars, reserveVars, pilotVars, Accounts, Tracked,
                      Turned, Stopped, Lost, Posts, Readable, Used
  <2>2. ASSUME NEW r \in Runs, Step(r) \/ Die(r), NEW q \in Runs
        PROVE  Tracked(q)' /\ Turned(q)' /\ Stopped(q)'
    <3>1. CASE q = r
      BY <1>2, <2>2, <3>1, StepKeeps DEF Accounts
    <3>2. CASE q # r
      BY <1>2, <2>2, <3>2, OthersUntouched, UntouchedKeeps DEF Accounts
    <3>3. QED
      BY <3>1, <3>2
  <2>3. QED
    BY <1>2, <2>1, <2>2 DEF Next, Accounts
<1>3. QED
  BY <1>1, <1>2, PilotInvariant, PTL DEF Spec

(* docs/LOCAL_PILOT.md:48: no automatic retries.  Whatever is interleaved, a  *)
(* run has sent at most one request more than it has captured, and none more  *)
(* when it ends without a failure.                                            *)
THEOREM NothingIsRetried == Spec => []NoRetry
<1>1. ASSUME IInv, Accounts, NEW r \in Runs
      PROVE  /\ Cardinality(Posts(r)) <= Cardinality(captured[r]) + 1
             /\ pc[r] = "done" /\ ~failure[r] =>
                  Cardinality(Posts(r)) = Cardinality(captured[r])
  <2>1. Tracked(r)
    BY <1>1 DEF Accounts
  <2>2. pc[r] = "done" /\ ~failure[r] => Lost(r) = {}
    BY <2>1 DEF Tracked
  <2>3. QED
    BY <1>1, <2>1, <2>2, SentIsKnown
<1>2. IInv /\ Accounts => NoRetry
  BY <1>1 DEF NoRetry
<1>3. QED
  BY <1>2, AccountsHold, PTL

(* local_run.py:30: a run that reports the call limit has found the budget    *)
(* used up, however many runs share it.                                       *)
THEOREM CallLimitIsReached == Spec => []CallLimitIsReal
<1>1. Accounts => CallLimitIsReal
  BY DEF Accounts, Stopped, StoppedAtLimit, CallLimitIsReal
<1>2. QED
  BY <1>1, AccountsHold, PTL

===============================================================================

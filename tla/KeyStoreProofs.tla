---------------------------- MODULE KeyStoreProofs ----------------------------
(* For any number of threads and processes, whatever fails: the lock excludes,*)
(* and the key file is a register that is written once.                       *)
EXTENDS KeyStore, TLAPS

(* Until a caller ends its reads or installs a key it has none.               *)
Unanswered ==
  \A c \in Callers :
    pc[c] \in {"start", "locking", "contended", "polling", "checking",
               "writing", "filling", "installing"} => answer[c] = NoKey

(* Under the lock, once it has been looked for again, the key is still absent,*)
(* because only the holder of the lock installs one.                          *)
StillAbsent ==
  \A c \in Callers :
    pc[c] \in {"writing", "filling", "installing"} => file = Absent

(* The temporary file of the installer's process is the installer's.          *)
OwnTemporary ==
  \A c \in Callers : pc[c] = "installing" => tmp[PidOf[c]] = c

(* Whoever has a key has the one in the file.                                 *)
Agreement == \A c \in Callers : answer[c] # NoKey => answer[c] = file

IInv ==
  /\ TypeOK
  /\ Exclusive
  /\ LockNotLeaked
  /\ Unanswered
  /\ StillAbsent
  /\ OwnTemporary
  /\ Agreement

(* A read changes nothing but where the caller stands and what it returns.    *)
LEMMA ReadPreserves ==
  ASSUME KeyStoreAssumption, IInv, NEW c \in Callers,
         NEW absent \in Places, NEW found \in Places, NEW failed \in Places,
         ReadExisting(c, absent, found, failed),
         \/ /\ pc[c] \in {"start", "contended"}
            /\ absent \in {"locking", "polling"}
            /\ found = "returned"
            /\ failed = "failed"
         \/ /\ pc[c] = "checking"
            /\ absent = "writing"
            /\ found = "leaving"
            /\ failed = "leaving"
  PROVE  IInv'
<1> USE DEF ReadExisting, Goto, files
<1>1. TypeOK'
  BY DEF IInv, TypeOK, Keys
<1>2. Exclusive' /\ LockNotLeaked'
  BY DEF IInv, TypeOK, Exclusive, LockNotLeaked, Holding
<1>3. Unanswered' /\ StillAbsent' /\ OwnTemporary'
  BY DEF IInv, TypeOK, Unanswered, StillAbsent, OwnTemporary
<1>4. Agreement'
  BY DEF IInv, TypeOK, Agreement, Keys
<1>5. QED
  BY <1>1, <1>2, <1>3, <1>4 DEF IInv

LEMMA InitIInv == Init => IInv
BY KeyStoreAssumption
   DEF KeyStoreAssumption, Init, IInv, TypeOK, Exclusive, LockNotLeaked, Unanswered, StillAbsent,
       OwnTemporary, Agreement, Keys, Places, Holding, Ended

LEMMA CallPreserves ==
  ASSUME IInv, NEW c \in Callers, Call(c)
  PROVE  IInv'
<1> USE KeyStoreAssumption DEF KeyStoreAssumption
<1>1. CASE FirstRead(c)
  BY <1>1, ReadPreserves DEF FirstRead, Places, Ended
<1>2. CASE ReadWhileContended(c)
  BY <1>2, ReadPreserves DEF ReadWhileContended, Places, Ended
<1>3. CASE Recheck(c)
  BY <1>3, ReadPreserves DEF Recheck, Places, Holding
<1> USE DEF IInv, TypeOK, Goto, files
<1>4. CASE Acquire(c)
  BY <1>4 DEF Acquire, Exclusive, LockNotLeaked, Unanswered, StillAbsent,
              OwnTemporary, Agreement, Places, Holding
<1>5. CASE Contention(c)
  BY <1>5 DEF Contention, Exclusive, LockNotLeaked, Unanswered, StillAbsent,
              OwnTemporary, Agreement, Places, Holding
<1>6. CASE Poll(c)
  BY <1>6 DEF Poll, Exclusive, LockNotLeaked, Unanswered, StillAbsent,
              OwnTemporary, Agreement, Places, Holding, Ended
<1>7. CASE Truncate(c)
  BY <1>7 DEF Truncate, Exclusive, LockNotLeaked, Unanswered, StillAbsent,
              OwnTemporary, Agreement, Places, Holding
<1>8. CASE Fill(c)
  BY <1>8 DEF Fill, Exclusive, LockNotLeaked, Unanswered, StillAbsent,
              OwnTemporary, Agreement, Places, Holding, Keys
<1>9. CASE Install(c)
  BY <1>9 DEF Install, Exclusive, LockNotLeaked, Unanswered, StillAbsent,
              OwnTemporary, Agreement, Places, Holding, Keys
<1>10. CASE OsError(c)
  BY <1>10 DEF OsError, Exclusive, LockNotLeaked, Unanswered, StillAbsent,
              OwnTemporary, Agreement, Places, Holding, Ended
<1>11. CASE Leave(c)
  BY <1>11 DEF Leave, Exclusive, LockNotLeaked, Unanswered, StillAbsent,
              OwnTemporary, Agreement, Places, Holding, Ended
<1>12. CASE CloseFails(c)
  BY <1>12 DEF CloseFails, Exclusive, LockNotLeaked, Unanswered, StillAbsent,
               OwnTemporary, Agreement, Places, Holding, Ended
<1>13. QED
  BY <1>1, <1>2, <1>3, <1>4, <1>5, <1>6, <1>7, <1>8, <1>9, <1>10, <1>11, <1>12 DEF Call, Proceed

LEMMA DiePreserves ==
  ASSUME IInv, NEW p \in Pids, Die(p)
  PROVE  IInv'
BY DEF Die, IInv, TypeOK, Exclusive, LockNotLeaked, Unanswered, StillAbsent,
       OwnTemporary, Agreement, Places, Holding, Ended, files

(* The inductive invariant holds in every reachable state.                    *)
THEOREM KeyInvariant == Spec => []IInv
<1>1. ASSUME IInv, [Next]_vars
      PROVE  IInv'
  <2>1. CASE UNCHANGED vars
    BY <1>1, <2>1 DEF vars, IInv, TypeOK, Exclusive, LockNotLeaked, Unanswered,
                      StillAbsent, OwnTemporary, Agreement
  <2>2. QED
    BY <1>1, <2>1, CallPreserves, DiePreserves DEF Next
<1>2. QED
  BY <1>1, InitIInv, PTL DEF Spec

(* Types.                                                                     *)
THEOREM KeyTypes == Spec => []TypeOK
BY KeyInvariant, PTL DEF IInv

(* keys.py:83-87: at most one thread of all processes works on the key file,  *)
(* and the lock that is there is its own.                                     *)
THEOREM LockExcludes == Spec => []Exclusive
BY KeyInvariant, PTL DEF IInv

(* keys.py:128-133: the lock outlives the call that made it only when the     *)
(* process died, or the close or the unlink failed.                           *)
THEOREM LockGivenBack == Spec => []LockNotLeaked
BY KeyInvariant, PTL DEF IInv

-------------------------------------------------------------------------------
(* A read that finds the key is a Load of the promise.                        *)
LEMMA ReadLoads ==
  ASSUME IInv, NEW c \in Callers, NEW absent, NEW found, NEW failed,
         pc[c] \in {"start", "contended", "checking"},
         ReadExisting(c, absent, found, failed)
  PROVE  [Promise!Next]_(Promise!vars)
<1>1. CASE file \in Keys /\ answer' = [answer EXCEPT ![c] = file]
  <2>1. Promise!Load(c)
    BY <1>1 DEF ReadExisting, files, Promise!Load, Promise!Keys, Keys, IInv, Unanswered
  <2>2. QED
    BY <2>1 DEF Promise!Next
<1>2. CASE UNCHANGED answer
  BY <1>2 DEF ReadExisting, files, Promise!vars
<1>3. QED
  BY <1>1, <1>2 DEF ReadExisting

(* keys.py:77-87: load_or_create_key implements a key that is set once: all   *)
(* calls that return a key return the same one, the one in the file, and an   *)
(* installed key or a file of another length is never overwritten.            *)
THEOREM KeyStoreImplementsPromise == Spec => OneKeyForAll
<1>1. Init => Promise!Init
  BY DEF Init, Promise!Init
<1>2. ASSUME IInv, [Next]_vars
      PROVE  [Promise!Next]_(Promise!vars)
  <2> USE DEF Promise!vars
  <2>1. ASSUME NEW c \in Callers, Call(c)
        PROVE  [Promise!Next]_(Promise!vars)
    <3>1. CASE Install(c)
      <4>1. Promise!Create(c)
        BY <1>2, <3>1 DEF Install, Promise!Create, IInv, Unanswered, StillAbsent,
                          OwnTemporary
      <4>2. QED
        BY <4>1 DEF Promise!Next
    <3>2. CASE FirstRead(c)
      BY <1>2, <3>2, ReadLoads DEF FirstRead
    <3>3. CASE ReadWhileContended(c)
      BY <1>2, <3>3, ReadLoads DEF ReadWhileContended
    <3>4. CASE Recheck(c)
      BY <1>2, <3>4, ReadLoads DEF Recheck
    <3>5. CASE Acquire(c) \/ Contention(c) \/ Poll(c) \/ Truncate(c) \/ Fill(c)
               \/ OsError(c) \/ Leave(c) \/ CloseFails(c)
      BY <3>5 DEF Acquire, Contention, Poll, Truncate, Fill, OsError, Leave, CloseFails, files
    <3>6. QED
      BY <2>1, <3>1, <3>2, <3>3, <3>4, <3>5 DEF Call, Proceed
  <2>2. ASSUME NEW p \in Pids, Die(p)
        PROVE  [Promise!Next]_(Promise!vars)
    BY <2>2 DEF Die, files
  <2>3. CASE UNCHANGED vars
    BY <2>3 DEF vars
  <2>4. QED
    BY <1>2, <2>1, <2>2, <2>3 DEF Next
<1>3. QED
  BY <1>1, <1>2, KeyInvariant, PTL DEF Spec, OneKeyForAll, Promise!Spec

===============================================================================

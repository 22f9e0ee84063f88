------------------------------- MODULE KeyStore -------------------------------
(* load_or_create_key (fingerprint/keys.py): threads of several processes ask *)
(* for the local secret, the first use makes it.  A step is one system call   *)
(* on the key file, the lock file or a temporary file.  A process may die and *)
(* a call may fail anywhere.                                                  *)
EXTENDS Naturals

CONSTANTS
  Callers,        \* calls of load_or_create_key, one per thread
  Pids,           \* processes
  PidOf,          \* PidOf[c]: the process of caller c
  Old,            \* the key of an earlier session
  Absent,         \* no such file
  Invalid,        \* a file that does not hold exactly KEY_LENGTH bytes
  Stale,          \* a lock file of an earlier session
  NoKey,          \* a caller has no key yet
  MaxPolls,       \* bound on the polls before the deadline passes
  Faults          \* what may go wrong: "read", "os", "unlink", "die"

ASSUME KeyStoreAssumption ==
  /\ PidOf \in [Callers -> Pids]
  /\ MaxPolls \in Nat
  /\ Callers \intersect {Old, Absent, Invalid, Stale, NoKey} = {}
  /\ Old \notin {Absent, Invalid, NoKey}
  /\ Absent \notin {Invalid, Stale, NoKey}
  /\ Invalid # NoKey

(* A fresh key is named by the call that drew it: secrets.token_bytes does    *)
(* not repeat.                                                                *)
Keys == Callers \union {Old}

VARIABLES
  file,           \* the key file: Absent, Invalid or a key
  lock,           \* the lock file: Absent, Stale or the caller that made it
  tmp,            \* tmp[p]: the file <name>.tmp.<pid>
  pc,             \* pc[c]: where caller c is
  answer,         \* answer[c]: the key c returns, if it returns
  polls,          \* polls[c]: how often c has slept
  stuck           \* the callers that could not remove their lock (history)

files == <<file, lock, tmp>>
vars == <<file, lock, tmp, pc, answer, polls, stuck>>

Ended == {"returned", "failed", "timedOut", "died"}
Holding == {"checking", "writing", "filling", "installing", "leaving"}
Places == {"start", "locking", "contended", "polling"} \union Holding \union Ended

Goto(c, place) == pc' = [pc EXCEPT ![c] = place]

Init ==
  /\ file \in {Absent, Invalid, Old}
  /\ lock \in {Absent, Stale}
  /\ tmp \in [Pids -> {Absent, Invalid}]
  /\ pc = [c \in Callers |-> "start"]
  /\ answer = [c \in Callers |-> NoKey]
  /\ polls = [c \in Callers |-> 0]
  /\ stuck = {}

-------------------------------------------------------------------------------
(* Mutant of ReadExisting: the length is not checked.                         *)
ReadAnything(c, absent, found, failed) ==
  /\ \/ /\ file = Absent
        /\ Goto(c, absent)
        /\ UNCHANGED answer
     \/ /\ file # Absent
        /\ answer' = [answer EXCEPT ![c] = file]
        /\ Goto(c, found)
  /\ UNCHANGED <<files, polls, stuck>>

(* _read_existing: no file; a key; or an error, because the file has another  *)
(* length or the read fails for longer than its deadline.  Retries of a       *)
(* transient PermissionError change nothing and are left out.                 *)
ReadExisting(c, absent, found, failed) ==
  /\ \/ /\ file = Absent
        /\ Goto(c, absent)
        /\ UNCHANGED answer
     \/ /\ file \in Keys
        /\ answer' = [answer EXCEPT ![c] = file]
        /\ Goto(c, found)
     \/ /\ file = Invalid \/ "read" \in Faults
        /\ Goto(c, failed)
        /\ UNCHANGED answer
  /\ UNCHANGED <<files, polls, stuck>>

FirstRead(c) == pc[c] = "start" /\ ReadExisting(c, "locking", "returned", "failed")

(* Mutant of Acquire: the lock file is opened without O_EXCL.                 *)
AcquireShared(c) ==
  /\ pc[c] = "locking"
  /\ lock' = c
  /\ Goto(c, "checking")
  /\ UNCHANGED <<file, tmp, answer, polls, stuck>>

(* os.open with O_CREAT and O_EXCL: one system call makes the file or fails.  *)
Acquire(c) ==
  /\ pc[c] = "locking"
  /\ lock = Absent
  /\ lock' = c
  /\ Goto(c, "checking")
  /\ UNCHANGED <<file, tmp, answer, polls, stuck>>

(* The lock is there.  On Windows a lock that is being deleted is refused     *)
(* with PermissionError and counted as contention: `lock` then still names it.*)
Contention(c) ==
  /\ pc[c] = "locking"
  /\ lock # Absent
  /\ Goto(c, "contended")
  /\ UNCHANGED <<files, answer, polls, stuck>>

ReadWhileContended(c) ==
  pc[c] = "contended" /\ ReadExisting(c, "polling", "returned", "failed")

(* Mutant of Poll: the deadline is taken again on every turn of the loop.     *)
PollWithFreshDeadline(c) ==
  /\ pc[c] = "polling"
  /\ Goto(c, "locking")
  /\ UNCHANGED <<files, answer, polls, stuck>>

(* After the read, not with it: the clock is looked at, then the caller       *)
(* sleeps and tries the lock again.  The deadline passes after any number of  *)
(* polls up to MaxPolls.                                                      *)
Poll(c) ==
  /\ pc[c] = "polling"
  /\ \/ /\ polls[c] < MaxPolls
        /\ polls' = [polls EXCEPT ![c] = @ + 1]
        /\ Goto(c, "locking")
     \/ /\ Goto(c, "timedOut")
        /\ UNCHANGED polls
  /\ UNCHANGED <<files, answer, stuck>>

(* Mutant of Recheck: the caller trusts its first read.                       *)
RecheckNothing(c) ==
  /\ pc[c] = "checking"
  /\ Goto(c, "writing")
  /\ UNCHANGED <<files, answer, polls, stuck>>

Recheck(c) == pc[c] = "checking" /\ ReadExisting(c, "writing", "leaving", "leaving")

(* write_bytes truncates the temporary file before it fills it.               *)
Truncate(c) ==
  /\ pc[c] = "writing"
  /\ tmp' = [tmp EXCEPT ![PidOf[c]] = Invalid]
  /\ Goto(c, "filling")
  /\ UNCHANGED <<file, lock, answer, polls, stuck>>

Fill(c) ==
  /\ pc[c] = "filling"
  /\ tmp' = [tmp EXCEPT ![PidOf[c]] = c]
  /\ Goto(c, "installing")
  /\ UNCHANGED <<file, lock, answer, polls, stuck>>

(* os.replace; the caller returns the key it drew, not what it installed.     *)
Install(c) ==
  /\ pc[c] = "installing"
  /\ file' = tmp[PidOf[c]]
  /\ tmp' = [tmp EXCEPT ![PidOf[c]] = Absent]
  /\ answer' = [answer EXCEPT ![c] = c]
  /\ Goto(c, "leaving")
  /\ UNCHANGED <<lock, polls, stuck>>

(* Mutant of OsError: no finally around the work under the lock.              *)
OsErrorWithoutFinally(c) ==
  /\ "os" \in Faults
  /\ pc[c] \in {"locking", "writing", "filling", "installing"}
  /\ Goto(c, "failed")
  /\ UNCHANGED <<files, answer, polls, stuck>>

(* mkdir, the open of the lock, or a call under the lock raises.              *)
OsError(c) ==
  /\ "os" \in Faults
  /\ \/ pc[c] = "locking" /\ Goto(c, "failed")
     \/ pc[c] \in {"writing", "filling", "installing"} /\ Goto(c, "leaving")
  /\ UNCHANGED <<files, answer, polls, stuck>>

(* The finally: unlink goes by the name of the file; its failure is ignored.  *)
Leave(c) ==
  /\ pc[c] = "leaving"
  /\ \/ lock' = Absent /\ UNCHANGED stuck
     \/ "unlink" \in Faults /\ stuck' = stuck \union {c} /\ UNCHANGED lock
  /\ Goto(c, IF answer[c] = NoKey THEN "failed" ELSE "returned")
  /\ UNCHANGED <<file, tmp, answer, polls>>

(* os.close of the lock raises before the unlink: the lock stays and the call *)
(* fails, although its key may be in place.                                   *)
CloseFails(c) ==
  /\ "os" \in Faults
  /\ pc[c] = "leaving"
  /\ stuck' = stuck \union {c}
  /\ Goto(c, "failed")
  /\ UNCHANGED <<files, answer, polls>>

(* A process dies with all its threads; its files stay.                       *)
Die(p) ==
  /\ "die" \in Faults
  /\ \E c \in Callers : PidOf[c] = p /\ pc[c] \notin Ended
  /\ pc' = [c \in Callers |->
              IF PidOf[c] = p /\ pc[c] \notin Ended THEN "died" ELSE pc[c]]
  /\ UNCHANGED <<files, answer, polls, stuck>>

Proceed(c) ==
  \/ FirstRead(c) \/ Acquire(c) \/ Contention(c) \/ ReadWhileContended(c)
  \/ Poll(c) \/ Recheck(c) \/ Truncate(c) \/ Fill(c) \/ Install(c)
  \/ Leave(c)

Call(c) == Proceed(c) \/ OsError(c) \/ CloseFails(c)

Next == (\E c \in Callers : Call(c)) \/ (\E p \in Pids : Die(p))

Spec == Init /\ [][Next]_vars

(* A thread that is not dead goes on; no error need ever help it out.         *)
FairSpec == Spec /\ \A c \in Callers : WF_vars(Proceed(c))

-------------------------------------------------------------------------------
(* Types.                                                                     *)
TypeOK ==
  /\ file \in Keys \union {Absent, Invalid}
  /\ lock \in Callers \union {Absent, Stale}
  /\ tmp \in [Pids -> Keys \union {Absent, Invalid}]
  /\ pc \in [Callers -> Places]
  /\ answer \in [Callers -> Keys \union {NoKey}]
  /\ polls \in [Callers -> 0..MaxPolls]
  /\ stuck \subseteq Callers

(* keys.py:83-87: the lock file is a mutual exclusion primitive for threads   *)
(* and processes.  Who works on the key file has made the lock that is there, *)
(* although it is removed by name and holders die.                            *)
Exclusive == \A c \in Callers : pc[c] \in Holding => lock = c

(* keys.py:128-133: however a call ends under the lock, it gives the lock     *)
(* back; only a death, or a close or unlink that fails, leaves it behind.     *)
LockNotLeaked ==
  lock \in Callers => pc[lock] \in Holding \union {"died"} \/ lock \in stuck

(* Every call comes to an end, also when the holder of the lock is dead.      *)
CallEnds == \A c \in Callers : <>(pc[c] \in Ended)

(* keys.py:77-87: all callers converge on one key that is never overwritten;  *)
(* nobody is given a key that is partly written.                              *)
Promise == INSTANCE WriteOnceKey WITH key <- file
OneKeyForAll == Promise!Spec

===============================================================================

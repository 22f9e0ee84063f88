\* Two threads of one process and one of another; everything may go wrong.
CONSTANTS
  a1 = a1
  a2 = a2
  b1 = b1
  a = a
  b = b
  Callers = {a1, a2, b1}
  Pids = {a, b}
  PidOf <- ThreePidOf
  Old = Old
  Absent = Absent
  Invalid = Invalid
  Stale = Stale
  NoKey = NoKey
  MaxPolls = 2
  Faults = {"read", "os", "unlink", "die"}
SPECIFICATION FairSpec
INVARIANTS
  TypeOK
  Exclusive
  LockNotLeaked
PROPERTIES
  CallEnds
  OneKeyForAll
CHECK_DEADLOCK FALSE

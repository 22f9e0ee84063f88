\* Two runs over one ledger of three calls; everything may go wrong.
CONSTANTS
  r1 = r1
  r2 = r2
  Runs = {r1, r2}
  Limit = 3
  Absent = Absent
  Invalid = Invalid
  Stale = Stale
  Faults = {"os", "unlink", "net", "shape", "die"}
SPECIFICATION FairSpec
INVARIANTS
  TypeOK
  CountedBeforeSent
  ReportCoversOwn
  NoRetry
  CallLimitIsReal
PROPERTIES
  BudgetIsAtomic
  RunEnds
CHECK_DEADLOCK FALSE

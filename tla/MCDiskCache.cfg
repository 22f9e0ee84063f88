\* Two processes that store, read and clear one entry, and may fail or die anywhere.
CONSTANTS
  p1 = p1
  p2 = p2
  f1 = f1
  f2 = f2
  f3 = f3
  Procs = {p1, p2}
  Keys = {"k"}
  Inodes = {f1, f2, f3}
  NoFile = NoFile
SPECIFICATION Spec
INVARIANTS
  EntryWholeUnlessCrowded
PROPERTIES
  StoreSpec
CHECK_DEADLOCK FALSE

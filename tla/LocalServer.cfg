\* The pilot's server, its child and the other programs of the machine.
SPECIFICATION ServerSpec
INVARIANTS
  OnlyOwnServer
CHECK_DEADLOCK FALSE

\* Graphs of up to four nodes; configs of up to two entries.
CONSTANTS
  Nodes <- MCNodes
  Wirings <- MCWirings
  Inputs <- MCInputs
  Output <- MCOutput
  Kind <- MCKind
  ContentBearing <- MCContentBearing
  Declassifies <- MCDeclassifies
  Classes <- MCClasses
  NewTypes <- MCNewTypes
  Subclass <- MCSubclass
  KeyTexts <- MCKeyTexts
  Keys <- MCKeys
  Values <- MCValues
  Ports <- MCPorts
  MaxEntries = 2
  MaxNesting = 3
SPECIFICATION Spec
INVARIANTS
  OrderExact
  ClosuresExact
  KeysIdentify
CHECK_DEADLOCK FALSE

SPECIFICATION Spec
CONSTANTS
  Thread = {"t1", "t2"}
  Root = {"t1"}
  Value = {"doc", "latin1"}
  Scribble = {}
  Bad = "bad"
  Calls <- ByteCalls
  RunMode = "enforce"
  Attended = TRUE
  Policy <- MCPolicy
  Cache <- MCCache
  Dest <- MCDest
  Unanchored = {}
  Unwritable = {"latin1"}
  Resolve <- MCResolve
  Faults = {}
  MaxCalls = 1
  MaxId = 1
  MaxToken = 2
INVARIANT
  OnlyBrokerLossAborts

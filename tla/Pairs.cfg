SPECIFICATION FairSpec
CONSTANTS
  Thread = {"t1", "t2"}
  Root = {"t1"}
  Value = {"doc"}
  Scribble = {}
  Bad = "bad"
  Calls <- PairCalls
  RunMode = "enforce"
  Attended = TRUE
  Policy <- MCPolicy
  Cache <- MCCache
  Dest <- MCDest
  Unanchored = {}
  Unwritable = {}
  Resolve <- MCResolve
  Faults = {"trace", "kernel", "broker", "crash"}
  MaxCalls = 1
  MaxId = 2
  MaxToken = 2
INVARIANTS
  PinsAccounted
  AtMostOnce
  ReportTellsOutcomes
PROPERTIES
  ImplementsMediation
  TrappedIsServed
  RunEnds

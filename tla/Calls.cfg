SPECIFICATION Spec
CONSTANTS
  Thread = {"t1", "t2"}
  Root = {"t1"}
  Value = {"ws", "new", "link", "doc", "sec", "out", "latin1", "n1", "n2", "n3"}
  Scribble = {"sec", "n3"}
  Bad = "bad"
  Calls <- AllCalls
  RunMode = "enforce"
  Attended = TRUE
  Policy <- MCPolicy
  Cache <- MCCache
  Dest <- MCDest
  Unanchored = {"out"}
  Unwritable = {"latin1"}
  Resolve <- MCResolve
  Faults = {"trace", "kernel", "broker", "crash", "outside"}
  MaxCalls = 1
  MaxId = 1
  MaxToken = 2
INVARIANTS
  TypeOK
  EffectIsDecided
  PinsAccounted
  NoStaleFact
  RecordedBeforeEffect
  NoneForgotten
PROPERTIES
  FailClosed
  ImplementsMediation

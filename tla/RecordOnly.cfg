SPECIFICATION Spec
CONSTANTS
  Thread = {"t1", "t2"}
  Root = {"t1"}
  Value = {"ws", "new", "link", "doc", "sec", "n1"}
  Scribble = {"sec"}
  Bad = "bad"
  Calls <- RecordCalls
  RunMode = "record_only"
  Attended = TRUE
  Policy <- MCPolicy
  Cache <- MCCache
  Dest <- MCDest
  Unanchored = {}
  Unwritable = {}
  Resolve <- MCResolve
  Faults = {}
  MaxCalls = 1
  MaxId = 2
  MaxToken = 2
INVARIANT
  RecordOnlyAllows

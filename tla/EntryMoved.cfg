SPECIFICATION Spec
CONSTANTS
  Thread = {"t1", "t2"}
  Root = {"t1"}
  Value = {"ws", "link", "sec", "doc"}
  Scribble = {}
  Bad = "bad"
  Calls <- EntryCalls
  RunMode = "enforce"
  Attended = TRUE
  Policy <- InboxPolicy
  Cache <- MCCache
  Dest <- MCDest
  Unanchored = {}
  Unwritable = {}
  Resolve <- MCResolve
  Faults = {"outside"}
  MaxCalls = 1
  MaxId = 1
  MaxToken = 2
INVARIANT
  CommitIsEvaluated

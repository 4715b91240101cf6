CONSTANTS
    V4Bits = 2
    V6Bits = 3
    MappedHead = 1
    MaxRequired = 3
SPECIFICATION Spec
INVARIANTS
    HostRulesApply
    
    JointDecision
    HullCovers
    MissingBackstopNamed

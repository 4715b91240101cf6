CONSTANTS
    RunModes = {"enforce", "record_only"}
    Faults = {"setup", "io", "broker", "child", "nofd", "wrap", "loop", "crash", "power"}
    MaxEvents = 2
SPECIFICATION FairSpec
INVARIANTS
    TypeOK
    EvidenceOfChild
    FailureLeavesNoZombie
    RunEndIsTruthful
    ReportRestsOnTrace
PROPERTIES
    AgentInsideBoundary
    NothingAfterTorn
    HandshakeEnds

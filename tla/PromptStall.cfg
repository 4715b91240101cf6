CONSTANTS
    SysCalls <- MCCalls
    PAGE = 2
    Pages = 3
    Caps = {1}
    Pids = {2, 3}
    root = 2
    Outsiders = {3}
    MaxHops = 3
    Timeout = 3
    MAX_ANSWER = 3
    Inputs <- MCInputs
    Workspace <- MCWorkspace
    Home <- MCHome
    Leaves = {"ask"}
SPECIFICATION Spec
PROPERTY
    TimeoutBoundsStall

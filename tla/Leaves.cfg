CONSTANTS
    SysCalls <- MCCalls
    PAGE = 2
    Pages = 3
    Caps = {1, 2, 3, 4}
    Pids = {2, 3, 4, 5, 6}
    root = 2
    Outsiders = {3}
    MaxHops = 3
    Timeout = 3
    MAX_ANSWER = 3
    Inputs <- MCInputs
    Workspace <- MCWorkspace
    Home <- MCHome
    Leaves = {"filter", "mem", "tree", "ask", "glob"}
SPECIFICATION Spec
INVARIANTS
    RoutedAsTabled
    NotifiedIsDecided
    ReadIsExact
    TreeWalkIsSound
    TimeoutNotEarly
    MatchIsMeaning
    DoubleStarStandsAlone
    RootCoversMatches
    TokenStaysBeneath
PROPERTIES
    PromptEnds
    Total

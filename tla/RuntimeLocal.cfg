SPECIFICATION FairSpec
CONSTANTS
    Challenges = {c1, c2}
    Flags <- MCFlags
    GenuineFlags <- MCGenuine
    FormattedFlags <- MCFormatted
    Categories = {"reverse", "misc"}
    Specialists = {"reverse", "misc"}
    Engines = {"reverse"}
    Worlds <- MCWorlds
    Results <- MCResults
    MaxHandoffDepth = 1
    MaxBarren = 2
    MaxToolSteps = 4
    Traced <- MCTraced
    Durable = FALSE
    Deployed = {"all"}
    MaxCrashes = 0
    MaxRewind = 0
INVARIANTS
    WorkIsConserved
    TracesAgreeWithBoard
PROPERTIES
    DocumentedLifecycle
    EveryChallengeEnds
    ApprovalReachesBoard
\* With nothing submitted or left to do the loops wait.
CHECK_DEADLOCK FALSE

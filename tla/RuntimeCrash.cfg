SPECIFICATION Spec
CONSTANTS
    Challenges = {c1}
    Flags <- MCFlags
    GenuineFlags <- MCGenuine
    FormattedFlags <- MCFormatted
    Categories = {"reverse"}
    Specialists = {"reverse"}
    Engines = {"reverse"}
    Worlds <- CrashWorlds
    Results <- MCResults
    MaxHandoffDepth = 1
    MaxBarren = 2
    MaxToolSteps = 4
    Traced <- CrashTraced
    Durable = TRUE
    Deployed = {"orchestrator", "gate", "specialists"}
    MaxCrashes = 1
    MaxRewind = 1
INVARIANTS
    TypeOK
    OnlyApprovedFlags
    BoardIsConsistent
    BoardPrecedesWork
    HandoffDepthBounded
\* With nothing submitted or left to do the loops wait.
CHECK_DEADLOCK FALSE

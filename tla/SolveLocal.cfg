SPECIFICATION SolveSpec
CONSTANTS
    Challenges = {c1}
    Name = c1
    Flags <- MCFlags
    GenuineFlags <- MCGenuine
    FormattedFlags <- MCFormatted
    Categories = {"crypto-attack", "misc"}
    Specialists = {"crypto-attack"}
    Engines = {"crypto-attack"}
    Worlds <- MCWorlds
    Results <- MCResults
    MaxHandoffDepth = 2
    MaxBarren = 2
    MaxToolSteps = 4
    Traced <- MCTraced
    Durable = FALSE
    Deployed = {"all"}
    MaxCrashes = 0
    MaxRewind = 0
    MaxPolls = 2
    EarlierRuns <- MCEarlierRuns
INVARIANTS
    AnswerIsFinal
    SolvedTraceIsValid
PROPERTIES
    AnswersWithoutTimer
\* An answer ends the process; without one the loops wait for the timer.
CHECK_DEADLOCK FALSE

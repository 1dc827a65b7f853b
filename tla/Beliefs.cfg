SPECIFICATION Spec
CONSTANTS
    Contexts = {g, o}
    Turns <- MCTurns
    MinStrength = 30
    TentativeMinSupport = 1
    ActiveMinSupport = 2
    ActiveMinConfidence = 50
    ActiveWindow = 1
    StaleWindow = 1
    BurstCount = 2
    BurstWindow = 1
    PerSupport = 25
    PerContradiction = 15
    SupersessionWindow = 1
    MaxTurns = 3
    MaxDays = 2
    MaxCrashes = 1
    MaxCalls = 1
    Questions <- MCQuestions
    ObservationLimit = 2
    EpisodeLimit = 1
    EvidenceLimit = 1
    LeastPool = 2
    RecentEvidence = 0
SYMMETRY MCSymmetry
INVARIANTS
    CountedOnceInItsLane
    LedgersTellHistory
    ActiveIsSupported
    ActiveIsAnnounced
    ViewShowsTheLatest
\* When turns, days and calls are used up nothing is left to do.
CHECK_DEADLOCK FALSE

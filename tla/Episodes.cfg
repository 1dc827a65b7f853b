SPECIFICATION Spec
CONSTANTS
    Sessions = {s, t}
    Utterances <- MCUtterances
    Policies = {"window_full", "surprise_spike"}
    MaxSize = 3
    MinHistory = 1
    WithEvidence = TRUE
    IdsRestart = FALSE
    MaxTurns = 4
    MaxFaults = 1
SYMMETRY MCSymmetry
INVARIANTS
    EpisodesAreRegimes
    NothingIsLeftOut
    EvidenceIsTraceable
    EverythingIsFed
\* When the turns are used up nothing is left to do.
CHECK_DEADLOCK FALSE

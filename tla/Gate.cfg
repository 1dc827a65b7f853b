SPECIFICATION Spec
CONSTANTS
    Challenges = {c1}
    Flags <- MCFlags
    GenuineFlags <- MCGenuine
    FormattedFlags <- MCFormatted
    Topics <- MCTopics
    MaxInputs = 2
INVARIANTS
    SolvedIsProven
    VerdictsAreRecordedAndTraced
    VerifiedSolveIsGenuine
PROPERTIES
    EveryCandidateIsJudged
\* A gate with an empty topic waits, and a dead one has ended.
CHECK_DEADLOCK FALSE

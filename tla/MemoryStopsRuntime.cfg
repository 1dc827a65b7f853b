SPECIFICATION Spec
CONSTANTS
    Categories = {pwn, web}
    Core = {"orchestrator", "gate"}
    EpisodeWindow = 3
    MaxTraces = 3
    MaxMissions = 3
    MaxFaults = 1
INVARIANT
    OffCriticalPath
\* When the traces are used up nothing is left to do.
CHECK_DEADLOCK FALSE

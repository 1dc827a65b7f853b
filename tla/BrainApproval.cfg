SPECIFICATION Spec
CONSTANTS
    Texts <- MCTexts
    SignalOf <- MCSignals
    Tools <- MCTools
    Config <- MCConfig
    InitialModes = {"normal", "risk"}
    Raising = {"critic"}
    ModelBacked = {"retrieval"}
    ToolErrors = {"timeout", "unknown"}
    MaxActions = 5
    TurnTexts <- MCTurnTexts
    TurnMetas <- MCTurnMetas
    OperatorModes = {"normal", "audit", "autonomous"}
    Plans <- MCPlans
    RunMetas <- MCRunMetas
    Diagnostic <- MCDiagnostic
    MaxSteps = 3
    MaxTools = 2
    HaltBelow = 20
    HaltOnEscalation = TRUE
    MaxCycles = 2
    MaxSwitches = 2
INVARIANTS
    ApprovedActionIsTaken
CHECK_DEADLOCK FALSE

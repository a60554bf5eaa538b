SPECIFICATION Spec
CONSTANTS
    Case = {c1, c2}
    NoCase = NoCase
    Steps = 2
    Baseline <- MCBaseline
    QueueCap = 1
    MaxStarts = 2
    MaxFaults = 1
    Clearing = TRUE
INVARIANTS TypeOK HandedOver ReportMatchesRecord VerdictMatchesEvidence CancelBetweenSteps NoStrayExecution
PROPERTIES TerminalIsFinal
CHECK_DEADLOCK FALSE

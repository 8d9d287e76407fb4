CONSTANTS
    Kinds = {"single", "continuous", "generator"}
    Widths <- TwoThenOne
    Retries = 1
    Workers = 2
    MaxFaults = 1
    MaxCrashes = 1
SPECIFICATION Spec
CHECK_DEADLOCK FALSE
INVARIANTS AnswerIsStored OneRequestAtATime FinalReportIsExact
PROPERTIES KeepsJobContract

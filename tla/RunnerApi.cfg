CONSTANTS
    c1 = c1
    c2 = c2
    k1 = k1
    Keys = {k1}
    Callers = {c1, c2}
    MaxSessions = 2
    Kinds = {"single"}
    Widths <- One
    Retries = 0
    Workers = 1
    MaxFaults = 1
    MaxCrashes = 1
SPECIFICATION ApiSpec
CHECK_DEADLOCK FALSE
INVARIANTS SingleFlight StatusIsTheReports
 
CONSTRAINT OneFault
SYMMETRY Symmetry

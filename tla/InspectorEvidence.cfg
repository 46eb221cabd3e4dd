SPECIFICATION Spec
CONSTANTS
    a1 = a1
    a2 = a2
    s1 = s1
    s2 = s2
    Attempts = {a1, a2}
    Calls = {s1, s2}
    Limit = 1
    MaxEntries = 2
    MaxRelated = 3
    MaxCommands = 1
    MaxFailures = 1
INVARIANT EvidenceOfTheAttempt
CHECK_DEADLOCK FALSE

SPECIFICATION Spec
CONSTANTS
    t1 = t1
    t2 = t2
    Tenures = {t1, t2}
    Limit = 1
    MaxVersions = 3
    MaxSwitches = 1
    MaxFailures = 1
INVARIANTS
    TypeOK
    PagesJoin
PROPERTIES
    ShownNeverOlder

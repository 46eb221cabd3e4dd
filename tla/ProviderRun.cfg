\* One provider run against an App Server that sends at most three notifications.
SPECIFICATION Spec
CONSTANTS
    MaxEarly = 1
    MaxSaid = 3
    MaxWire = 2
    Helpers = {"piped"}
INVARIANTS
    TypeOK
    NothingFatalLost
    OwnTurnCompleted
PROPERTIES
    NothingNewAfterFailure
    ImplementsContract

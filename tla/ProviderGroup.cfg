SPECIFICATION Spec
CONSTANTS
    MaxEarly = 1
    MaxSaid = 1
    MaxWire = 1
    Helpers = {"piped", "detached"}
INVARIANT GroupStopped

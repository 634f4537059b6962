SPECIFICATION Spec
CONSTANTS
    N = 3
    Handlers = {"h1", "h2"}
    Registered = FALSE
    First = First
    None = None
    MaxMishaps = 1
PROPERTIES
    BatchFinishes
CHECK_DEADLOCK FALSE

CONSTANT
    Descendants = {d1, d2}
SPECIFICATION HostSpec
PROPERTIES
    CancelledCallReturns
CHECK_DEADLOCK FALSE

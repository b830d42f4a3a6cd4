CONSTANTS
    Junk = Junk
    Fields <- SomeFields
    MaxFields = 6
SPECIFICATION Spec
INVARIANTS AcceptsDottedQuads NetworkByteOrder OverrunIsReported
CHECK_DEADLOCK FALSE

SPECIFICATION Spec
CONSTANTS
    Requests = {r1, r2, r3}
    NoOne = NoOne
    MaxVersion = 1
    SearchLags = FALSE
INVARIANT ReadYourWrites
CHECK_DEADLOCK FALSE

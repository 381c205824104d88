SPECIFICATION Spec
CONSTANTS
    a = a
    b = b
    Starter = {a, b}
    Phone = {"p"}
    Jobs = 2
    Restarts = 1
INVARIANTS TypeOK RelayAttended
PROPERTIES StopStopsAll OldPhoneSpares
SYMMETRY Symmetry
CHECK_DEADLOCK FALSE

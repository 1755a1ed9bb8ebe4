SPECIFICATION Spec
CONSTANTS
    Byte = 4
    Width = 3
    Overhead = 0
    Order = 61
    Calls = {1, 2, 3}
    Nonces <- MCNonces
    Services = {"aws", "test"}
    Faults = {"aws", "restart"}
INVARIANT
    ConvertedHasFullWidth
CHECK_DEADLOCK FALSE

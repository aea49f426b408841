SPECIFICATION Spec
CONSTANTS
    Calls = {c1, c2, c3}
    Final = Final
    None = None
    Modes = {"connect", "retry", "disconnect"}
    MaxRetries = 2
SYMMETRY CallSymmetry
INVARIANT
    DisconnectSuppressesRetries

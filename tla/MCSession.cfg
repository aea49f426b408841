SPECIFICATION Spec
CONSTANTS
    Calls = {c1, c2, c3}
    Final = Final
    None = None
    Modes <- AllModes
    MaxRetries = 2
SYMMETRY CallSymmetry
INVARIANTS
    IdleIsClean
    CloseHitsNoLaterPeer
    AudioBelongsToConnection
    DisconnectIsFinal

SPECIFICATION FairSpec
CONSTANTS
    Calls = {c1, c2}
    Final = Final
    None = None
    Modes <- AllModes
    MaxRetries = 2
PROPERTIES
    CallsReturn
    DropReleases

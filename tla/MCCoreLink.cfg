CONSTANTS
    k1 = k1
    t1 = t1
    None = None
    Keys = {k1}
    Reqs = {}
    Topics = {}
    Heartbeats = {h1, h2}
    PeerEvents <- StateEvents
    Wire <- ValidWire
    IngressCapacity = 1
    CommandCapacity = 1
    MaxPending = 1
    EventCapacity = 1
    MaxEpoch = 3
SPECIFICATION Spec
SYMMETRY HeartbeatSymmetry
INVARIANTS
    OpenMeansValidated
    CommandsOfPeerEpoch
    ValidatedIsWatched

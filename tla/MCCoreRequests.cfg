CONSTANTS
    k1 = k1
    t1 = t1
    None = None
    Keys = {k1}
    Reqs = {r1, r2}
    Topics = {}
    Heartbeats = {}
    PeerEvents = {"ChannelOpened", "ChannelClosed"}
    Wire <- RequestWire
    IngressCapacity = 1
    CommandCapacity = 1
    MaxPending = 1
    EventCapacity = 1
    MaxEpoch = 3
SPECIFICATION Spec
SYMMETRY ReqSymmetry
INVARIANTS
    WaitersAreRegistered
    ResponseOfOwnEpoch
    RetainedStateIsCurrent

CONSTANTS
    k1 = k1
    t1 = t1
    None = None
    Keys = {k1}
    Reqs = {r1}
    Topics = {t1}
    Heartbeats = {}
    PeerEvents = {"ChannelOpened", "ChannelClosed"}
    Wire <- MixedWire
    IngressCapacity = 1
    CommandCapacity = 1
    MaxPending = 1
    EventCapacity = 1
    MaxEpoch = 2
SPECIFICATION Spec
INVARIANT
    FaultIsRetained

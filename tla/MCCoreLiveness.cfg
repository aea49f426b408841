CONSTANTS
    k1 = k1
    t1 = t1
    None = None
    Keys = {k1, k2}
    Reqs = {r1}
    Topics = {}
    Heartbeats = {h1}
    PeerEvents = {"ChannelOpened"}
    Wire <- LinkWire
    IngressCapacity = 1
    CommandCapacity = 1
    MaxPending = 1
    EventCapacity = 1
    MaxEpoch = 2
SPECIFICATION FairSpec
PROPERTIES
    FaultFailsPending
    SilenceIsDetected
    ThreadsEnd

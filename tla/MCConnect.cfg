SPECIFICATION Spec
CONSTANTS
    Peers <- TwoPeers
    Tracks = {t1, t2}
    Meetings <- SomeMeetings
    RequestLimit = 2
    BodyLimit = 1
    AttemptLimit = 3
INVARIANTS
    NothingOutlivesClose
    ConnectedPeerIsOwned
    HonestRobotIsReached
PROPERTY
    EverythingEnds

SPECIFICATION SessionSpec
CHECK_DEADLOCK FALSE
CONSTANTS
    Peers <- TwoPeers
    Connected <- OnePeer
    Amount = 3
    PerPeer = 2
    MaxTrouble = 2
INVARIANTS
    NothingLost
    PeerOnce
PROPERTIES
    Served

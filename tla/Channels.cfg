SPECIFICATION Spec
CONSTANTS
    OneWayFifos = TRUE
    OneConnector = TRUE
CHECK_DEADLOCK FALSE
INVARIANTS  PeersAgree ChannelsWake

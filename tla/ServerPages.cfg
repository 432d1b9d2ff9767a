SPECIFICATION ServerPagesSpec
CONSTANTS
    MaxPulse = 2
    MaxClients = 3
    AttentionLimit = 1
    WatchLimit = 2
    TimelineLimit = 2
INVARIANTS VerdictsAgree GreenIsFresh PulseListsAgree
CHECK_DEADLOCK FALSE

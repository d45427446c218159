SPECIFICATION FairSpec
\* The system may stop: all is written and the client has ended or given up.
CHECK_DEADLOCK FALSE
CONSTANTS
    Writer = {w1, w2}
    StartId = {0, 1}
    MaxReconnects = 1
    MaxEvents = 3
    MaxForgotten = 1
INVARIANTS
    StreamTypeOK
    NothingStranded
PROPERTIES
    ImplementsFollowedLog
    FollowerEnds

SPECIFICATION Spec
\* The system may stop: all is written and the client has ended or given up.
CHECK_DEADLOCK FALSE
CONSTANTS
    Writer = {w1, w2}
    StartId = {0}
    MaxReconnects = 1
    MaxEvents = 2
    MaxForgotten = 0
INVARIANT
    NoEventLost

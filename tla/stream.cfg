SPECIFICATION FairSpec
CONSTANTS
    MaxSockets = 6
    MaxFailures = 4
INVARIANTS TypeOK ReadsSubscribed LeaksBounded
PROPERTIES StreamRecovers StopEnds
\* A stopped stream stays as it is.
CHECK_DEADLOCK FALSE

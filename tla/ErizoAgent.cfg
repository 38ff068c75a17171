\* The agent may exit and start again, and die once without running its 'exit'
\* listener. The behaviours end when MaxLaunches processes were launched.
CONSTANTS
    maxProcesses = 3
    prerunProcesses = 1
    MaxLaunches = 5
    MaxCrashes = 1
SPECIFICATION FairSpec
INVARIANTS
    PoolIsSound
    PoolIsSized
    
PROPERTIES
    
    ReuseInTurn
CHECK_DEADLOCK FALSE

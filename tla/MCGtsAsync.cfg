SPECIFICATION AsyncSpec
CONSTANTS MaxPromises = 3 MaxOps = 4
    MaxTicks = 2
INVARIANTS EndMeansIdle 
 
CHECK_DEADLOCK FALSE

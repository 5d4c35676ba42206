CONSTANTS
    Size <- MCSize
    RoadOf <- MCRoadOf
    Batch = 2
    MaxKills = 2
SPECIFICATION FairSpec
PROPERTY LoadCompletes
CHECK_DEADLOCK FALSE

SPECIFICATION FairSpec
CONSTANTS
    MaxEvent = 3
    Kinds <- MCSerialKinds
    Orphans = {2}
    Beats = {0, 1, 2, 3}
    Sessions = {s1}
PROPERTIES
    EventuallyAccounted

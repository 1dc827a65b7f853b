SPECIFICATION Spec
CONSTANTS
    g1 = g1
    g2 = g2
    s1 = s1
    s2 = s2
    s3 = s3
    Groups = {g1, g2}
    Subscribers = {s1, s2, s3}
    GroupOf <- MCGroupOf
    BacklogLimit = 2
    MaxMessages = 3
INVARIANTS
    WorkIsShared
PROPERTIES
    DeliversToGroups
    QueuedIsHandedOut
\* Everything published and handed out, the bus waits.
CHECK_DEADLOCK FALSE

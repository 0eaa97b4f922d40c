CONSTANTS
    t1 = t1
    t2 = t2
    t3 = t3
    t4 = t4
    t5 = t5
    a1 = a1
    a2 = a2
    Tasks <- MCTasks
    Addresses <- MCAddresses
    MaxSessionsPerIp = 2
SPECIFICATION TrackerFairSpec
INVARIANTS
    LimitRespected
    TrackerTypeOK
    CountsExact
PROPERTIES
    SlotsComeBack

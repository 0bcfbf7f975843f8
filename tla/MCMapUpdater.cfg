\* Two update threads, a continent and a dungeon base map with two instances.
SPECIFICATION FairSpec
CONSTANTS
    w1 = w1
    w2 = w2
    continent = continent
    dungeon = dungeon
    inst1 = inst1
    inst2 = inst2
    LFG = LFG
    None = None
    Workers <- MCWorkers
    BaseMaps <- MCBaseMaps
    Kind <- MCKind
    Instances <- MCInstances
    BaseOf <- MCBaseOf
INVARIANTS
    PendingIsExact
    WorldThreadAlone
    OneUpdatePerTick
    NoDanglingMap
    TickIsComplete
    NoNullRequest
PROPERTIES
    TickEnds
    ShutdownEnds

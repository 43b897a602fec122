SPECIFICATION SnowflakeSpec
CONSTANTS
    g1 = g1
    g2 = g2
    g3 = g3
    Generators <- MCGenerators
    Instance <- MCInstance
    SeqCap = 2
    InstanceCap = 4
    MaxNow = 4
    MaxIds = 4
INVARIANTS
    IdsIncrease

SPECIFICATION Spec
CONSTANTS
    token = token
    key = key
    v1 = v1
    v2 = v2
    Slots <- MCSlots
    PluginSlots <- MCPluginSlots
    Values <- MCValues
    Mark = Mark
    None = None
    MaxFaults = 1
    MaxStores = 2
    MaxCrashes = 1
SYMMETRY Symmetry
INVARIANTS
    TypeOK
    
    

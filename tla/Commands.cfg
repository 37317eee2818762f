SPECIFICATION Spec
CONSTANTS
    Proc = {p1, p2}
    Names <- MCNames
    Configs <- MCConfigs
    Commands <- CommandSet
    Stores <- MCStores
INVARIANT ConfigPrecedence
INVARIANT ConfigUsable
INVARIANT RemapExact
 
CHECK_DEADLOCK FALSE

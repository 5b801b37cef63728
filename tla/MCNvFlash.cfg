SPECIFICATION AreaSpec
CONSTANTS
    onoff = onoff
    level = level
    x = x
    y = y
    None = None
    Items = {onoff, level}
    Vals = {x, y}
    IDX_NUM = 3
    CAP = 4
    W = 4
    THRES = 2
    MaxCount = 5
    MaxFails = 2
INVARIANTS TypeOK OneValidSector NoHalfItem CounterTypeOK KeptCounter NotFarAhead
PROPERTIES NeverWithoutSector ImplementsStore

SPECIFICATION Spec
CONSTANTS
    Values = {5, 70, 95}
    Ends = {10, 11, 20}
    NoEnd = NoEnd
    Bands = {60, 90}
    Low = 10
    Drop = 40
    High = 60
    Confirm = 1
    Advance = 5
    MaxRecords = 1
    MaxTime = 4
    None = None
INVARIANTS TypeOK OnceEach ShownIsOnDisk DocumentLoads ResetsAreAdvances

CONSTANTS
    o1 = o1
    o2 = o2
    a1 = a1
    f1 = f1
    f2 = f2
    f3 = f3
    f4 = f4
    Ops = {o1, o2}
    Assets = {a1}
    SourceOf <- SameSource
    Files = {f1, f2, f3, f4}
    NoFile = NoFile
    Quota = 1
    MaxCrashes = 2
SPECIFICATION FairSpec
INVARIANTS
    TypeOK
    SlotIsHeld
    RowsAreWorked
    OutputsMatchRows
PROPERTIES
    ImplementsLocalJob
    SlotComesFree
    OldInterruptedSettles

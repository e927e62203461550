SPECIFICATION FairSpec
CONSTANTS
    Readers = {r1, r2}
    Writers = {w1, w2}
    MaxChanges = 2
    MaxFaults = 1
INVARIANTS TypeOK FloorIsCommitted
PROPERTIES ImplementsRegister FenceHeals

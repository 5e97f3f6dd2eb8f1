\* Fewer promises and more entries than MCPromises.cfg: three drains, one inside
\* the other, with tasks left in every batch.
CONSTANTS
    v1 = v1
    MaxPromises = 2
    MaxEntries = 5
    MaxDepth = 3
    MaxRounds = 3
    Handlers <- MCHandlers
    Values <- MCValues
    NoValue = NoValue
SPECIFICATION Spec
INVARIANTS
    InOrder

CONSTANTS
    Programs <- MCPrograms
    Code <- Compile
    MaxLog = 20
    MaxSent = 3
SPECIFICATION FairSpec
\* A program ends.
CHECK_DEADLOCK FALSE
INVARIANTS
    TypeOK
    AsWritten
    HandlersNest
PROPERTIES
    Halts

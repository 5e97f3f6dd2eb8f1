CONSTANTS
    Programs <- MCNestedJumps
    Code <- Compile
    MaxLog = 20
    MaxSent = 3
SPECIFICATION Spec
\* A program ends.
CHECK_DEADLOCK FALSE
INVARIANTS
    AsWritten

CONSTANTS
    Edits <- MCAllEdits
    MaxEdits = 3
    MaxNodes = 4
    MaxInputs = 2
    Numbers <- MCNumbers
    NewNames <- MCNames
SPECIFICATION Spec
INVARIANTS InputReferencesResolve
CHECK_DEADLOCK FALSE

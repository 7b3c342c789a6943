CONSTANTS
    Values = {v1, v2}
    Malformed = Malformed
    MaxSteps = 3
    None = None
SPECIFICATION DraftsSpec
PROPERTIES UndoIsNotOverwritten

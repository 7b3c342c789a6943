CONSTANTS
    Edits <- MCAllEdits
    MaxEdits = 3
    MaxNodes = 4
    MaxInputs = 2
    Numbers <- MCNumbers
    NewNames <- MCNames
    Characters <- MCCharacters
    MaxDepth = 6
    Schemas <- MCSchemas
    Sources <- MCSources
    NewKeys <- MCNewKeys
    MaxParts = 2
    MaxValueEdits = 4
    Drawings <- MCDrawings
    Selected <- MCSelected
    MaxSteps = 3
    MaxProgramEdits = 4
    Fleets <- MCFleets
    Workflows <- MCWorkflows
    Workers <- MCWorkers
    MaxFleetMoves = 1
    Names = {n1, n2, n3}
    MaxArranged = 5
    Unset = Unset
SPECIFICATION PanelsSpec
INVARIANTS
    ReferencesResolve
    NoCycle
    SidecarFollowsGraph
    InlineUndoesPromote
    PresetsAreSelfContained
    LayoutFollowsDependencies
    DocumentsSurvive
    ProgramsAreWhole
    JobsAskForWhatTheyRun
PROPERTIES
    FieldsMoveByOne
    WiresKeepToTheirPlace
CHECK_DEADLOCK FALSE

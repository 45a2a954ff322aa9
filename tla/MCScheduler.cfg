CONSTANTS
    NodeIds = {1, 2}
    StepIds = {1, 2, 3, 4}
    Kind <- MCKind
    Avoid <- MCAvoid
    Minutes <- MCMinutes
    MaxWhisper <- MCMaxWhisper
    MaxFfmpeg <- MCMaxFfmpeg
    Priority <- MCPriority
    ip8 = ip8
    ip9 = ip9
    Keys <- MCKeys
    Values <- MCValues
    Options <- MCOptions
    Shell <- MCShell
    Key <- MCKey
    Host <- MCHost
    MaxLength = 2
    SameRoot = {1, 2}
    Bodies <- MCBodies
SPECIFICATION Spec
INVARIANTS TypeOK CountsCover LimitsHold NoStepLeftBehind NoCheaperNode PrioritiesArrive

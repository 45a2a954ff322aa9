SPECIFICATION RolloutSpec
CONSTANTS
    m1 = m1
    m2 = m2
    Targets <- MCTargets
    Remote = {m1}
    Source = "wheel"
    WhisperPython = "venv"
    Marker = "value"
    Found <- MCFound
    MayUnmount = FALSE
    Jobs = {j1}
    Gate = TRUE
INVARIANTS
    TypeOK
    BootstrapPassMeansReady
    NoVenvWithoutLayout
    DoctorPassMeansShared
    OutputsOnShare
PROPERTIES
    CommandEnds

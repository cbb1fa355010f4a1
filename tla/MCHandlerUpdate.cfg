SPECIFICATION FairSpec
CONSTANTS
    Labels = {v1}
    AutoLabels = {auto}
    Contents = {c0, c1, bad}
    Sound = {c0, c1}
    Installed = c0
    None = None
    MaxUploads = 3
    MaxCommands = 1
    MaxKills = 1
INVARIANTS TypeOK KeepsWorking ReportTrue
PROPERTIES LiveKept Converges
CHECK_DEADLOCK FALSE

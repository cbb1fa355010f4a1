SPECIFICATION Spec
CONSTANTS
    MaxVersions = 3
    MaxGlobal = 1
    MaxAuc = 1
    Refused = {}
    MaxRestarts = 0
PROPERTIES RejectedStaysOut

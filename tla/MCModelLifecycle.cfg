SPECIFICATION FairSpec
CONSTANTS
    MaxVersions = 3
    MaxGlobal = 1
    MaxAuc = 2
    Refused = {2}
    MaxRestarts = 1
INVARIANTS TypeOK ServedApproved LinkActive ServesLatest
PROPERTIES ImplementsRelease SoakDecided
CHECK_DEADLOCK FALSE

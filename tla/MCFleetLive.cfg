SPECIFICATION FairSpec
CONSTANTS
    Agents = {a1}
    Profiles = {Lean}
    NoProfile = NoProfile
    Ttls <- MCTtls
    BatchLimit = 1
    MaxAuthAge = 1
    Skews <- MCSkews
    MaxCommands = 2
    MaxKeys = 1
    MaxTime = 2
    MaxInFlight = 1
PROPERTIES IssueOrder PendingDelivered

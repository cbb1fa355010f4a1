SPECIFICATION Spec
CONSTANTS
    Agents = {a1}
    Profiles = {Lean, Full}
    NoProfile = NoProfile
    Ttls <- MCTtls
    BatchLimit = 2
    MaxAuthAge = 1
    Skews <- MCSkews
    MaxCommands = 2
    MaxKeys = 2
    MaxTime = 3
    MaxInFlight = 1
INVARIANTS TypeOK AtMostOnce
PROPERTIES StalenessBounded RetiredSecretPowerless ProfileEarned ImplementsLifecycle
SYMMETRY ProfileSymmetry

SPECIFICATION Spec
CONSTANTS
    Faults <- MCRace
    MaxRetries = 1
INVARIANTS SafetyNet

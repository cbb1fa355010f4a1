SPECIFICATION FairSpec
CONSTANTS
    Faults <- MCOutside
    MaxRetries = 3
INVARIANTS TypeOK Undoable CleanWhenClear SafetyNet
PROPERTIES NeverStranded DeadmanLifts

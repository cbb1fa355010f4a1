SPECIFICATION InterruptedSpec
CONSTANTS
    Faults <- MCInterrupted
    MaxRetries = 1
INVARIANTS Undoable

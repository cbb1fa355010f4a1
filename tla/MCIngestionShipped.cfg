SPECIFICATION Spec
CONSTANTS
    Slots = {e1, e2}
    PollEvery = 4
    Window = 10
    Grace = 1
    Threshold = 5
    ResetAfter = 2
    MaxWork = 0
    MaxEntries = 1
INVARIANTS NothingMissed

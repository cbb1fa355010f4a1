SPECIFICATION FairSpec
CONSTANTS
    Slots = {e1, e2}
    PollEvery = 1
    Window = 2
    Grace = 2
    Threshold = 2
    ResetAfter = 1
    MaxWork = 1
    MaxEntries = 1
INVARIANTS TypeOK NothingMissed RefusedKept
PROPERTIES Flushes Recovers

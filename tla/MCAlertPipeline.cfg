SPECIFICATION Spec
CONSTANTS
    Chains = {loop, replay}
    Entities = {host}
    Detectors = {lateral, dns}
    NumUsers = 1
    MaxAlerts = 4
    MaxTests = 1
    MaxTime = 3
    MaxRestarts = 1
    DedupWindow = 4
    Lag = 1
    CorrelationWindow = 1
    NoticeWindow = 3
    Patience = 0
    SmsCap = 1
INVARIANTS TypeOK OneAlertPerWindow OneBundlePerWindow KillChainBundled BundleEarned OneNoticePerWindow SmsBounded
SYMMETRY MCSymmetry
CHECK_DEADLOCK FALSE

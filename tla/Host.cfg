SPECIFICATION FairSpec
CONSTANTS
    Cfgs = {c1}
    Slots = {m1, m2}
    CfgOf <- OneCfg
    Starters = {i1, i2}
    Together = FALSE
    Senders = {s1}
    Servers = {v1}
    MaxLines = 1
INVARIANTS OneMonitor LineAccounted
CHECK_DEADLOCK FALSE
PROPERTY Monitored

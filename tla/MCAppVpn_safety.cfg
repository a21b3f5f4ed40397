SPECIFICATION FairSpec
CONSTANTS
    Ops = {o1}
    Servers = {v}
    NoServer = v
    Jobs = {j1}
    MaxDownloads = 1
INVARIANTS
    StatusTold
    RulesFollowSwitch
    StartsWhole
PROPERTIES
    StatusSettles
    ConnectConnects
    RestartApplies
CONSTRAINT FirstLaunch
CHECK_DEADLOCK FALSE

\* A save that fails is tried again without the ports.
SPECIFICATION SettingsSpec
INVARIANTS EnteredIsSaved
CONSTANTS
    Texts = {1}
    Ports = {1122, 8728}
    DefaultText = 1
    DefaultPort = 1122
    Icons = {png}
    Keys = {k1}
    None = None
    Routers = {r1}
    Clerks = {c1, c2}
    MaxSettingRequests = 2
    MaxSettingFaults = 1
    MaxEdits = 1
CHECK_DEADLOCK FALSE

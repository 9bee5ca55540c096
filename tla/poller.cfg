CONSTANTS
    d1 = d1
    h1 = h1
    h2 = h2
    Devices = {d1}
    Topics = {d1}
    Senders <- MCSenders
    Handlers = {h1, h2}
    Tabs = {t1}
    Filters = {None}
    Capacity = 1
    MaxTicks = 2
    MaxTime = 5
    None = None
SPECIFICATION FairSpec
INVARIANTS IInv NoSendOnClosed KeepsUp
PROPERTIES InOrder NobodyStuck

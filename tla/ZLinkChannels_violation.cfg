\* One client with both its connections waiting, and a host that accepts them.
CONSTANTS
    Thread = {t1}
    NoThread = NoThread
    Client = {c1}
    Unknown = {}
CHECK_DEADLOCK FALSE
SPECIFICATION Spec
INVARIANT ChannelsMatch

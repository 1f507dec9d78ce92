CONSTANTS
    Connections = {c1}
    NoConnection = NoConnection
    Unregistered = Unregistered
    Edits = {e1, e2}
    Openings = {o1}
    Configs <- MCConfigs
    None = None
SPECIFICATION Spec
INVARIANTS CacheFollowsStore ProductionIsProtected
PROPERTIES NoLostUpdate LockIsReleased
CHECK_DEADLOCK FALSE

SPECIFICATION Spec
CONSTANTS
    su = su
    user = user
    Tasks = {su, user}
    Users = {user}
    NInodes = 4
    Entries = 2
    Zones = 3
    Paths <- MCPaths
    Calls <- MCCalls
CONSTRAINT UntilHit
INVARIANTS RefsExact   ZonesExact

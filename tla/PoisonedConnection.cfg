SPECIFICATION Spec
CONSTANTS
    t1 = t1
    t2 = t2
    t3 = t3
    t4 = t4
    c1 = c1
    c2 = c2
    c3 = c3
    Tasks = {t1, t2, t3}
    Connections = {c1, c2, c3}
    ConnOf <- OwnConnections3
    Details = {allow, deny}
    MaxRecords = 3
INVARIANTS
    FailuresAreLostRaces
CHECK_DEADLOCK FALSE

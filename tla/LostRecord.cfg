SPECIFICATION Spec
CONSTANTS
    t1 = t1
    t2 = t2
    t3 = t3
    t4 = t4
    c1 = c1
    c2 = c2
    c3 = c3
    Tasks = {t1, t2, t3}
    Connections = {c1}
    ConnOf <- OneConnection3
    Details = {allow, deny}
    MaxRecords = 2
INVARIANTS
    ReturnedDurable
CHECK_DEADLOCK FALSE

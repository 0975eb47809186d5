SPECIFICATION FairSpec
CONSTANTS
    Keys = {"overview", "lists"}
    Clients = {c1}  Writers = {w1}  Commands <- DecideOrStart
    Faults = {"drop", "restart", "loss"}  MaxChanges = 2  MaxFaults = 1
CHECK_DEADLOCK FALSE
INVARIANTS OwedIsComing
PROPERTIES OwedIsShown

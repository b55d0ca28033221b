SPECIFICATION Spec
CONSTANTS
    Capacity = 3
    Events = {e1, e2}
    Producers = {listener}
    Consumers = {worker}
    True = True
    False = False
    Nullopt = Nullopt
INVARIANTS TypeOK TestsStayTrue NoDataRace
PROPERTIES UnreadIsKept SizeIsSafe ImplementsFifo

\* An attempt to connect that is refused, the first one or one after a loss.
SPECIFICATION FairSpec
PROPERTIES
    Uploaded
CONSTANTS
    MaxConns = 1
    MaxWire = 1
    MaxLosses = 1
    MaxLost = 1
    Deltas = {100, 1000}
    Faults = {"drop", "refuse"}

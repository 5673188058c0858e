\* Two apps on one port.
SPECIFICATION Spec
CHECK_DEADLOCK FALSE
CONSTANTS
    Name = {"a", "b", "c"}
    Host = {"h", "H"}
    Listen = {":8080", "0.0.0.0:8080"}
    PortOf <- MCPortOf
    Fold <- MCFold
    MaxApps = 3
INVARIANTS
    OneProtocolPerPort

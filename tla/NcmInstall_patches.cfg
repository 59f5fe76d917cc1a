SPECIFICATION Spec
CONSTANTS
    Packages <- MCPackages
    Devices <- MCDevices
    Modes <- StreamOnly
    NoTicket = "none"
    MaxRuns = 2
    MaxFaults = 2
INVARIANT
    AtMostOnePatch

SPECIFICATION Spec
CONSTANTS
    Packages <- MCPackages
    Devices <- MCDevices
    Modes <- BothModes
    NoTicket = "none"
    MaxRuns = 2
    MaxFaults = 1
INVARIANTS
    NcmTypeOK
    SuccessMeansInstalled
    PatchReplacesAll
    NoPlaceholderLeft
    TicketsBeforeContents
    FailsOnlyByFault
PROPERTIES
    InstalledStaysComplete
    NoDowngrade

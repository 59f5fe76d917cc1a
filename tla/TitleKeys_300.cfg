SPECIFICATION KeysSpec
CONSTANTS
    Packages <- OldPackages
    Overrides <- MCOverrides
    KeyFiles <- GoodKeyFiles
    Firmware <- MCFirmware
    DeviceId <- MCDeviceId
    DeviceGeneration <- MCDeviceGeneration
    MaxInstalls <- MCMaxInstalls
INVARIANTS
    LaunchesOnEveryFirmware
CHECK_DEADLOCK FALSE

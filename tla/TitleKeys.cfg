SPECIFICATION KeysSpec
CONSTANTS
    Packages <- MCPackages
    Overrides <- MCOverrides
    KeyFiles <- MCKeyFiles
    Firmware <- MCFirmware
    DeviceId <- MCDeviceId
    DeviceGeneration <- MCDeviceGeneration
    MaxInstalls <- MCMaxInstalls
INVARIANTS
    EveryContentHasItsKey
    LaunchesOnEveryFirmware
    TicketOnlyForNeed
    SoundIsInstalled
CHECK_DEADLOCK FALSE

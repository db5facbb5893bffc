SPECIFICATION SettingsSpec
CONSTANTS
    Buffers <- MCBuffers
    Args <- MCArgs
    Inputs <- MCInputs
    Counts <- MCCounts
    UMasks <- MCUMasks
    Labels = {"v"}
    MaxBuffers = 6000
    MaxCommands = 2
INVARIANTS MemoryAccounted SettingsInForce UMaskMeant

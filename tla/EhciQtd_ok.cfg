CONSTANTS
    PageSize = 4096
    NBufs = 5
    SetupSize = 8
    Types = {"control", "bulk", "interrupt"}
    Sizes <- MCSizes
    Offsets <- MCOffsets
    MaxPackets <- MCMaxPackets
    MaxStageQtds = 4
SPECIFICATION Spec
INVARIANT QtdsCoverBuffer QtdFits WholePackets
PROPERTY EnqueueReturns
CHECK_DEADLOCK FALSE

SPECIFICATION Spec
CONSTANTS
    v1 = v1
    v2 = v2
    Validators <- TwoValidators
    MaxChanges = 2
    Addressed = {TRUE, FALSE}
    PageSizes = {1, 2}
    SplitConfigs <- Splits
    MaxAmount = 40
    IntBits = 8
    Answered <- OneAnswered
    MayLag = TRUE
    ReadFaults = TRUE
INVARIANT SplitIsFair
PROPERTIES RowsAdvance MirrorConverges LowHeldIsAlerted

SPECIFICATION Spec
CONSTANTS
    v1 = v1
    v2 = v2
    Validators <- TwoValidators
    MaxChanges = 2
    Addressed = {TRUE}
    PageSizes = {2}
    SplitConfigs <- Splits
    MaxAmount = 40
    IntBits = 8
    Answered <- OneAnswered
    MayLag = FALSE
    ReadFaults = FALSE
PROPERTY AlertsAreForDelegated

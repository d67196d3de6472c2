SPECIFICATION TelemetrySpec
CONSTANTS
    v1 = v1
    v2 = v2
    Kinds <- AllKinds
    Items <- TwoItems
    One = v1
    MaxUpdates = 2
INVARIANTS TelemetryTypeOK OnceCollectedAnswered
PROPERTIES AnswersAdvance AnswersCatchUp

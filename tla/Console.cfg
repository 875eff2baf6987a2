SPECIFICATION Spec
CONSTANTS
    Inputs <- SomeInputs
    Outputs <- SomeOutputs
    MaxTyped = 2
    MaxPrinted = 2
    MaxOnTheWay = 2
INVARIANTS
    TranscriptShown
    MissingAtMostTyped

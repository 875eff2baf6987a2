SPECIFICATION Spec
CONSTANTS
    Values = {a, b}
    NoValue = NoValue
    MaxNodes = 3
PROPERTIES
    ImplementsSequence
    LegalCallsAreSafe

SPECIFICATION Spec
CONSTANTS
    Sources <- MCSources
INVARIANTS
    AssertionsHold
    StructuredIffReducible
PROPERTIES
    ImplementsControlFlow
CHECK_DEADLOCK FALSE

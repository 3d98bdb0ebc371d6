CONSTANTS
 VarType <- Types
 ImplicitUnrollLimit = 4
 Uniforms = {"u"}
 Sources <- EntryFunctions
 Inputs <- InputVectors
 Fuel = 5
SPECIFICATION Spec
INVARIANT MeaningKept
CHECK_DEADLOCK FALSE

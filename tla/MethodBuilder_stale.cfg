\* BuildBoxIfPrimitive decides between the short and the range call from
\* the register count at the time of the call; registers allocated later
\* move a parameter past the 4-bit limit (16, as in the code) before
\* Encode resolves it.  The method takes thirteen ints and a long, and the
\* client boxes both kinds (the narrow check of line 452, the wide one of 445).
CONSTANTS
  NulCut <- mcNoNul
  ClassDescriptor <- mcClass
  MethodName = "bar"
  ReturnType = "I"
  ParamTypes <- mcParamsIntsThenLong
  Callees = {}
  BoxTypes = {"I", "J"}
  Immediates = {}
  Strings = {}
  ClientOps = {"box"}
  MaxInstructions = 1
  MaxRegisters = 4
  MaxLabels = 0
  ShortRegs = 16
  ScratchRegs = 0
  AssertsEnabled = TRUE
SPECIFICATION Spec
INVARIANT BuilderChosenFormAccepted
CHECK_DEADLOCK FALSE

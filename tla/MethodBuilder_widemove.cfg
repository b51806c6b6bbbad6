\* Wide move: the method bar(J)V unboxes its long parameter into a register
\* pair with BuildUnBoxIfPrimitive, and Encode turns the move into code.
CONSTANTS
  NulCut <- mcNoNul
  ClassDescriptor <- mcClass
  MethodName = "bar"
  ReturnType = "V"
  ParamTypes <- mcParamsLong
  Callees <- mcCallees
  BoxTypes <- mcBoxTypes
  Immediates = {}
  Strings = {}
  ClientOps = {"unbox"}
  MaxInstructions = 1
  MaxRegisters = 2
  MaxLabels = 0
  ShortRegs = 16
  ScratchRegs = 0
  AssertsEnabled = TRUE
SPECIFICATION Spec
INVARIANT WideParamsMovedWhole
CHECK_DEADLOCK FALSE

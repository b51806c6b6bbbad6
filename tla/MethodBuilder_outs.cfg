\* EncodeInvokeRange raises max_args_ by args.size(), which is 2 for every
\* range call (first register and count), not by the words the call passes:
\* a three-word range call leaves outs_count at 2.
CONSTANTS
  NulCut <- mcNoNul
  ClassDescriptor <- mcClass
  MethodName = "bar"
  ReturnType = "V"
  ParamTypes <- mcParamsLong
  Callees <- mcCallees
  BoxTypes <- mcBoxTypes
  Immediates = {}
  Strings = {}
  ClientOps = {"invoke", "box", "unbox", "move", "return"}
  MaxInstructions = 1
  MaxRegisters = 3
  MaxLabels = 0
  ShortRegs = 2
  ScratchRegs = 0
  AssertsEnabled = TRUE
SPECIFICATION Spec
INVARIANT OutsCoverCalls
CHECK_DEADLOCK FALSE

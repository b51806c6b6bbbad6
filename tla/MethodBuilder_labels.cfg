\* Label resolution: consts of every size, branches and bindings in every
\* order, two labels, one method of four instructions.
CONSTANTS
  NulCut <- mcNoNul
  ClassDescriptor <- mcClass
  MethodName = "bar"
  ReturnType = "I"
  ParamTypes <- mcParamsInt
  Callees = {}
  BoxTypes = {}
  Immediates <- mcImmediates
  Strings = {"bar", "msg"}
  ClientOps = {"const", "string", "return", "branch", "bind"}
  MaxInstructions = 4
  MaxRegisters = 1
  MaxLabels = 2
  ShortRegs = 16
  ScratchRegs = 0
  AssertsEnabled = TRUE
SPECIFICATION Spec
INVARIANT BranchOffsetsMatchLayout
CHECK_DEADLOCK FALSE

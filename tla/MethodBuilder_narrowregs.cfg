\* Register fields: object construction, arrays and field accesses in a
\* method with a wide parameter and three registers, the 4-bit operand
\* limit scaled to 2 registers as in the calls run.  Built with NDEBUG, so
\* no assert() of the .cc or of the header emitters stops the encoding.
CONSTANTS
  NulCut <- mcNoNul
  ClassDescriptor <- mcClass
  MethodName = "bar"
  ReturnType = "V"
  ParamTypes <- mcParamsLong
  Callees = {}
  BoxTypes = {}
  Immediates = {}
  Strings = {}
  ClientOps = {"object", "field"}
  MaxInstructions = 1
  MaxRegisters = 3
  MaxLabels = 0
  ShortRegs = 2
  ScratchRegs = 0
  AssertsEnabled = FALSE
SPECIFICATION Spec
INVARIANT RegistersFitFormats
CHECK_DEADLOCK FALSE

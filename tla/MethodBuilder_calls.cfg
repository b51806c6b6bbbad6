\* Calls: client invokes in the short and the range form, the box/unbox
\* helpers on int, long and Long, new-instance, check-cast, new-array,
\* aput-object, static and instance field accesses, register allocation
\* and release, for a method bar(J)V with a wide parameter.  The 4-bit operand limit is scaled
\* to 2 registers so that both call forms are reached with few registers.
CONSTANTS
  NulCut <- mcNoNul
  ClassDescriptor <- mcClass
  MethodName = "bar"
  ReturnType = "V"
  ParamTypes <- mcParamsLong
  Callees <- mcCallees
  BoxTypes <- mcBoxTypes
  Immediates = {}
  Strings = {}
  ClientOps = {"invoke", "box", "unbox", "move", "return", "object", "field"}
  MaxInstructions = 2
  MaxRegisters = 3
  MaxLabels = 0
  ShortRegs = 2
  ScratchRegs = 0
  AssertsEnabled = TRUE
SPECIFICATION Spec
INVARIANT RegistersNeverOutgrowDemand
INVARIANT OperandsInsideFrame
INVARIANT InvokeArityMatchesDecl
INVARIANT ParamRegistersInInsWindow
PROPERTY ImplementsMethodTable
CHECK_DEADLOCK FALSE

\* EncodeMove picks const/16 for every immediate up to 65535, but the
\* format sign-extends its literal: an int constant of 40000 is loaded as
\* -25536; const-wide/32 likewise loads the long 2^31 as -2^31.  Two
\* registers give a wide destination pair.
CONSTANTS
  NulCut <- mcNoNul
  ClassDescriptor <- mcClass
  MethodName = "bar"
  ReturnType = "I"
  ParamTypes <- mcParamsInt
  Callees = {}
  BoxTypes = {}
  Immediates <- mcImmediatesSigned
  Strings = {}
  ClientOps = {"const"}
  MaxInstructions = 1
  MaxRegisters = 2
  MaxLabels = 0
  ShortRegs = 16
  ScratchRegs = 0
  AssertsEnabled = TRUE
SPECIFICATION Spec
INVARIANT ConstLoadsImmediate
CHECK_DEADLOCK FALSE

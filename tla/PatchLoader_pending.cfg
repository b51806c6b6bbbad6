CONSTANTS
  Fallible = {"GetByteArrayElements", "NewDirectByteBuffer"}
SPECIFICATION Spec
INVARIANT NoJniCallWithPendingException

CONSTANTS
  Fallible = {"GetStaticObjectField", "GetByteArrayElements", "getSystemClassLoader", "NewDirectByteBuffer", "InMemoryDexClassLoader", "NewGlobalRef", "loadClass"}
SPECIFICATION Spec
INVARIANT TypeOK
PROPERTIES ImplementsPatchLoad

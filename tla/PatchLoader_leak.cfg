CONSTANTS
  Fallible = {"InMemoryDexClassLoader"}
SPECIFICATION Spec
INVARIANT LocalRefsReleased

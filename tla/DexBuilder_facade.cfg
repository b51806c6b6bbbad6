\* Facade: two classes, a field declared with two types, the super type and
\* source file setters, and client strings shared with the facade's own
\* interning.
CONSTANTS
  NulCut <- mcNoNul
  ClassNames <- mcClassNames
  FieldNames = {"x"}
  FieldTypes = {"I", "Lpkg/Foo;"}
  SuperTypes = {"Lpkg/Bar;"}
  SourceFiles = {"Foo.java"}
  ClientStrings <- mcClientStrings
  MaxClasses = 2
  MaxStaticFields = 1
SPECIFICATION Spec
INVARIANT TypeOK
INVARIANT InterningIdentity
PROPERTY ImplementsInternTables

---------------------------- MODULE MC_DexBuilder ----------------------------
(***************************************************************************)
(* Model values for DexBuilder.  Two classes, one field name and field    *)
(* types that coincide with a class type, so the nested interning of      *)
(* MakeClass, CreateField and the setters shares entries with the         *)
(* client's own strings.                                                   *)
(***************************************************************************)
EXTENDS DexBuilder

\* DotToDescriptor of the two class names.
mcClassNames == ("pkg.Foo" :> "Lpkg/Foo;") @@ ("pkg.Bar" :> "Lpkg/Bar;")

\* One class name only.
mcOneClass == "pkg.Foo" :> "Lpkg/Foo;"

\* Client strings: a field name, a class descriptor and a primitive
\* descriptor, each also interned by the facade.
mcClientStrings == {"x", "Lpkg/Foo;", "I"}

\* No string has an embedded NUL.
mcNoNul == <<>>

\* "a" followed by NUL and "b", and its C-string prefix "a".
mcNulStrings == {"a", "a\\0b"}
mcNulCut == "a\\0b" :> "a"
=============================================================================

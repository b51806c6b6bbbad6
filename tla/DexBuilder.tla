----------------------------- MODULE DexBuilder -----------------------------
(***************************************************************************)
(* The class-level facade of dex_builder.cc over the DexBuilder pools:     *)
(* DexBuilder::MakeClass and the client's own GetOrAddString calls,        *)
(* ClassBuilder::CreateField, setSuperClass and set_source_file, and       *)
(* FieldBuilder::Encode.  The pools are the record values of DexPools; a   *)
(* class node is a record of pool indices, and a ClassBuilder or           *)
(* FieldBuilder is named by the position of the class node it is bound    *)
(* to.  Every allocated class node is tracked by the dex file and so ends  *)
(* up in the image.                                                         *)
(***************************************************************************)
EXTENDS DexPools, Integers

CONSTANTS
  ClassNames,       \* dotted class name -> the descriptor DotToDescriptor gives
  FieldNames,       \* names passed to CreateField
  FieldTypes,       \* descriptors passed to CreateField
  SuperTypes,       \* descriptors passed to setSuperClass
  SourceFiles,      \* strings passed to set_source_file
  ClientStrings,    \* strings the client interns with GetOrAddString
  MaxClasses,       \* bound on MakeClass calls
  MaxStaticFields   \* bound on the static_fields of one class

VARIABLES
  pool,           \* the DexBuilder pools
  classes,        \* the ir::Class nodes, in allocation order
  classDef,       \* type_def->class_def: type index -> class position
  fieldBuilders,  \* the FieldBuilders handed out: [cls, decl]
  interned        \* history: [s, idx] of each client GetOrAddString

vars == <<pool, classes, classDef, fieldBuilders, interned>>

ObjectType == "Ljava/lang/Object;"

\* class_->source_file before set_source_file: no string.
NoSource == -1

Init ==
  /\ pool = EmptyPool
  /\ classes = <<>>
  /\ classDef = <<>>
  /\ fieldBuilders = {}
  /\ interned = {}

(* DexBuilder::MakeClass: allocate the class node, intern its type and   *)
(* make the node the type's class_def, then intern Object as the super   *)
(* type; access flags are public.                                         *)
ClassWithSuper(n, typeIdx, sup) ==
  /\ classes' = Append(classes, [name |-> n, type |-> typeIdx, super |-> sup.idx,
                                 source |-> NoSource, sfields |-> <<>>])
  /\ pool' = sup.pool
ClassWithType(n, ty) ==
  /\ classDef' = Put(classDef, ty.idx, Len(classes) + 1)
  /\ ClassWithSuper(n, ty.idx, GetOrAddType(ty.pool, ObjectType))
MakeClass(n) ==
  /\ Len(classes) < MaxClasses
  /\ ClassWithType(n, GetOrAddType(pool, ClassNames[n]))
  /\ UNCHANGED <<fieldBuilders, interned>>

(* ClassBuilder::CreateField: GetOrAddField on the builder's type         *)
(* descriptor, returning a FieldBuilder bound to the builder's class.     *)
FieldBuilderFor(k, f) ==
  /\ fieldBuilders' = fieldBuilders \cup {[cls |-> k, decl |-> f.idx]}
  /\ pool' = f.pool
CreateField(k, name, type) ==
  /\ FieldBuilderFor(k, GetOrAddField(pool, ClassNames[classes[k].name], name, type))
  /\ UNCHANGED <<classes, classDef, interned>>

(* FieldBuilder::Encode: append an encoded field for the declaration to  *)
(* the class's static_fields.                                             *)
EncodeField(b) ==
  /\ Len(classes[b.cls].sfields) < MaxStaticFields
  /\ classes' = [classes EXCEPT ![b.cls].sfields = Append(@, b.decl)]
  /\ UNCHANGED <<pool, classDef, fieldBuilders, interned>>

(* ClassBuilder::setSuperClass: the super type is interned and rebound.   *)
SuperOf(k, t) ==
  /\ classes' = [classes EXCEPT ![k].super = t.idx]
  /\ pool' = t.pool
SetSuperClass(k, d) ==
  /\ SuperOf(k, GetOrAddType(pool, d))
  /\ UNCHANGED <<classDef, fieldBuilders, interned>>

(* ClassBuilder::set_source_file: the name is interned and attached.      *)
SourceOf(k, s) ==
  /\ classes' = [classes EXCEPT ![k].source = s.idx]
  /\ pool' = s.pool
SetSourceFile(k, name) ==
  /\ SourceOf(k, GetOrAddString(pool, name))
  /\ UNCHANGED <<classDef, fieldBuilders, interned>>

(* DexBuilder::GetOrAddString called by the client.                       *)
Interned(name, s) ==
  /\ interned' = interned \cup {[s |-> name, idx |-> s.idx]}
  /\ pool' = s.pool
InternString(name) ==
  /\ Interned(name, GetOrAddString(pool, name))
  /\ UNCHANGED <<classes, classDef, fieldBuilders>>

Next ==
  \/ \E n \in DOMAIN ClassNames : MakeClass(n)
  \/ \E k \in DOMAIN classes, f \in FieldNames, t \in FieldTypes : CreateField(k, f, t)
  \/ \E b \in fieldBuilders : EncodeField(b)
  \/ \E k \in DOMAIN classes, d \in SuperTypes : SetSuperClass(k, d)
  \/ \E k \in DOMAIN classes, s \in SourceFiles : SetSourceFile(k, s)
  \/ \E s \in ClientStrings : InternString(s)

Spec == Init /\ [][Next]_vars

-----------------------------------------------------------------------------

(* The pools seen as the abstract intern tables: each index map read as   *)
(* the log of keys in index order, keyed as the lookup maps are (a type   *)
(* by its descriptor string, a field by its parent's descriptor and its   *)
(* name).                                                                  *)
Descriptor(t) == pool.stringsMap[pool.typesMap[t]]
StringLog == [i \in 1..pool.stringsNext |-> pool.stringsMap[i - 1]]
TypeLog == [i \in 1..pool.typesNext |-> Descriptor(i - 1)]
FieldLog == [i \in 1..pool.fieldsNext |->
               <<Descriptor(pool.fieldsMap[i - 1].parent),
                 pool.stringsMap[pool.fieldsMap[i - 1].name]>>]

StringTable == INSTANCE InternTable WITH log <- StringLog, lookup <- pool.strings
TypeTable == INSTANCE InternTable WITH log <- TypeLog, lookup <- pool.types
FieldTable == INSTANCE InternTable WITH log <- FieldLog, lookup <- pool.fields

(* Every step of the facade, with all the interning nested in it, keeps   *)
(* each pool an intern table (spec 3): the strings, types and field       *)
(* declarations already allocated keep their index and key, new ones take *)
(* the next indices, no key gets two entries, and the lookup map finds    *)
(* every entry under its own key.                                          *)
ImplementsInternTables == StringTable!Spec /\ TypeTable!Spec /\ FieldTable!Spec


(* Every reference a class node or a FieldBuilder holds is an index of   *)
(* an entry the pools registered (spec 3: references are to the single   *)
(* pool entry).                                                            *)
TypeOK ==
  /\ classes \in Seq([name : DOMAIN ClassNames,
                      type : DOMAIN pool.typesMap,
                      super : DOMAIN pool.typesMap,
                      source : DOMAIN pool.stringsMap \cup {NoSource},
                      sfields : Seq(DOMAIN pool.fieldsMap)])
  /\ \A t \in DOMAIN classDef : t \in DOMAIN pool.typesMap /\ classDef[t] \in DOMAIN classes
  /\ fieldBuilders \subseteq [cls : DOMAIN classes, decl : DOMAIN pool.fieldsMap]
  /\ interned \subseteq [s : ClientStrings, idx : DOMAIN pool.stringsMap]

(* Interning identity (spec 8): two client GetOrAddString calls return   *)
(* the same entry exactly when they pass equal strings, however the      *)
(* nested interning of MakeClass, CreateField and the setters interleaves *)
(* with them.                                                              *)
InterningIdentity ==
  \A a, b \in interned : (a.s = b.s) <=> (a.idx = b.idx)

=============================================================================

------------------------------ MODULE DexPools ------------------------------
(***************************************************************************)
(* The interning pools of DexBuilder (dex_builder.cc): strings, types,     *)
(* field declarations, method declarations and prototypes, together with  *)
(* the TypeDescriptor / Prototype value model they are keyed by.           *)
(*                                                                         *)
(* The module has no variables.  A pool is a record value and every       *)
(* GetOrAdd* operation is an operator from a pool to a record              *)
(* [pool |-> <the pool afterwards>, idx |-> <the entry returned>], so that *)
(* the nested interning the code does (a type interns its descriptor       *)
(* string, a method interns its name, parent and prototype) composes in    *)
(* the order the code performs it.  Components that own a pool             *)
(* (MethodBuilder, DexBuilder) keep it in a variable.                      *)
(*                                                                         *)
(* Each pool keeps the two structures the code keeps: the lookup map       *)
(* (strings_, types_by_descriptor_, field_decls_by_key_, method_id_map_,   *)
(* proto_map_) and the dex_file_ index map filled through                  *)
(* <kind>_indexes.AllocateIndex() (strings_map, types_map, ...).           *)
(***************************************************************************)
EXTENDS Naturals, Sequences, FiniteSets, TLC

CONSTANT
  NulCut   \* the strings with an embedded NUL, each mapped to the part before it

\* entry->c_str() of a string entry: the string up to its first NUL.
CStr(s) == IF s \in DOMAIN NulCut THEN NulCut[s] ELSE s

\* Left fold over a sequence, the loops of the code over a vector.  Each
\* step's result is compared with itself so that TLC computes it before
\* the next step instead of handing on a chain of unevaluated steps.
RECURSIVE SeqFoldLeft(_, _, _)
SeqFoldLeft(op(_, _), acc, seq) ==
  IF seq = <<>> THEN acc
  ELSE LET next == op(acc, Head(seq))
       IN IF next = next THEN SeqFoldLeft(op, next, Tail(seq)) ELSE acc

(***************************************************************************)
(* TypeDescriptor.  A type is its descriptor string (equality and hashing *)
(* are by descriptor only).  The descriptors are the static ones of        *)
(* dex_builder.cc 48-67 plus the object descriptors a model uses.          *)
(***************************************************************************)
PrimitiveCodes == {"I", "Z", "B", "C", "J", "S", "F", "D", "V"}
WideCodes == {"J", "D"}

IsObject(d) == d \notin PrimitiveCodes
IsPrimitive(d) == ~IsObject(d)
IsWide(d) == d \in WideCodes

\* ToBoxType: the primitive -> wrapper switch; ToUnBoxType: unbox_map.
BoxTable ==
  ("I" :> "Ljava/lang/Integer;") @@ ("Z" :> "Ljava/lang/Boolean;")
  @@ ("C" :> "Ljava/lang/Character;") @@ ("J" :> "Ljava/lang/Long;")
  @@ ("S" :> "Ljava/lang/Short;") @@ ("F" :> "Ljava/lang/Float;")
  @@ ("D" :> "Ljava/lang/Double;") @@ ("B" :> "Ljava/lang/Byte;")
ToBoxType(d) == BoxTable[d]
ToUnBoxType(d) == CHOOSE p \in DOMAIN BoxTable : BoxTable[p] = d
IsWrapper(d) == \E p \in DOMAIN BoxTable : BoxTable[p] = d

\* value_method_map: the accessor that unwraps each wrapper type.
ValueMethod ==
  ("Ljava/lang/Integer;" :> "intValue") @@ ("Ljava/lang/Boolean;" :> "booleanValue")
  @@ ("Ljava/lang/Character;" :> "charValue") @@ ("Ljava/lang/Long;" :> "longValue")
  @@ ("Ljava/lang/Short;" :> "shortValue") @@ ("Ljava/lang/Float;" :> "floatValue")
  @@ ("Ljava/lang/Double;" :> "doubleValue") @@ ("Ljava/lang/Byte;" :> "byteValue")

\* short_descriptor: arrays and objects share 'L', a primitive is its code.
ShortDescriptor(d) == IF IsObject(d) THEN "L" ELSE d

(***************************************************************************)
(* Prototype: a return type and a sequence of parameter types.            *)
(***************************************************************************)
Prototype(ret, params) == [ret |-> ret, params |-> params]

\* Shorty(): the return type's short descriptor followed by each parameter's.
Shorty(proto) ==
  SeqFoldLeft(LAMBDA acc, d : acc \o ShortDescriptor(d),
           ShortDescriptor(proto.ret), proto.params)

\* Number of argument words of a prototype: a wide type takes two.
ParamWords(proto) ==
  SeqFoldLeft(LAMBDA acc, d : acc + IF IsWide(d) THEN 2 ELSE 1, 0, proto.params)

(***************************************************************************)
(* The pools of a fresh DexBuilder: every map empty, every index counter   *)
(* at 0.  methodDecls is dex_file_->methods.size().                        *)
(***************************************************************************)
EmptyPool ==
  [strings |-> <<>>, stringsMap |-> <<>>, stringsNext |-> 0,
   types |-> <<>>, typesMap |-> <<>>, typesNext |-> 0,
   fields |-> <<>>, fieldsMap |-> <<>>, fieldsNext |-> 0,
   methods |-> <<>>, methodsMap |-> <<>>, methodsNext |-> 0, methodDecls |-> 0,
   protos |-> <<>>]

Put(f, k, v) == (k :> v) @@ f

\* Variant of GetOrAddString without the strings_ lookup: every call makes
\* a new entry.
GetOrAddStringFresh(p, s) ==
  [pool |-> [p EXCEPT !.strings = Put(@, CStr(s), p.stringsNext),
                      !.stringsMap = Put(@, p.stringsNext, s),
                      !.stringsNext = @ + 1],
   idx |-> p.stringsNext]

\* DexBuilder::GetOrAddString: strings_ is searched with the whole string
\* but the entry is filed under entry->c_str().  On a miss a new entry
\* always gets the next strings index; when its c_str() key is already
\* taken, emplace keeps the old entry and that is what is returned.  (Each
\* step of a nested interning passes the result of the previous one on as
\* an argument.)
GetOrAddString(p, s) ==
  IF s \in DOMAIN p.strings THEN [pool |-> p, idx |-> p.strings[s]]
  ELSE [pool |-> [p EXCEPT !.strings = IF CStr(s) \in DOMAIN @ THEN @
                                       ELSE Put(@, CStr(s), p.stringsNext),
                           !.stringsMap = Put(@, p.stringsNext, s),
                           !.stringsNext = @ + 1],
        idx |-> IF CStr(s) \in DOMAIN p.strings THEN p.strings[CStr(s)]
                ELSE p.stringsNext]

\* Variant of NewType that allocates the types index but never files the
\* type in dex_file_->types_map.
NewTypeUnmapped(s, d) ==
  [pool |-> [s.pool EXCEPT !.types = Put(@, CStr(s.pool.stringsMap[s.idx]), s.pool.typesNext),
                           !.typesNext = @ + 1],
   idx |-> s.pool.typesNext]

\* The type entry built from its interned descriptor string s, filed in
\* types_by_descriptor_ under that string entry's c_str().
NewType(s, d) ==
  [pool |-> [s.pool EXCEPT !.types = Put(@, CStr(s.pool.stringsMap[s.idx]), s.pool.typesNext),
                           !.typesMap = Put(@, s.pool.typesNext, s.idx),
                           !.typesNext = @ + 1],
   idx |-> s.pool.typesNext]

\* DexBuilder::GetOrAddType: interns the descriptor string first, then
\* allocates the type index.
GetOrAddType(p, d) ==
  IF d \in DOMAIN p.types THEN [pool |-> p, idx |-> p.types[d]]
  ELSE NewType(GetOrAddString(p, d), d)

\* Variant of NewField that files the declaration without allocating a
\* fields index: it takes the current one and leaves the counter.
NewFieldSameIndex(key, parentIdx, nameIdx, ty) ==
  [pool |-> [ty.pool EXCEPT
               !.fields = Put(@, key, ty.pool.fieldsNext),
               !.fieldsMap = Put(@, ty.pool.fieldsNext,
                                 [parent |-> parentIdx, name |-> nameIdx, type |-> ty.idx])],
   idx |-> ty.pool.fieldsNext]

\* The steps of GetOrAddField after the parent type: the name, the type,
\* then the fields index.
NewField(key, parentIdx, nameIdx, ty) ==
  [pool |-> [ty.pool EXCEPT
               !.fields = Put(@, key, ty.pool.fieldsNext),
               !.fieldsMap = Put(@, ty.pool.fieldsNext,
                                 [parent |-> parentIdx, name |-> nameIdx, type |-> ty.idx]),
               !.fieldsNext = @ + 1],
   idx |-> ty.pool.fieldsNext]
FieldWithName(key, parentIdx, nm, type) ==
  NewField(key, parentIdx, nm.idx, GetOrAddType(nm.pool, type))
FieldWithParent(key, tp, name, type) ==
  FieldWithName(key, tp.idx, GetOrAddString(tp.pool, name), type)

\* DexBuilder::GetOrAddField: the key is (parent, name); the field's type
\* is not part of it.
GetOrAddField(p, parent, name, type) ==
  IF <<parent, name>> \in DOMAIN p.fields
  THEN [pool |-> p, idx |-> p.fields[<<parent, name>>]]
  ELSE FieldWithParent(<<parent, name>>, GetOrAddType(p, parent), name, type)

\* The steps of Prototype::Encode after the shorty: the return type, then
\* each parameter type in order; no parameter list when there are none.
AppendParamType(acc, t) == [pool |-> t.pool, list |-> Append(acc.list, t.idx)]
AddParamType(acc, d) == AppendParamType(acc, GetOrAddType(acc.pool, d))
ProtoWithParams(shortyIdx, retIdx, ps, proto) ==
  [pool |-> ps.pool,
   idx |-> [shorty |-> shortyIdx, ret |-> retIdx,
            params |-> IF proto.params = <<>> THEN "null" ELSE ps.list]]
ProtoWithRet(shortyIdx, rt, proto) ==
  ProtoWithParams(shortyIdx, rt.idx,
                  SeqFoldLeft(AddParamType, [pool |-> rt.pool, list |-> <<>>], proto.params),
                  proto)
ProtoWithShorty(sh, proto) == ProtoWithRet(sh.idx, GetOrAddType(sh.pool, proto.ret), proto)

\* Prototype::Encode: interns the shorty, the return type, then each
\* parameter type in order.
EncodeProto(p, proto) == ProtoWithShorty(GetOrAddString(p, Shorty(proto)), proto)

RecordProto(e, proto) == [pool |-> [e.pool EXCEPT !.protos = Put(@, proto, e.idx)], idx |-> e.idx]

\* DexBuilder::GetOrEncodeProto: one encoded proto per Prototype value.
GetOrEncodeProto(p, proto) ==
  IF proto \in DOMAIN p.protos THEN [pool |-> p, idx |-> p.protos[proto]]
  ELSE RecordProto(EncodeProto(p, proto), proto)

\* The steps of GetOrDeclareMethod after the name: the parent type, the
\* proto, then the methods index and the method_id_map_ entry.
NewMethod(key, id, nameIdx, parentIdx, pr) ==
  [pool |-> [pr.pool EXCEPT
               !.methodsMap = Put(@, pr.pool.methodsNext,
                                  [name |-> nameIdx, parent |-> parentIdx, proto |-> key[3]]),
               !.methodsNext = @ + 1,
               !.methods = Put(@, key, [id |-> id, decl |-> pr.pool.methodsNext])],
   idx |-> [id |-> id, decl |-> pr.pool.methodsNext]]
MethodWithParent(key, id, nameIdx, tp) ==
  NewMethod(key, id, nameIdx, tp.idx, GetOrEncodeProto(tp.pool, key[3]))
MethodWithName(key, id, nm) == MethodWithParent(key, id, nm.idx, GetOrAddType(nm.pool, key[1]))

\* Variant of GetOrDeclareMethod that takes the id as
\* dex_file_->methods.size(), without the - 1.
GetOrDeclareMethodSizeId(p, type, name, proto) ==
  IF <<type, name, proto>> \in DOMAIN p.methods
  THEN [pool |-> p, idx |-> p.methods[<<type, name, proto>>]]
  ELSE MethodWithName(<<type, name, proto>>, p.methodDecls + 1,
                      GetOrAddString([p EXCEPT !.methodDecls = @ + 1], name))

\* DexBuilder::GetOrDeclareMethod.  On a miss a MethodDecl is allocated
\* (so id = dex_file_->methods.size() - 1), its name, parent type and proto
\* are interned in that order, and a methods index is allocated.  The
\* result is the MethodDeclData {id, decl}; decl is named by its index.
GetOrDeclareMethod(p, type, name, proto) ==
  IF <<type, name, proto>> \in DOMAIN p.methods
  THEN [pool |-> p, idx |-> p.methods[<<type, name, proto>>]]
  ELSE MethodWithName(<<type, name, proto>>, p.methodDecls,
                      GetOrAddString([p EXCEPT !.methodDecls = @ + 1], name))

\* DexBuilder::GetPrototypeByMethodId: the prototype of the method-map
\* entry whose id is the argument, or "absent".
GetPrototypeByMethodId(p, id) ==
  LET keys == {k \in DOMAIN p.methods : p.methods[k].id = id}
  IN IF keys = {} THEN "absent" ELSE (CHOOSE k \in keys : TRUE)[3]

=============================================================================

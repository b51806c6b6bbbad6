---------------------------- MODULE MethodBuilder ----------------------------
(***************************************************************************)
(* One MethodBuilder of DexBuilder (dex_builder.cc 372-820): the authoring *)
(* calls a client makes on it (AllocRegister and the LiveRegister release, *)
(* MakeLabel, AddInstruction, BuildBoxIfPrimitive, BuildUnBoxIfPrimitive) *)
(* and the single Encode that turns the instruction list into code units, *)
(* resolving labels in one pass with back-patching.                        *)
(*                                                                         *)
(* The builder belongs to a class whose DexBuilder pools it shares: the    *)
(* box/unbox helpers and Encode intern into them, so the pools are part of *)
(* the state (DexPools).                                                   *)
(*                                                                         *)
(* Data abstraction: an operand Value is a record [kind, v]; an emitted    *)
(* code unit is a record [op, regs, x]: the first unit of an instruction   *)
(* carries its opcode name and the physical registers it names, every     *)
(* unit carries in x the 16-bit field the format stores there (a branch's *)
(* offset, an invoke's argument count or method index, an immediate).     *)
(***************************************************************************)
EXTENDS DexPools, Integers, Sequences, FiniteSets
LOCAL INSTANCE SequencesExt

CONSTANTS
  ClassDescriptor,   \* descriptor of the class the method is declared on
  MethodName,
  ReturnType,        \* the method's prototype
  ParamTypes,
  Callees,           \* methods the client invokes: records [type, name, proto, kind]
  BoxTypes,          \* types handed to BuildBoxIfPrimitive / BuildUnBoxIfPrimitive
  Immediates,        \* immediates handed to const moves
  Strings,           \* strings handed to const-string
  ClientOps,         \* the kinds of authoring call the client makes
  MaxInstructions,   \* bound on the instruction list
  MaxRegisters,      \* bound on register_liveness_
  MaxLabels,         \* bound on labels_
  ShortRegs,         \* registers below this fit a 4-bit operand (16 in the code)
  ScratchRegs,       \* kMaxScratchRegisters
  AssertsEnabled     \* FALSE models a build with NDEBUG, where assert() is empty

ASSUME ShortRegs \in Nat \ {0} /\ ScratchRegs \in Nat /\ AssertsEnabled \in BOOLEAN
ASSUME ClientOps \subseteq {"const", "move", "return", "branch", "bind", "invoke", "box", "unbox",
                            "object", "field", "string"}

VARIABLES
  pool,          \* the DexBuilder pools
  liveness,      \* register_liveness_ (register i is liveness[i+1])
  labels,        \* labels_: LabelData [bound, refs]
  instructions,  \* instructions_
  buffer,        \* buffer_: the code units
  maxArgs,       \* max_args_
  code,          \* the ir::Code Encode attaches, or NoCode before Encode
  fault,         \* the assert() that aborted Encode, or "none"
  peak           \* history: the most registers ever live at once

vars == <<pool, liveness, labels, instructions, buffer, maxArgs, code, fault, peak>>

NoCode == [registers |-> -1, ins |-> -1, outs |-> -1]
Unbound == -1

(***************************************************************************)
(* Values and instructions (the Value and Instruction factories).          *)
(***************************************************************************)
\* An immediate is a size_t; it is kept as its low 16 bits v and the rest hi
\* (value = hi * 65536 + v), which keeps values up to and past 2^32 within
\* TLC's integers.  Every other Value has hi = 0.
Reg(i) == [kind |-> "reg", v |-> i, hi |-> 0]
Param(p) == [kind |-> "param", v |-> p, hi |-> 0]
Imm(n) == [kind |-> "imm", v |-> n % 65536, hi |-> n \div 65536]
ImmOf(pair) == [kind |-> "imm", v |-> pair[2], hi |-> pair[1]]
Lbl(l) == [kind |-> "label", v |-> l, hi |-> 0]
TypeVal(t) == [kind |-> "type", v |-> t, hi |-> 0]
StrVal(s) == [kind |-> "string", v |-> s, hi |-> 0]
NoValue == [kind |-> "none", v |-> 0, hi |-> 0]
WidePair(x) == [x EXCEPT !.v = @ + 1]
IsVariable(x) == x.kind \in {"reg", "param"}

\* The dex opcode EncodeInstruction passes for each Instruction::Op.
DexOpcode ==
  ("kReturn" :> "return") @@ ("kReturnObject" :> "return-object")
  @@ ("kReturnWide" :> "return-wide") @@ ("kInvokeStatic" :> "invoke-static")
  @@ ("kInvokeVirtual" :> "invoke-virtual") @@ ("kInvokeStaticRange" :> "invoke-static/range")
  @@ ("kInvokeVirtualRange" :> "invoke-virtual/range")
  @@ ("kInvokeDirect" :> "invoke-direct") @@ ("kInvokeDirectRange" :> "invoke-direct/range")
  @@ ("kInvokeInterface" :> "invoke-interface")
  @@ ("kInvokeInterfaceRange" :> "invoke-interface/range")
  @@ ("kBranchEqz" :> "if-eqz") @@ ("kBranchNEqz" :> "if-nez")
  @@ ("kGetStaticField" :> "sget") @@ ("kGetStaticObjectField" :> "sget-object")
  @@ ("kSetStaticField" :> "sput") @@ ("kSetStaticObjectField" :> "sput-object")
  @@ ("kGetInstanceField" :> "iget") @@ ("kSetInstanceField" :> "iput")

ShortInvokes == {"kInvokeStatic", "kInvokeVirtual", "kInvokeDirect", "kInvokeInterface"}
RangeInvokes == {"kInvokeStaticRange", "kInvokeVirtualRange", "kInvokeDirectRange",
                 "kInvokeInterfaceRange"}
Branches == {"kBranchEqz", "kBranchNEqz"}
FieldOps == {"kGetStaticField", "kGetStaticObjectField", "kSetStaticField",
             "kSetStaticObjectField", "kGetInstanceField", "kSetInstanceField"}

Instr(op, dest, args, index, result) ==
  [op |-> op, dest |-> dest, args |-> args, index |-> index, result |-> result]

MethodProto == Prototype(ReturnType, ParamTypes)
NumArgs == ParamWords(MethodProto)
NumRegisters == Len(liveness)
LiveRegs == {i \in 0 .. NumRegisters - 1 : liveness[i + 1]}

\* Mutant: a parameter resolved one register too low.
RegisterValueOffByOne(x) == IF x.kind = "reg" THEN x.v ELSE x.v + NumRegisters - 1

\* MethodBuilder::RegisterValue: a parameter lives after the registers.
RegisterValue(x) == IF x.kind = "reg" THEN x.v ELSE x.v + NumRegisters

(***************************************************************************)
(* Instruction formats (the Encode* emitters).  U is an instruction's     *)
(* first unit, X a further unit holding a 16-bit field.                    *)
(***************************************************************************)
U(op, regs, x) == [op |-> op, regs |-> regs, x |-> x]
X(x) == [op |-> "", regs |-> <<>>, x |-> x]
Enc10x(op) == <<U(op, <<>>, 0)>>
Enc11x(op, a) == <<U(op, <<a>>, 0)>>
Enc11n(op, a, b) == <<U(op, <<a>>, b)>>
Enc21(op, a, b) == <<U(op, <<a>>, 0), X(b % 65536)>>
Enc31i(op, a, lo, hi) == <<U(op, <<a>>, 0), X(lo), X(hi % 65536)>>
Enc32x(op, a, b) == <<U(op, <<a, b>>, 0), X(a), X(b)>>
Enc35c(op, n, idx, regs) == <<U(op, regs, n), X(idx), X(0)>>
Enc3rc(op, n, idx, base) == <<U(op, [k \in 1 .. n |-> base + k - 1], n), X(idx), X(base)>>
Enc22c(op, a, b, idx) == <<U(op, <<a, b>>, 0), X(idx)>>
Enc23x(op, a, b, c) == <<U(op, <<a, b, c>>, 0), X(0)>>

\* The state Encode threads through the instruction list.
Emit(st, units) == [st EXCEPT !.buf = @ \o units]
Fail(st, name) == [st EXCEPT !.fault = name]

MoveResult(ins) ==
  IF ins.dest = NoValue THEN <<>>
  ELSE Enc11x(CASE ins.result = "object" -> "move-result-object"
                [] ins.result = "wide" -> "move-result-wide"
                [] OTHER -> "move-result", RegisterValue(ins.dest))

\* MethodBuilder::EncodeReturn
EncodeReturn(st, ins) ==
  IF ins.args = <<>> THEN Emit(st, Enc10x("return-void"))
  ELSE Emit(st, Enc11x(DexOpcode[ins.op], RegisterValue(ins.args[1])))

\* MethodBuilder::EncodeMove: an immediate takes the narrowest format the
\* code selects; a register source always takes the 16-bit move form.
EncodeMove(st, ins) ==
  LET dst == RegisterValue(ins.dest)
      src == ins.args[1]
  IN CASE src.kind = "imm" /\ ins.op = "kMove" ->
            IF dst < ShortRegs /\ src.hi = 0 /\ src.v < 8
            THEN Emit(st, Enc11n("const/4", dst, src.v))
            ELSE IF src.hi = 0 THEN Emit(st, Enc21("const/16", dst, src.v))
            ELSE Emit(st, Enc31i("const", dst, src.v, src.hi))
       [] src.kind = "imm" /\ ins.op = "kMoveWide" ->
            IF src.hi = 0 THEN Emit(st, Enc21("const-wide/16", dst, src.v))
            ELSE IF src.hi <= 65535 THEN Emit(st, Enc31i("const-wide/32", dst, src.v, src.hi))
            ELSE IF AssertsEnabled THEN Fail(st, "WideConstUnsupported") ELSE st
       [] src.kind = "string" ->
            IF dst >= 256 /\ AssertsEnabled THEN Fail(st, "RegOver8Bits")
            ELSE IF src.v >= 65536 /\ AssertsEnabled THEN Fail(st, "JumboString")
            ELSE Emit(st, Enc21("const-string", dst, src.v))
       [] IsVariable(src) ->
            Emit(st, Enc32x(CASE ins.op = "kMove" -> "move/16"
                              [] ins.op = "kMoveWide" -> "move-wide/16"
                              [] OTHER -> "move-object/16", dst, RegisterValue(src)))

\* MethodBuilder::EncodeInvoke: at most 4 arguments, each narrowed to the
\* uint8_t arguments[] slot and required to be a 4-bit register.
EncodeInvoke(st, ins) ==
  LET args == [k \in DOMAIN ins.args |-> RegisterValue(ins.args[k]) % 256]
      long == \E k \in DOMAIN args : ~(args[k] < ShortRegs)
      call == IF long
              THEN IF AssertsEnabled THEN Fail(st, "LongArgs") ELSE st
              ELSE Emit(st, Enc35c(DexOpcode[ins.op], Len(args), ins.index, args))
  IN IF ~(Len(ins.args) < 5) /\ AssertsEnabled THEN Fail(st, "TooManyArgs")
     ELSE IF call.fault # "none" THEN call
     ELSE [Emit(call, MoveResult(ins)) EXCEPT !.maxArgs = Max({@, Len(ins.args)})]

\* MethodBuilder::EncodeInvokeRange: args are <<first register, Imm(count)>>.
EncodeInvokeRange(st, ins) ==
  LET c == Emit(st, Enc3rc(DexOpcode[ins.op], ins.args[2].v, ins.index, RegisterValue(ins.args[1])))
  IN [Emit(c, MoveResult(ins)) EXCEPT !.maxArgs = Max({@, Len(ins.args)})]

\* MethodBuilder::LabelValue for the instruction at buffer offset io whose
\* offset field is at fo: the offset now if the label is bound, otherwise a
\* zero placeholder and a pending reference.
LabelValue(st, l, io, fo) ==
  LET bound == st.labels[l].bound
  IN IF bound # Unbound THEN [st |-> st, x |-> bound - io]
     ELSE [st |-> [st EXCEPT !.labels[l].refs = @ \cup {[io |-> io, fo |-> fo]}], x |-> 0]

\* MethodBuilder::EncodeBranch
EncodeBranch(st, ins) ==
  LET io == Len(st.buf)
      lv == LabelValue(st, ins.args[2].v + 1, io, io + 1)
  IN Emit(lv.st, Enc21(DexOpcode[ins.op], RegisterValue(ins.args[1]), lv.x))

\* MethodBuilder::EncodeNew and MethodBuilder::EncodeCast: the destination
\* must fit the 8-bit register of format 21c.
EncodeTypeOp(st, ins, op) ==
  IF ~(RegisterValue(ins.dest) < 256) /\ AssertsEnabled THEN Fail(st, "RegOver8Bits")
  ELSE Emit(st, Enc21(op, RegisterValue(ins.dest), ins.args[1].v))

\* MethodBuilder::Encode22c (dex_builder.h, not in the repository), in its
\* upstream form: it asserts that both registers are 4-bit, then packs them.
Encode22c(st, op, a, b, idx) ==
  IF (a >= ShortRegs \/ b >= ShortRegs) /\ AssertsEnabled THEN Fail(st, "RegOver4Bits")
  ELSE Emit(st, Enc22c(op, a, b, idx))

\* MethodBuilder::EncodeNewArray: new-array dest, size, type, with no check
\* of its own on the two registers.
EncodeNewArray(st, ins) ==
  Encode22c(st, "new-array", RegisterValue(ins.dest), RegisterValue(ins.args[1]), ins.args[2].v)

\* MethodBuilder::EncodeAput: aput-object value, array, index.
EncodeAput(st, ins) ==
  Emit(st, Enc23x("aput-object", RegisterValue(ins.dest), RegisterValue(ins.args[1]),
                  RegisterValue(ins.args[2])))

\* MethodBuilder::EncodeFieldOp: static gets and puts take format 21c,
\* instance ones 22c with the value register first and the object second.
EncodeFieldOp(st, ins) ==
  CASE ins.op \in {"kGetStaticField", "kGetStaticObjectField"} ->
         Emit(st, Enc21(DexOpcode[ins.op], RegisterValue(ins.dest), ins.index))
    [] ins.op \in {"kSetStaticField", "kSetStaticObjectField"} ->
         Emit(st, Enc21(DexOpcode[ins.op], RegisterValue(ins.args[1]), ins.index))
    [] ins.op = "kGetInstanceField" ->
         Encode22c(st, "iget", RegisterValue(ins.dest), RegisterValue(ins.args[1]), ins.index)
    [] ins.op = "kSetInstanceField" ->
         Encode22c(st, "iput", RegisterValue(ins.args[2]), RegisterValue(ins.args[1]), ins.index)

\* Mutant: a reference patched relative to its offset field, not to the
\* start of the branch instruction.
BindLabelFromField(st, ins) ==
  LET l == ins.args[1].v + 1
      at == Len(st.buf)
      refs == st.labels[l].refs
  IN IF st.labels[l].bound # Unbound /\ AssertsEnabled THEN Fail(st, "LabelRebound")
     ELSE [st EXCEPT
             !.labels[l] = [bound |-> at, refs |-> {}],
             !.buf = [k \in DOMAIN @ |->
                        IF \E r \in refs : r.fo + 1 = k
                        THEN X((at - (CHOOSE r \in refs : r.fo + 1 = k).fo) % 65536)
                        ELSE @[k]]]

\* MethodBuilder::BindLabel: bind to the current length and patch every
\* pending reference with bound - instruction_offset.
BindLabel(st, ins) ==
  LET l == ins.args[1].v + 1
      at == Len(st.buf)
      refs == st.labels[l].refs
  IN IF st.labels[l].bound # Unbound /\ AssertsEnabled THEN Fail(st, "LabelRebound")
     ELSE [st EXCEPT
             !.labels[l] = [bound |-> at, refs |-> {}],
             !.buf = [k \in DOMAIN @ |->
                        IF \E r \in refs : r.fo + 1 = k
                        THEN X((at - (CHOOSE r \in refs : r.fo + 1 = k).io) % 65536)
                        ELSE @[k]]]

\* MethodBuilder::EncodeInstruction: the dispatch on the opcode.  An assert
\* that fired aborts the process, so nothing after it is encoded.
EncodeInstruction(st, ins) ==
  IF st.fault # "none" THEN st
  ELSE CASE ins.op \in {"kReturn", "kReturnObject", "kReturnWide"} -> EncodeReturn(st, ins)
         [] ins.op \in {"kMove", "kMoveWide", "kMoveObject"} -> EncodeMove(st, ins)
         [] ins.op \in ShortInvokes -> EncodeInvoke(st, ins)
         [] ins.op \in RangeInvokes -> EncodeInvokeRange(st, ins)
         [] ins.op = "kBindLabel" -> BindLabel(st, ins)
         [] ins.op \in Branches -> EncodeBranch(st, ins)
         [] ins.op = "kNew" -> EncodeTypeOp(st, ins, "new-instance")
         [] ins.op = "kNewArray" -> EncodeNewArray(st, ins)
         [] ins.op = "kCheckCast" -> EncodeTypeOp(st, ins, "check-cast")
         [] ins.op \in FieldOps -> EncodeFieldOp(st, ins)
         [] ins.op = "kAputObject" -> EncodeAput(st, ins)

\* EncodeInstructions: EncodeInstruction over instructions_ in order.
EncodeInstructions(st) == SeqFoldLeft(EncodeInstruction, st, instructions)

(***************************************************************************)
(* Initial state: DexBuilder::MakeClass interned the class type and the    *)
(* default super type, ClassBuilder::CreateMethod declared the method, and *)
(* the MethodBuilder starts with no registers, labels or instructions.     *)
(***************************************************************************)
Init ==
  LET cls == GetOrAddType(EmptyPool, ClassDescriptor)
      sup == GetOrAddType(cls.pool, "Ljava/lang/Object;")
      decl == GetOrDeclareMethod(sup.pool, ClassDescriptor, MethodName, MethodProto)
  IN /\ pool = decl.pool
     /\ liveness = <<>>
     /\ labels = <<>>
     /\ instructions = <<>>
     /\ buffer = <<>>
     /\ maxArgs = 0
     /\ code = NoCode
     /\ fault = "none"
     /\ peak = 0

\* The client authors only until Encode has consumed the builder.
Authoring == code = NoCode

(***************************************************************************)
(* Registers.                                                              *)
(***************************************************************************)
\* Mutant: a released register is never reused.
AllocRegisterAppend ==
  /\ Authoring
  /\ NumRegisters < MaxRegisters
  /\ liveness' = Append(liveness, TRUE)
  /\ peak' = Max({peak, Cardinality(LiveRegs')})
  /\ UNCHANGED <<pool, labels, instructions, buffer, maxArgs, code, fault>>

\* MethodBuilder::AllocRegister: the first free register, else a new one.
AllocRegister ==
  LET free == {i \in 0 .. NumRegisters - 1 : ~liveness[i + 1]}
  IN /\ Authoring
     /\ IF free # {} THEN liveness' = [liveness EXCEPT ![Min(free) + 1] = TRUE]
        ELSE /\ NumRegisters < MaxRegisters
             /\ liveness' = Append(liveness, TRUE)
     /\ peak' = Max({peak, Cardinality(LiveRegs')})
     /\ UNCHANGED <<pool, labels, instructions, buffer, maxArgs, code, fault>>

\* ~LiveRegister: a handle going out of scope clears its liveness bit.
ReleaseRegister(i) ==
  /\ liveness' = [liveness EXCEPT ![i + 1] = FALSE]
  /\ UNCHANGED <<pool, labels, instructions, buffer, maxArgs, code, fault, peak>>

\* MethodBuilder::MakeLabel: a new unbound label.
MakeLabel ==
  /\ Authoring
  /\ Len(labels) < MaxLabels
  /\ labels' = Append(labels, [bound |-> Unbound, refs |-> {}])
  /\ UNCHANGED <<pool, liveness, instructions, buffer, maxArgs, code, fault, peak>>

(***************************************************************************)
(* Instructions.                                                           *)
(***************************************************************************)
Regs == {Reg(i) : i \in LiveRegs}
Operands == Regs \cup {Param(p) : p \in 0 .. NumArgs - 1}

\* The operands a well-typed client passes where a value of type t is
\* expected: a live register (with its pair live if t is wide), or the
\* parameter declared with type t, named by its first argument word.
ParamStart(j) == ParamWords(Prototype("V", SubSeq(ParamTypes, 1, j - 1)))
OperandsOf(t) ==
  {Reg(i) : i \in {r \in LiveRegs : IsWide(t) => r + 1 \in LiveRegs}}
  \cup {Param(ParamStart(j)) : j \in {j \in DOMAIN ParamTypes : ParamTypes[j] = t}}
ObjectOperands == Regs \cup {Param(ParamStart(j)) : j \in {j \in DOMAIN ParamTypes : IsObject(ParamTypes[j])}}

\* MethodBuilder::AddInstruction
AddInstruction(ins) ==
  /\ Authoring
  /\ Len(instructions) < MaxInstructions
  /\ instructions' = Append(instructions, ins)
  /\ UNCHANGED <<liveness, labels, buffer, maxArgs, code, fault, peak>>

BoundInList(l) == \E k \in DOMAIN instructions :
                    instructions[k].op = "kBindLabel" /\ instructions[k].args[1] = Lbl(l)

\* The instructions a client hands to AddInstruction directly.  A label is
\* bound at most once, as the API requires.
ClientInstructions ==
  (IF "const" \in ClientOps
   THEN {Instr(or[1], or[2], <<n>>, 0, "none") :
           or \in ({"kMove"} \X (OperandsOf("I") \cap Regs)) \cup ({"kMoveWide"} \X (OperandsOf("J") \cap Regs)),
           n \in {ImmOf(i) : i \in Immediates}} ELSE {})
  \cup (IF "move" \in ClientOps
        THEN {Instr("kMove", rs[1], <<rs[2]>>, 0, "none") :
                rs \in {rs \in Regs \X OperandsOf("I") : rs[1] # rs[2]}} ELSE {})
  \cup (IF "return" \in ClientOps
        THEN IF ReturnType = "V" THEN {Instr("kReturn", NoValue, <<>>, 0, "none")}
             ELSE {Instr(CASE IsObject(ReturnType) -> "kReturnObject"
                           [] IsWide(ReturnType) -> "kReturnWide"
                           [] OTHER -> "kReturn", NoValue, <<r>>, 0, "none")
                     : r \in OperandsOf(ReturnType)} ELSE {})
  \cup (IF "branch" \in ClientOps
        THEN {Instr(b, NoValue, <<t, Lbl(l)>>, 0, "none") :
                b \in Branches, t \in Operands, l \in 0 .. Len(labels) - 1} ELSE {})
  \cup (IF "bind" \in ClientOps
        THEN {Instr("kBindLabel", NoValue, <<Lbl(l)>>, 0, "none") :
                l \in {m \in 0 .. Len(labels) - 1 : ~BoundInList(m)}} ELSE {})

\* n consecutive operands of base's kind starting at base.
Run(base, n) == [k \in 1 .. n |-> [base EXCEPT !.v = @ + k - 1]]
ResultKind(t) == IF IsObject(t) THEN "object" ELSE IF IsWide(t) THEN "wide" ELSE "narrow"

\* The Instruction::Op of a short call of each kind of callee.
CallOp == ("static" :> "kInvokeStatic") @@ ("virtual" :> "kInvokeVirtual")
          @@ ("direct" :> "kInvokeDirect") @@ ("interface" :> "kInvokeInterface")

\* A client call of a callee: GetOrDeclareMethod for its id, then the
\* invoke, in the short form on 4-bit registers or in the range form.
InvokeCallee(c, range, base, dest) ==
  LET words == ParamWords(c.proto) + IF c.kind = "static" THEN 0 ELSE 1
      run == Run(base, words)
      m == GetOrDeclareMethod(pool, c.type, c.name, c.proto)
      op == CallOp[c.kind]
      ins == IF range
             THEN Instr(op \o "Range", dest, <<base, Imm(words)>>, m.idx.id, ResultKind(c.proto.ret))
             ELSE Instr(op, dest, run, m.idx.id, ResultKind(c.proto.ret))
  IN /\ "invoke" \in ClientOps
     /\ \A k \in 1 .. words : run[k] \in Regs
     /\ range \/ (words <= 4 /\ \A k \in 1 .. words : run[k].kind = "reg" /\ run[k].v < ShortRegs)
     /\ (dest = NoValue) = (c.proto.ret = "V")
     /\ AddInstruction(ins)
     /\ pool' = m.pool

\* Object construction, type checks and arrays as a client writes them:
\* the type operand is a GetOrAddType of the class or of Object[].
ArrayType == "[Ljava/lang/Object;"
TypedInstruction(op, dest, args, d) ==
  LET ty == GetOrAddType(pool, d)
  IN /\ "object" \in ClientOps
     /\ AddInstruction(Instr(op, dest, args \o <<TypeVal(ty.idx)>>, 0, "none"))
     /\ pool' = ty.pool
AputObject(value, array, index) ==
  /\ "object" \in ClientOps
  /\ AddInstruction(Instr("kAputObject", value, <<array, index>>, 0, "none"))
  /\ UNCHANGED pool

\* A field access on a field of the class, declared with GetOrAddField:
\* the int static "count", the object static "self", the int "value".
FieldInstruction(op, dest, args, name, type) ==
  LET f == GetOrAddField(pool, ClassDescriptor, name, type)
  IN /\ "field" \in ClientOps
     /\ AddInstruction(Instr(op, dest, args, f.idx, "none"))
     /\ pool' = f.pool

\* const-string as a client writes it: a kMove from the string operand
\* of one of its strings, interned with GetOrAddString.
ConstString(dest, s) ==
  LET str == GetOrAddString(pool, s)
  IN /\ "string" \in ClientOps
     /\ AddInstruction(Instr("kMove", dest, <<StrVal(str.idx)>>, 0, "none"))
     /\ pool' = str.pool

\* Mutant: a wide primitive boxed as if it took one argument word.
BuildBoxIfPrimitiveNarrow(target, type, src) ==
  LET box == ToBoxType(type)
      valueOf == GetOrDeclareMethod(pool, box, "valueOf", Prototype(box, <<type>>))
      id == valueOf.idx.id
      ins == IF RegisterValue(src) >= ShortRegs
             THEN Instr("kInvokeStaticRange", target, <<src, Imm(1)>>, id, "object")
             ELSE Instr("kInvokeStatic", target, <<src>>, id, "object")
  IN /\ "box" \in ClientOps
     /\ IF IsPrimitive(type)
        THEN AddInstruction(ins) /\ pool' = valueOf.pool
        ELSE IF target # src
             THEN AddInstruction(Instr("kMoveObject", target, <<src>>, 0, "none")) /\ UNCHANGED pool
             ELSE UNCHANGED vars

\* MethodBuilder::BuildBoxIfPrimitive.  For a primitive it declares the
\* wrapper's valueOf and picks the short invoke when src (and its wide pair)
\* are 4-bit registers now, the range form otherwise; an object is moved
\* unless target and src are the same Value.
BuildBoxIfPrimitive(target, type, src) ==
  LET box == ToBoxType(type)
      valueOf == GetOrDeclareMethod(pool, box, "valueOf", Prototype(box, <<type>>))
      id == valueOf.idx.id
      ins == IF IsWide(type)
             THEN IF RegisterValue(src) >= ShortRegs \/ RegisterValue(WidePair(src)) >= ShortRegs
                  THEN Instr("kInvokeStaticRange", target, <<src, Imm(2)>>, id, "object")
                  ELSE Instr("kInvokeStatic", target, <<src, WidePair(src)>>, id, "object")
             ELSE IF RegisterValue(src) >= ShortRegs
                  THEN Instr("kInvokeStaticRange", target, <<src, Imm(1)>>, id, "object")
                  ELSE Instr("kInvokeStatic", target, <<src>>, id, "object")
  IN /\ "box" \in ClientOps
     /\ IF IsPrimitive(type)
        THEN AddInstruction(ins) /\ pool' = valueOf.pool
        ELSE IF target # src
             THEN AddInstruction(Instr("kMoveObject", target, <<src>>, 0, "none")) /\ UNCHANGED pool
             ELSE UNCHANGED vars

\* MethodBuilder::BuildUnBoxIfPrimitive.  For a wrapper it declares its
\* <prim>Value accessor and invokes it on src; a primitive is moved with
\* kMove unless target and src are the same Value.
BuildUnBoxIfPrimitive(target, type, src) ==
  LET unbox == ToUnBoxType(type)
      value == GetOrDeclareMethod(pool, type, ValueMethod[type], Prototype(unbox, <<>>))
  IN /\ "unbox" \in ClientOps
     /\ IF IsObject(type)
        THEN /\ AddInstruction(Instr("kInvokeVirtual", target, <<src>>, value.idx.id,
                                     IF IsWide(unbox) THEN "wide" ELSE "narrow"))
             /\ pool' = value.pool
        ELSE IF target # src
             THEN AddInstruction(Instr("kMove", target, <<src>>, 0, "none")) /\ UNCHANGED pool
             ELSE UNCHANGED vars

\* Mutant: the frame counts one register per parameter, wide ones included.
EncodeParamsNarrow ==
  LET st == EncodeInstructions([buf |-> buffer, labels |-> labels,
                                maxArgs |-> maxArgs, fault |-> "none"])
      void == GetOrAddType(pool, "V")
      returnCount == IF pool.protos[MethodProto].ret = void.idx THEN 0 ELSE 1
  IN /\ Authoring
     /\ buffer' = st.buf
     /\ labels' = st.labels
     /\ maxArgs' = st.maxArgs
     /\ fault' = st.fault
     /\ pool' = void.pool
     /\ code' = [registers |-> NumRegisters + Len(ParamTypes) + ScratchRegs,
                 ins |-> Len(ParamTypes),
                 outs |-> Max({returnCount, st.maxArgs})]
     /\ UNCHANGED <<liveness, instructions, peak>>

(***************************************************************************)
(* MethodBuilder::Encode: sizes the frame (registers + argument words +    *)
(* scratch), encodes every instruction, interns the Void type to decide    *)
(* whether the method returns a value, and sizes the outs.                 *)
(***************************************************************************)
Encode ==
  LET st == EncodeInstructions([buf |-> buffer, labels |-> labels,
                                maxArgs |-> maxArgs, fault |-> "none"])
      void == GetOrAddType(pool, "V")
      returnCount == IF pool.protos[MethodProto].ret = void.idx THEN 0 ELSE 1
  IN /\ Authoring
     /\ buffer' = st.buf
     /\ labels' = st.labels
     /\ maxArgs' = st.maxArgs
     /\ fault' = st.fault
     /\ pool' = void.pool
     /\ code' = [registers |-> NumRegisters + NumArgs + ScratchRegs,
                 ins |-> NumArgs,
                 outs |-> Max({returnCount, st.maxArgs})]
     /\ UNCHANGED <<liveness, instructions, peak>>

\* (target, type, src) with src of the type and target able to hold the
\* result: the wrapper for BuildBox, the primitive for BuildUnBox.
BoxOperands == UNION {ObjectOperands \X {t} \X OperandsOf(t) : t \in BoxTypes}
UnBoxOperands ==
  UNION {(IF IsObject(t) THEN OperandsOf(ToUnBoxType(t)) ELSE OperandsOf(t)) \X {t} \X OperandsOf(t)
           : t \in BoxTypes \cap (DOMAIN BoxTable \cup DOMAIN ValueMethod)}

Next ==
  \/ AllocRegister
  \/ \E i \in LiveRegs : ReleaseRegister(i)
  \/ "branch" \in ClientOps /\ MakeLabel
  \/ \E ins \in ClientInstructions : AddInstruction(ins) /\ UNCHANGED pool
  \/ \E c \in Callees, range \in BOOLEAN, base \in Regs, dest \in Regs \cup {NoValue} :
       InvokeCallee(c, range, base, dest)
  \/ \E d \in Regs, s \in Strings : ConstString(d, s)
  \/ \E d \in Regs : TypedInstruction("kNew", d, <<>>, ClassDescriptor)
  \/ \E d \in ObjectOperands : TypedInstruction("kCheckCast", d, <<>>, ClassDescriptor)
  \/ \E d \in Regs, n \in OperandsOf("I") : TypedInstruction("kNewArray", d, <<n>>, ArrayType)
  \/ \E v, a \in ObjectOperands, i \in OperandsOf("I") : AputObject(v, a, i)
  \/ \E d \in OperandsOf("I") :
       \/ FieldInstruction("kGetStaticField", d, <<>>, "count", "I")
       \/ FieldInstruction("kSetStaticField", NoValue, <<d>>, "count", "I")
  \/ \E d \in ObjectOperands :
       \/ FieldInstruction("kGetStaticObjectField", d, <<>>, "self", ClassDescriptor)
       \/ FieldInstruction("kSetStaticObjectField", NoValue, <<d>>, "self", ClassDescriptor)
  \/ \E o \in ObjectOperands, d \in OperandsOf("I") :
       \/ FieldInstruction("kGetInstanceField", d, <<o>>, "value", "I")
       \/ FieldInstruction("kSetInstanceField", NoValue, <<o, d>>, "value", "I")
  \/ \E a \in BoxOperands : BuildBoxIfPrimitive(a[1], a[2], a[3])
  \/ \E a \in UnBoxOperands : BuildUnBoxIfPrimitive(a[1], a[2], a[3])
  \/ Encode

Spec == Init /\ [][Next]_vars

(***************************************************************************)
(* Properties.                                                             *)
(***************************************************************************)
Encoded == code # NoCode /\ fault = "none"

\* Reference layout: the code-unit size the DEX format gives each
\* instruction (a label binding takes none), and the address of the k-th
\* instruction as the sum of the sizes before it.
RefSize(ins) ==
  LET call == 3 + IF ins.dest = NoValue THEN 0 ELSE 1
  IN CASE ins.op \in {"kReturn", "kReturnObject", "kReturnWide"} -> 1
       [] ins.op = "kMove" /\ ins.args[1].kind = "imm" ->
            IF RegisterValue(ins.dest) < ShortRegs /\ ins.args[1].hi = 0 /\ ins.args[1].v < 8 THEN 1
            ELSE IF ins.args[1].hi = 0 THEN 2 ELSE 3
       [] ins.op = "kMove" /\ ins.args[1].kind = "string" -> 2
       [] ins.op = "kMoveWide" /\ ins.args[1].kind = "imm" ->
            IF ins.args[1].hi = 0 THEN 2 ELSE 3
       [] ins.op \in {"kMove", "kMoveWide", "kMoveObject"} -> 3
       [] ins.op = "kBindLabel" -> 0
       [] ins.op \in Branches \cup FieldOps \cup {"kNew", "kCheckCast", "kNewArray", "kAputObject"} -> 2
       [] OTHER -> call
Addr(k) == SeqFoldLeft(LAMBDA acc, ins : acc + RefSize(ins), 0, SubSeq(instructions, 1, k - 1))
BindOf(l) == CHOOSE k \in DOMAIN instructions :
               instructions[k].op = "kBindLabel" /\ instructions[k].args[1] = Lbl(l)

\* Label resolution (LabelValue / BindLabel): after Encode, every branch to
\* a label bound in the method carries, in its offset field, the distance
\* in code units from the branch to the binding, as a two-pass assembler
\* over the reference layout computes it, whether the label was bound
\* before the branch (backward) or patched later (forward).
BranchOffsetsMatchLayout ==
  Encoded =>
    \A k \in DOMAIN instructions :
      LET ins == instructions[k]
      IN ins.op \in Branches /\ BoundInList(ins.args[2].v) =>
           /\ buffer[Addr(k) + 1].op = DexOpcode[ins.op]
           /\ buffer[Addr(k) + 2].x = (Addr(BindOf(ins.args[2].v)) - Addr(k)) % 65536

\* AllocRegister with the LiveRegister release: the register file never
\* grows beyond the most registers the client has held at once, however
\* allocations and releases interleave.
RegistersNeverOutgrowDemand == NumRegisters = peak

\* Encode sizes the frame: every register an emitted instruction names,
\* including the second half of a wide argument pair and every register of
\* a range call, lies inside code->registers.
OperandsInsideFrame ==
  Encoded => \A k \in DOMAIN buffer : \A r \in Range(buffer[k].regs) : r < code.registers

InvokeOpcodes == {DexOpcode[op] : op \in ShortInvokes \cup RangeInvokes}

\* Calls built by the client and by the box/unbox helpers: the argument
\* words an emitted invoke passes equal the words the declaration its
\* method index names takes (plus the receiver of any call but a static
\* one).
InvokeArityMatchesDecl ==
  Encoded =>
    \A k \in DOMAIN buffer :
      buffer[k].op \in InvokeOpcodes =>
        LET m == pool.methodsMap[buffer[k + 1].x]
            receiver == IF buffer[k].op \in {"invoke-static", "invoke-static/range"}
                        THEN 0 ELSE 1
        IN buffer[k].x = ParamWords(m.proto) + receiver

\* The width of the register fields of each format the encoder emits: 4
\* bits (scaled to ShortRegs) for const/4, the short invokes (35c) and
\* format 22c, 16 bits for the moves (32x) and the base of a range call,
\* 8 bits for the rest.
NibbleOpcodes == {"const/4", "new-array", "iget", "iput"} \cup {DexOpcode[op] : op \in ShortInvokes}
WordOpcodes == {"move/16", "move-wide/16", "move-object/16"} \cup {DexOpcode[op] : op \in RangeInvokes}
FieldWidth(op) == CASE op \in NibbleOpcodes -> ShortRegs
                    [] op \in WordOpcodes -> 65536
                    [] OTHER -> 256

\* Every register an emitted instruction names fits the register field of
\* its format, so the instruction reads the register the client passed:
\* the encoder narrows nothing silently, for invokes, moves, constants,
\* object construction, arrays and field accesses alike.
RegistersFitFormats ==
  Encoded => \A k \in DOMAIN buffer : \A r \in Range(buffer[k].regs) : r < FieldWidth(buffer[k].op)

\* DEX frame convention: the ins of a method are its last ins_size
\* registers, so every parameter an instruction names resolves (through
\* RegisterValue) into [registers - ins, registers).
ParamRegistersInInsWindow ==
  Encoded =>
    \A k \in DOMAIN instructions : \A x \in Range(instructions[k].args) \cup {instructions[k].dest} :
      x.kind = "param" => /\ RegisterValue(x) >= code.registers - code.ins
                          /\ RegisterValue(x) < code.registers

\* outs_count is at least the argument words of every call the method makes
\* (the DEX verifier's requirement on outs_size), range calls included.
OutsCoverCalls ==
  Encoded => \A k \in DOMAIN buffer :
               buffer[k].op \in InvokeOpcodes => code.outs >= buffer[k].x

\* A call BuildBoxIfPrimitive put in the short form is accepted by
\* EncodeInvoke: Encode never rejects it as needing the range form.
BuilderChosenFormAccepted == fault # "LongArgs"

\* The value a const instruction loads, as the DEX format defines it: the
\* 16-bit literal of const/16 and const-wide/16 and the 32-bit literal of
\* const-wide/32 are sign-extended.  lo and mid are bits 0-15 and 16-31,
\* top whether bits 32-63 are set.
Loaded(a) ==
  LET op == buffer[a + 1].op
  IN CASE op = "const/4" -> [lo |-> buffer[a + 1].x, mid |-> 0, top |-> FALSE]
       [] op \in {"const/16", "const-wide/16"} ->
            LET x == buffer[a + 2].x
            IN [lo |-> x, mid |-> IF x >= 32768 THEN 65535 ELSE 0, top |-> x >= 32768]
       [] op = "const" -> [lo |-> buffer[a + 2].x, mid |-> buffer[a + 3].x, top |-> FALSE]
       [] op = "const-wide/32" ->
            [lo |-> buffer[a + 2].x, mid |-> buffer[a + 3].x, top |-> buffer[a + 3].x >= 32768]

\* EncodeMove of an immediate: the register receives the immediate the
\* client passed (its low 32 bits for kMove, the whole value for
\* kMoveWide), whichever of const/4, const/16 or const the builder picks.
ConstLoadsImmediate ==
  Encoded =>
    \A k \in DOMAIN instructions :
      LET ins == instructions[k]
          n == ins.args[1]
          got == Loaded(Addr(k))
      IN ins.op \in {"kMove", "kMoveWide"} /\ n.kind = "imm" =>
           /\ got.lo = n.v /\ got.mid = n.hi % 65536
           /\ ins.op = "kMoveWide" => got.top = (n.hi >= 65536)


\* The parameters declared with a wide type (J or D), by first word.
WideParams == {Param(ParamStart(j)) : j \in {j \in DOMAIN ParamTypes : IsWide(ParamTypes[j])}}

\* A register-to-register move of a wide parameter copies both halves of
\* its pair: EncodeMove emits move-wide/16 for it.  BuildUnBoxIfPrimitive
\* on a primitive long or double emits such a move, as does a client.
WideParamsMovedWhole ==
  Encoded =>
    \A k \in DOMAIN instructions :
      instructions[k].op \in {"kMove", "kMoveWide", "kMoveObject"}
      /\ instructions[k].args[1] \in WideParams
        => buffer[Addr(k) + 1].op = "move-wide/16"

\* The method pool as an intern table (spec 3, "Pool entries").  The log
\* is dex_file_->methods_map, each declaration named by its parent's
\* descriptor, its name and its prototype, the key of method_id_map_; the
\* lookup gives the id GetOrDeclareMethod hands back, the method index a
\* call encodes.
MethodLog == [i \in 1 .. pool.methodsNext |->
                LET m == pool.methodsMap[i - 1]
                IN <<pool.stringsMap[pool.typesMap[m.parent]], pool.stringsMap[m.name], m.proto>>]
MethodIds == [k \in DOMAIN pool.methods |-> pool.methods[k].id]
MethodTable == INSTANCE InternTable WITH log <- MethodLog, lookup <- MethodIds

\* Through every authoring call, nested declarations of the box/unbox
\* helpers and client calls included, the method pool behaves as an intern
\* table whose lookup returns the index the declaration was filed at: the
\* id an invoke encodes (taken from the arena size before the nested
\* interning) names the method the client declared.
ImplementsMethodTable == MethodTable!Spec

=============================================================================

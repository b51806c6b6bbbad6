# TLA+ models of LSPatch's native loader and DEX builder

These modules model two parts of the repository, and TLC checks them:
- the JNI load sequence `PatchLoader::Load` in
  `src/patch-loader/src/main/jni/src/patch_loader.cpp`, which starts a patched app;
- the runtime DEX builder in
  `src/core/external/lsplant/lsplant/src/main/jni/external/dex_builder/dex_builder.cc`,
  which assembles a DEX module in memory from a typed instruction API.

## The system

| Part | State in the code | Operations |
|------|-------------------|------------|
| Type/signature model | `TypeDescriptor` (descriptor, wide flag), `Prototype` (return, params), `unbox_map`, `value_method_map` | `ToBoxType`, `ToUnBoxType`, `short_descriptor`, `Shorty` |
| Interning pools (`DexBuilder`) | `strings_`, `types_by_descriptor_`, `field_decls_by_key_`, `method_id_map_`, `proto_map_`, and per kind the `dex_file_` index map and its `AllocateIndex` counter | `GetOrAddString`, `GetOrAddType`, `GetOrAddField`, `GetOrDeclareMethod`, `GetOrEncodeProto`, `GetPrototypeByMethodId` |
| Class facade (`ClassBuilder`, `FieldBuilder`) | the `ir::Class`, its super class and source file | `MakeClass`, `CreateMethod`, `CreateField`, `setSuperClass`, `set_source_file`, `FieldBuilder::Encode` |
| `MethodBuilder` authoring | `register_liveness_`, `labels_`, `instructions_` | `AllocRegister` and the `LiveRegister` release, `MakeLabel`, `AddInstruction`, `BuildBoxIfPrimitive`, `BuildUnBoxIfPrimitive` |
| `MethodBuilder` encoder | `buffer_`, `max_args_`, the labels' bound addresses and pending references | `Encode`, `EncodeInstruction`, `EncodeReturn`, `EncodeMove` (with `const-string`), `EncodeInvoke`, `EncodeInvokeRange`, `EncodeBranch`, `EncodeNew`, `EncodeCast`, `EncodeNewArray`, `EncodeAput`, `EncodeFieldOp`, `LabelValue`, `BindLabel`, `RegisterValue` |
| `TrackingAllocator`, `CreateImage` | allocations | hand the finished IR to the external `dex::Writer` |
| `PatchLoader` | `inject_class_loader_`, `entry_class_`, the pinned dex elements, the `dex_buffer` local reference, the cached libart image of `GetArt` | `Load` runs its prologue, then `InitArtHooker`, `LoadDex`, `InitHooks`, `GetArt(true)`, `SetupEntryClass`, `FindAndCall` |

How the parts interact:
- A `MethodBuilder` shares its `DexBuilder`'s pools.
- The box/unbox helpers declare `valueOf` and `<prim>Value` through `GetOrDeclareMethod`. That call interns a name, a type and a prototype, and the prototype in turn interns its shorty and its types.
- `Encode` interns `V` to decide whether the method returns a value.

`PatchLoader` does not use the DEX builder. Its hard behaviours are the JNI calls that fail part-way and what `Load` does after them. `Load` never stops early: it runs every later call whatever an earlier one did.

In the DEX builder, everything runs on one thread with no callbacks, so the hard behaviours are not interleavings. They are sequences of legal authoring calls that the encoder later turns into bad code:
- A decision taken at authoring time that a later call makes stale, such as the short/range invoke choice, which depends on how many registers are allocated.
- Branches and label bindings in any order.
- Numeric edges of the instruction formats: 4-bit registers, signed 16- and 32-bit literals, and 16-bit offsets.
- Sizing the frame's `registers`, `ins` and `outs`.

## Modules

- **`DexPools`** has no variables. A pool is a record. Each `GetOrAdd*` is an operator that takes a pool and returns `[pool, idx]`, so the nested interning of the code composes in the code's order. For example, `GetOrDeclareMethod` allocates the decl, then interns the name, the parent type and the proto, then allocates the method index. The pool record holds each lookup map and its index map and counter.
  - Each step of a nested interning hands its result to the next step as an operator argument (`NewType`, `FieldWithParent`, `ProtoWithShorty`, `MethodWithName` and the others), not as a LET that is named several times. The order of the code is kept, and TLC's per-expression coverage stays linear in the nesting depth.
  - `ToBoxType`, `ToUnBoxType`, `ShortDescriptor`, `Shorty` and `ParamWords` (argument words, where a wide type counts two) are the type model.
- **`MethodBuilder`** has one variable per member:
  - `liveness` is `register_liveness_`.
  - `labels` is `labels_`.
  - `instructions` is `instructions_`.
  - `buffer` is `buffer_`.
  - `maxArgs` is `max_args_`.
  - `pool` holds the shared pools.
  - `code` is the `ir::Code` that `Encode` attaches.
  - `fault` records the `assert` that aborted `Encode`.
  - `peak` is a history variable: the most registers ever live at once.

  Its actions are the authoring calls and `Encode`:
  - `Init` performs `MakeClass` and `CreateMethod`.
  - `AllocRegister` and `ReleaseRegister` are the register calls.
  - `MakeLabel` and `AddInstruction` are authoring calls. The client's instructions are drawn from `ClientInstructions` and `InvokeCallee`. `ConstString` interns one of the `Strings` and moves its string operand into a register, which `EncodeMove` emits as `const-string` (lines 579-583).
  - `TypedInstruction` (`new-instance`, `check-cast`, `new-array`) interns its type operand, and `FieldInstruction` interns the field through `GetOrAddField` on the class, both as the client's `GetOrAddType`/`GetOrAddField` call before `AddInstruction`. `AputObject` adds an `aput-object`.
  - `BuildBoxIfPrimitive` and `BuildUnBoxIfPrimitive` are the helpers.
  - `Encode` folds `EncodeInstruction` over the instruction list, then sizes the frame.

  `EncodeTypeOp` models `EncodeNew` and `EncodeCast`, which assert an 8-bit destination. `EncodeNewArray`, `EncodeAput` and `EncodeFieldOp` make no register check of their own. `Encode22c` models the header emitter that `EncodeNewArray` and the `iget`/`iput` paths of `EncodeFieldOp` call. `dex_builder.h` is not in the repository, so it follows the upstream form: it asserts that both registers are 4-bit and then packs them. `EncodeFieldOp` picks the register that goes into the `A` field per op, as lines 728-776 do.

  Each `Encode*` routine is an operator from the encoder state `[buf, labels, maxArgs, fault]` to the next. An assert that fires sets `fault` and stops the fold. With `AssertsEnabled = FALSE` (an `NDEBUG` build) the assert is empty and the code's fall-through is taken.
  - Data is abstracted:
    - A code unit is `[op, regs, x]`. The first unit of an instruction carries its opcode and physical registers, and `x` holds the 16-bit field of each unit.
    - An immediate is `[v, hi]`, its low 16 bits plus the rest, so that TLC's integers reach past `2^32`.
    - Names and descriptors are strings from small fixed sets.
  - The operands a client passes are well typed: a parameter is named by its first argument word and used at its declared type, and a wide register has its pair live.
- **`DexBuilder`** models the class facade over the pools: `pool`, the `ir::Class` nodes in allocation order (`classes`), each type's `class_def` (`classDef`), the `FieldBuilder`s handed out, and `interned`, a history of the client's own `GetOrAddString` calls and the entries they returned. Its actions can come in any order:
  - `MakeClass` (259-268) interns the class type, makes the new node its `class_def`, and interns `Object` as the super type.
  - `CreateField` (345-349) is `GetOrAddField` on the class's descriptor.
  - `EncodeField` (364-370) appends the builder's declaration to the class's `static_fields`.
  - `SetSuperClass` (351-354), `SetSourceFile` (356-358) and `InternString` (227-257).

  A `ClassBuilder` is named by the position of its class node, and a `FieldBuilder` by `[cls, decl]`.
- **`InternTable`** is the abstract promise of one pool (spec 3, "Pool entries"). `log` holds the keys in the order their indices were allocated, and `lookup` maps each key to its index. One `Intern` step appends one or more new keys, because one call can intern several. Old entries keep their index, no key appears twice, and `lookup` finds every key at its own index. `Init` is any table of that shape, because a pool may already hold the entries that set up its owner. `DexBuilder` instantiates it three times:
  - `StringTable` reads `dex_file_->strings_map` as the log and `strings_` as the lookup.
  - `TypeTable` reads `types_map`, each type named by its descriptor string, and `types_by_descriptor_`.
  - `FieldTable` reads `fields_map`, each declaration named by its parent's descriptor and its name, and `field_decls_by_key_`.

  `ImplementsInternTables` is the conjunction of their `Spec`s.

  `MethodBuilder` instantiates it once more as `MethodTable`. The log is `methods_map`, each declaration named by its parent's descriptor, its name and its prototype. The lookup is the `id` that `GetOrDeclareMethod` returns from `method_id_map_`, which is the method index every invoke encodes. `ImplementsMethodTable` is `MethodTable!Spec`. The proto pool has no index map (`Prototype::Encode` allocates no index), so it has no log to check.
- **NUL in strings.** `GetOrAddString` looks a string up by the whole `std::string` but files it under `entry->c_str()`, which ends at the first NUL (line 250). `types_by_descriptor_` is keyed the same way (line 278). The constant `NulCut` maps each string that has an embedded NUL to its C-string prefix, and `CStr` applies it. With `NulCut = <<>>` every string is its own key.
- **`PatchLoad`** is the abstract promise of `Load`, in one step. When it returns, the hooks are installed. The dex has a class loader or not. `onLoad` has run only if the dex has a loader. Alternatively the runtime aborts the process (`Abort`). Weak fairness says one of the two happens.
- **`PatchLoader`** models `Load` itself.
  - `pc` names the call of `Load`'s body that runs next. The calls come in the order of `LoadSteps` (lines 105-112), and `After` gives the call that follows.
  - Each call is one action that models the whole function: `LoadPrologue` (83-104), `InitArtHooker` (63-68), `LoadDex` (37-61), `InitHooks` (70-73), `ReleaseArt` (`GetArt(true)`, 109), `SetupEntryClass` (75-80) and `FindAndCall` (112). `Terminating` stutters after the return or an abort.
  - The variables are the loader's members and what the calls leave behind:
    - `injectLoader` is `inject_class_loader_`, and `entryClass` is `entry_class_`.
    - `dexData` says whether the runtime pinned the byte array, copied it, or returned null.
    - `localRefs` holds the raw local references `LoadDex` has not deleted.
    - `artImg` is the libart image that `GetArt` caches.
    - `hooker` and `hooks` record that `InitArtHooker` and `InitHooks` ran.
    - `onLoadCalls` counts the calls of `onLoad`.
    - `jniPending` is a history flag: some JNI call ran while an exception was pending.
  - Each JNI call named in the constant `Fallible` may fail. The model takes each failure from the JNI and ART behaviour:
    - The `JNI_*` wrappers clear an exception after the call. The raw `env->GetByteArrayElements` and `env->NewDirectByteBuffer` do not, so the next call runs with the exception pending.
    - Under CheckJNI (`checkJni`, chosen at `Init`) that next call aborts the process.
    - `NewDirectByteBuffer` on a null address with a nonzero size is a JNI abort.
    - `NewGlobalRef` fails only by overflowing the global reference table, and that aborts.
    - `GetByteArrayElements` on a null array is a JNI abort.
  - `Context::InitArtHooker`, `Context::InitHooks`, `FindClassFromLoader`, `GetCurrentClassLoader` and `FindAndCall` are not under `src/`. Each is reduced to its effect:
    - the hooker and the hooks are set;
    - the symbol resolvers of `initInfo` open libart;
    - the current loader is `inject_class_loader_`, and a null loader finds nothing;
    - `FindAndCall` skips a null entry class.
  - `ImplementsPatchLoad` is `PL!Spec`, with `PL == INSTANCE PatchLoad WITH ...`:
    - `loaded` and `hooked` are read at the return;
    - `entered` is `onLoadCalls > 0`;
    - `finished` and `aborted` are `pc = "Done"` and `pc = "Aborted"`.
- **`MC_DexBuilder`** holds the class names (`pkg.Foo` and `pkg.Bar` with their descriptors), the client's strings, and the strings with an embedded NUL (`"a\\0b"` stands for `a`, NUL, `b`) together with their cut.
- **`MC_MethodBuilder`** holds the model values for the `.cfg` files: the class `Lpkg/Foo;`, the parameter lists, two callees (a static `sum(III)I` that only the range form can call, and a virtual `size()I`) and the immediates at the format edges.

## Runs

| cfg | expect | checks |
|-----|--------|--------|
| `MethodBuilder_labels.cfg` | pass | `BranchOffsetsMatchLayout` |
| `MethodBuilder_calls.cfg` | pass | `RegistersNeverOutgrowDemand`, `OperandsInsideFrame`, `InvokeArityMatchesDecl`, `ParamRegistersInInsWindow`, `ImplementsMethodTable` |
| `MethodBuilder_stale.cfg` | violation | `BuilderChosenFormAccepted` |
| `MethodBuilder_outs.cfg` | violation | `OutsCoverCalls` |
| `MethodBuilder_narrowregs.cfg` | violation | `RegistersFitFormats` |
| `MethodBuilder_consts.cfg` | violation | `ConstLoadsImmediate` |
| `MethodBuilder_widemove.cfg` | violation | `WideParamsMovedWhole` |
| `DexBuilder_facade.cfg` | pass | `TypeOK`, `InterningIdentity`, `ImplementsInternTables` |
| `DexBuilder_nulstring.cfg` | violation | `InterningIdentity` |
| `PatchLoader_load.cfg` | pass | `TypeOK`, `ImplementsPatchLoad` |
| `PatchLoader_leak.cfg` | violation | `LocalRefsReleased` |
| `PatchLoader_pending.cfg` | violation | `NoJniCallWithPendingException` |

- **labels** (about 445K states, 65 s). Bounds: up to 4 instructions, 2 labels and 1 register, with consts of all three sizes, `const-string` of a string already interned (the method name) and of a new one, `if-eqz` and `if-nez` branches, bindings and return, in every order. `BranchOffsetsMatchLayout` compares every emitted branch offset with what a two-pass assembler computes from the instruction sizes. That covers a forward branch patched by `BindLabel`, a backward branch resolved at once, and two branches to one label. Four instructions are enough for two forward references to one label and for a negative offset to wrap into the `u2`.
- **calls** (about 319K states, a little over 2 min). The method is `bar(J)V` with 3 registers and 2 instructions. The client calls are `sum` (static) and `size` (virtual) in both forms, box and unbox of `I`, `J` and `Long`, register moves, `return-void`, register release, `new-instance` and `check-cast` of the class, `new-array`, `aput-object`, and get/set of a static `int` field, a static object field and an instance `int` field.
  - The short-register limit `ShortRegs` is scaled from 16 to 2, so that the range and short forms both occur with 3 registers.
  - `RegistersNeverOutgrowDemand` says the frame never exceeds the most registers held at once.
  - `OperandsInsideFrame` says every register named, including wide pairs and range runs, lies inside `registers`.
  - `InvokeArityMatchesDecl` says every invoke passes the argument words its method index's declaration takes.
  - `ImplementsMethodTable` says the method pool stays an intern table through every nested declaration of the helpers and the client calls, with the returned `id` equal to the index the declaration was filed at. The `id` is read from the arena size before the nested interning, so this is where a miscount would show.
  - `ParamRegistersInInsWindow` says every parameter operand resolves into the last `ins` registers of the frame, where the runtime places the arguments. It holds here because the reserve `kMaxScratchRegisters` is 0. Its value is in `dex_builder.h`, which is not in the repository. With the reserve of 2 that spec 4.7 describes, `RegisterValue` (line 784) leaves the reserve above the parameters, so a parameter resolves below the ins window. The hazard list records this.
- **stale**. The method has thirteen `int` parameters and a `long`, uses the real limit of 16, and boxes `I` and `J`. Allocate a register, box the long while its pair still sits at registers 14-15, allocate another register, then `Encode`: the short call chosen at authoring time (line 445) now names register 16, and the `long args` assert fires. Boxing the last `int` parameter the same way (line 452) fails alike.
- **outs**. One range call to `sum` (3 words) leaves `outs_count` at 2.
- **narrowregs**. `new-array`, `iget` and `iput` use format 22c, whose two register fields are 4 bits wide. `EncodeNewArray` (line 706) and `EncodeFieldOp` (lines 760, 769) pass the registers to `Encode22c` with no check of their own. The run is an `NDEBUG` (release) build (`AssertsEnabled = FALSE`), where the header's assert is compiled out. With the nibble limit scaled to 2 and three registers, `new-array` names `v2` and the field keeps only its low bits. In a debug build the assert stops the build instead.
- **consts**. `const/16` is used for 40000, which the format sign-extends to -25536. `const-wide/32` is used for the long 2^31, which it sign-extends to -2^31. The run has two registers, so that a wide const has its pair.
- **widemove**. `BuildUnBoxIfPrimitive(Reg(0), J, Param(0))` in `bar(J)V` emits `move/16`, which copies only the low half of the long.

- **facade** (about 274K states). Two classes, one field name with an `int` and an object type, one super type, one source file and three client strings. One of those strings is a class descriptor, so client interning and the interning nested in `MakeClass` meet on one entry. The bound is two `MakeClass` calls and one encoded field per class.
  - `TypeOK` says every index that a class node or a `FieldBuilder` holds names a registered pool entry.
  - `InterningIdentity` (spec 8): two client `GetOrAddString` calls return the same entry exactly when they pass equal strings, whatever nested interning happened between them.
  - `ImplementsInternTables`: every step, with all its nested interning, keeps the string, type and field pools abstract intern tables. The field table is keyed by `(parent, name)`, as `GetOrAddField` keys it. The run takes 80 s; checking the refinement is most of that.

  Checked against the NUL strings of `nulstring`, the refinement also fails: `"a\0b"` gets index 0 in `strings_map` but is filed under `"a"` in `strings_`.
- **nulstring**. TLC's trace interns `"a\0b"` first (index 0, filed under `"a"`) and then `"a"`, which finds that entry and gets `"a\0b"` back. The other order fails too: `"a\0b"` misses, its `emplace` under `"a"` is refused, and the call returns the `"a"` entry while a fresh index holds the orphan.
- **load** (109 states). Every JNI call that can fail does so or not, and CheckJNI is on or off. The one exception is `onLoad`: `LSPApplication` comes from the dex in which the class was just found.
  - `ImplementsPatchLoad`: `Load` refines `PatchLoad`. It returns with the hooks installed unless the runtime aborts, and `onLoad` runs only when the entry class came from the injected loader.
  - `TypeOK` also bounds `onLoadCalls` at one.
- **leak**. A failed `InMemoryDexClassLoader` constructor returns from `LoadDex` at line 57, before the `DeleteLocalRef(dex_buffer)` of line 60.
- **pending**. A failed `GetByteArrayElements` (line 103) leaves its exception pending when `JNI_GetArrayLength` runs, and a failed `NewDirectByteBuffer` (line 52) leaves it pending when `JNI_NewObject` (line 53) runs. TLC's shortest trace is the first. The JNI specification forbids that call. Under CheckJNI the process aborts at that point, instead of logging "creation failed" and returning.

`PROJECT.json` lists each finding with its source line.

The `PatchLoader` runs check deadlock. `Terminating` is the return, or the abort, that `Load` really ends in.

`DexBuilder_facade.cfg` checks deadlock: a class can always intern another string or rebind its super type, so the model never stops.

The `MethodBuilder` cfgs set `CHECK_DEADLOCK FALSE` because `Encode` consumes the builder. After it no authoring call is enabled, and the method really stops there.

No fairness is assumed for the builder. It is a synchronous library driven by its caller, so nothing in it must eventually happen on its own.

`PatchLoader.Spec` assumes `WF_vars(Next)`. `Load` is a straight-line call on the loading thread with no waits or locks, so its next call is always taken. This fairness is what makes `Load` return (or abort) in `ImplementsPatchLoad`.

Each property of the pass runs has a mutant, a plausible bug that breaks it. The mutants live in `MethodBuilder.tla`, `DexPools.tla`, `DexBuilder.tla` and `PatchLoader.tla`:
- `BindLabelFromField`: the patch is computed from the field offset instead of the instruction offset.
- `AllocRegisterAppend`: released registers are never reused.
- `EncodeParamsNarrow`: a wide parameter is counted as one word.
- `BuildBoxIfPrimitiveNarrow`: the wide pair is dropped.
- `RegisterValueOffByOne`: a parameter resolves one register too low (breaks `ParamRegistersInInsWindow`).
- `NewTypeUnmapped`: `GetOrAddType` allocates the type index but never files the type in `types_map` (breaks `TypeOK`).
- `GetOrAddStringFresh`: every call allocates a new entry (breaks `InterningIdentity`).
- `GetOrDeclareMethodSizeId`: the id is `methods.size()` without the `- 1` (breaks `ImplementsMethodTable`).
- `NewFieldSameIndex`: `GetOrAddField` files a declaration without calling `AllocateIndex` (breaks `ImplementsInternTables`).
- `LoadStepsCallTwice`: the `FindAndCall` line is duplicated (breaks `TypeOK`).
- `SetupEntryClassAnyLoader`: the entry class is looked up without the injected loader (breaks `ImplementsPatchLoad`).

## Not modelled, and the plan

- **Not yet an action of any module:**
  - the direct/interface invokes in a run: the model has them (`CallOp`), but a cfg with four callees takes too long, so the runs use one static and one virtual callee
- **Client misuse the models allow but no run checks:**
  - a second `MakeClass` with one name, which leaves the first class node orphaned (line 261);
  - encoding one field declaration twice, through one `FieldBuilder` or through two that the `(parent, name)` key merged (lines 287, 368), which lists the field twice in `static_fields`;
  - a branch to a label that is never bound, emitted with the `0` placeholder (line 819).

  The models produce each of these faithfully. The spec sets no rule for them, so the run budget goes to the code bugs instead.
- **Access flags** in `DexBuilder` are left out because no property is about them. The proto pool is not checked against `InternTable`, because it has no index map.
- **Register overflow past 256** (`uint8_t arguments[]`) and **16-bit branch offset overflow** need hundreds of registers or 32K code units. Both are beyond TLC's reach.
- **Not modelled at all:**
  - `TrackingAllocator` and `CreateImage`, which are I/O handed to an external writer
  - descriptor parsing (`FromDescriptor`, `FromClassname`, `DotToDescriptor`, lines 95-126 and 166-214). These are string conversions that look at single characters, and TLC strings cannot be taken apart. No code under `src/` calls `FromDescriptor`. `MakeClass` takes the result of `DotToDescriptor` from the `ClassNames` table of `MC_DexBuilder` instead, so the Type/signature component stays partly modelled
- **In `PatchLoader`, the pinned dex elements are never released** (line 103). Releasing them would be the job of `PreloadedDex`'s destructor in `Context`, which is not under `src/`. `dexData` records whether the array was pinned or copied, but no property can say what that destructor does.
- **The internals of `Context` and `lsplant::Init`** are not modelled: symbol resolution and the inline hooks the `initInfo` lambdas install (lines 84-96). They are not under `src/`, and `Load` ignores their results.

---------------------------- MODULE PatchLoader ----------------------------
(***************************************************************************)
(* PatchLoader::Load of patch_loader.cpp: the native start of a patched   *)
(* app.  It reads the loader dex out of a static byte[] of the stub,      *)
(* initialises the ART hooker, loads the dex into an InMemoryDexClassLoader*)
(* installs the hooks, drops the cached libart image, finds the entry     *)
(* class in the new loader and calls its onLoad.  It runs on one thread;  *)
(* one step here is one call of Load's body.                              *)
(*                                                                         *)
(* Every JNI call whose failure the code can meet may fail when it is in  *)
(* Fallible.  The JNI_* wrappers of lsplant's jni_helper clear a pending  *)
(* exception after each call; the raw env-> calls (GetByteArrayElements,  *)
(* NewDirectByteBuffer) do not, so the next JNI call runs with the        *)
(* exception still pending.  With CheckJNI on (a debuggable app, or       *)
(* -Xcheck:jni) the runtime aborts the process at that call; without it   *)
(* the call goes ahead.  Which mode the process runs in is chosen at Init.*)
(***************************************************************************)
EXTENDS Naturals, Sequences

CONSTANTS
  Fallible   \* the JNI calls that may fail in this model

JniCalls == {"GetStaticObjectField", "GetByteArrayElements", "getSystemClassLoader",
             "NewDirectByteBuffer", "InMemoryDexClassLoader",
             "NewGlobalRef", "loadClass", "onLoad"}

ASSUME Fallible \subseteq JniCalls

VARIABLES
  checkJni,      \* the runtime runs with CheckJNI
  pc,            \* the call of Load's body that runs next
  dexData,       \* dex.data(): the array pinned, a copy of it, or null
  jniPending,    \* history: some JNI call ran with an exception pending
  hooker,        \* InitArtHooker has run
  hooks,         \* InitHooks has run
  artImg,        \* GetArt()'s cached libart image: "none", "open", "released"
  injectLoader,  \* inject_class_loader_
  localRefs,     \* raw local references LoadDex has made and not deleted
  entryClass,    \* entry_class_
  onLoadCalls    \* calls of LSPApplication.onLoad

vars == <<checkJni, pc, dexData, jniPending, hooker, hooks, artImg, injectLoader,
          localRefs, entryClass, onLoadCalls>>

\* The results a JNI call can return: failure only where it is allowed.
Outcome(call) == IF call \in Fallible THEN BOOLEAN ELSE {TRUE}

\* Variant of LoadSteps with the FindAndCall line duplicated.
LoadStepsCallTwice ==
  <<"InitArtHooker", "LoadDex", "InitHooks", "ReleaseArt",
    "SetupEntryClass", "FindAndCall", "FindAndCall">>

\* The calls of Load after the prologue, in the order it makes them.
LoadSteps ==
  <<"InitArtHooker", "LoadDex", "InitHooks", "ReleaseArt",
    "SetupEntryClass", "FindAndCall">>

StepIndex(s) == CHOOSE i \in 1..Len(LoadSteps) : LoadSteps[i] = s

\* The call that follows step s in Load, or the return from Load.
After(s) == IF StepIndex(s) = Len(LoadSteps) THEN "Done"
            ELSE LoadSteps[StepIndex(s) + 1]

Init ==
  /\ checkJni \in BOOLEAN
  /\ pc = "Load"
  /\ dexData = "none"
  /\ jniPending = FALSE
  /\ hooker = FALSE
  /\ hooks = FALSE
  /\ artImg = "none"
  /\ injectLoader = "null"
  /\ localRefs = {}
  /\ entryClass = "null"
  /\ onLoadCalls = 0

(* Lines 83-104: build initInfo, read the stub's dex field and get its   *)
(* elements: the runtime pins the array or hands out a copy, and nothing *)
(* here releases either.  A null field makes GetByteArrayElements a JNI  *)
(* abort.  A failed GetByteArrayElements returns null and leaves an      *)
(* OutOfMemoryError pending while JNI_GetArrayLength runs.               *)
LoadPrologue ==
  /\ pc = "Load"
  /\ \E field \in Outcome("GetStaticObjectField"),
        ok \in Outcome("GetByteArrayElements") :
       /\ dexData' \in IF field /\ ok THEN {"pinned", "copied"} ELSE {"null"}
       /\ jniPending' = (jniPending \/ (field /\ ~ok))
       /\ pc' = IF ~field \/ (~ok /\ checkJni) THEN "Aborted"
                ELSE LoadSteps[1]
  /\ UNCHANGED <<checkJni, hooker, hooks, artImg, injectLoader, localRefs,
                 entryClass, onLoadCalls>>

(* Lines 63-68: Context::InitArtHooker resolves ART symbols through the  *)
(* art_symbol_resolver of initInfo, which opens libart via GetArt().     *)
InitArtHooker ==
  /\ pc = "InitArtHooker"
  /\ hooker' = TRUE
  /\ artImg' = "open"
  /\ pc' = After("InitArtHooker")
  /\ UNCHANGED <<checkJni, dexData, jniPending, hooks, injectLoader, localRefs,
                 entryClass, onLoadCalls>>

(* Lines 37-61.  No system class loader: return.  NewDirectByteBuffer on  *)
(* a null address with a nonzero size is a JNI abort; when it fails       *)
(* otherwise it returns null with an exception pending, and JNI_NewObject *)
(* runs with it (an abort under CheckJNI).  A failed NewObject returns    *)
(* before DeleteLocalRef.  NewGlobalRef fails only by overflowing the     *)
(* global reference table, which aborts.                                  *)
LoadDex ==
  /\ pc = "LoadDex"
  /\ \E sysOk \in Outcome("getSystemClassLoader"),
        bufOk \in Outcome("NewDirectByteBuffer"),
        clOk \in Outcome("InMemoryDexClassLoader"),
        refOk \in Outcome("NewGlobalRef") :
       IF ~sysOk
       THEN /\ pc' = After("LoadDex")
            /\ UNCHANGED <<jniPending, injectLoader, localRefs>>
       ELSE IF dexData = "null"
       THEN /\ pc' = "Aborted"
            /\ UNCHANGED <<jniPending, injectLoader, localRefs>>
       ELSE LET made == bufOk /\ clOk
                refs == IF bufOk THEN localRefs \cup {"dex_buffer"}
                        ELSE localRefs
            IN /\ jniPending' = (jniPending \/ ~bufOk)
               /\ IF ~bufOk /\ checkJni
                  THEN /\ pc' = "Aborted"
                       /\ UNCHANGED <<injectLoader, localRefs>>
                  ELSE IF made /\ ~refOk
                  THEN /\ pc' = "Aborted"
                       /\ UNCHANGED <<injectLoader, localRefs>>
                  ELSE /\ injectLoader' = IF made THEN "loader"
                                          ELSE injectLoader
                       /\ localRefs' = IF made THEN refs \ {"dex_buffer"}
                                       ELSE refs
                       /\ pc' = After("LoadDex")
  /\ UNCHANGED <<checkJni, dexData, hooker, hooks, artImg, entryClass,
                 onLoadCalls>>

(* Lines 70-73: Context::InitHooks resolves symbols (opening libart       *)
(* again when it was dropped) and RegisterBypass installs its hook.       *)
InitHooks ==
  /\ pc = "InitHooks"
  /\ hooks' = TRUE
  /\ artImg' = "open"
  /\ pc' = After("InitHooks")
  /\ UNCHANGED <<checkJni, dexData, jniPending, hooker, injectLoader, localRefs,
                 entryClass, onLoadCalls>>

(* Line 109: GetArt(true) resets the cached libart image.                 *)
ReleaseArt ==
  /\ pc = "ReleaseArt"
  /\ artImg' = "released"
  /\ pc' = After("ReleaseArt")
  /\ UNCHANGED <<checkJni, dexData, jniPending, hooker, hooks, injectLoader,
                 localRefs, entryClass, onLoadCalls>>

(* Variant of SetupEntryClass that looks the class up whatever the      *)
(* current loader is.                                                      *)
SetupEntryClassAnyLoader ==
  /\ pc = "SetupEntryClass"
  /\ \E found \in Outcome("loadClass"), refOk \in Outcome("NewGlobalRef") :
       /\ entryClass' = IF found /\ refOk THEN "class" ELSE entryClass
       /\ pc' = IF found /\ ~refOk THEN "Aborted" ELSE After("SetupEntryClass")
  /\ UNCHANGED <<checkJni, dexData, jniPending, hooker, hooks, artImg,
                 injectLoader, localRefs, onLoadCalls>>

(* Lines 75-80: FindClassFromLoader on GetCurrentClassLoader(), which is  *)
(* inject_class_loader_; a null loader finds nothing.  A failed          *)
(* NewGlobalRef is a global reference table overflow, an abort.           *)
SetupEntryClass ==
  /\ pc = "SetupEntryClass"
  /\ \E found \in Outcome("loadClass"), refOk \in Outcome("NewGlobalRef") :
       LET cls == injectLoader = "loader" /\ found
       IN /\ entryClass' = IF cls /\ refOk THEN "class" ELSE entryClass
          /\ pc' = IF cls /\ ~refOk THEN "Aborted"
                   ELSE After("SetupEntryClass")
  /\ UNCHANGED <<checkJni, dexData, jniPending, hooker, hooks, artImg,
                 injectLoader, localRefs, onLoadCalls>>

(* Line 112: FindAndCall returns when entry_class_ is null or has no      *)
(* static onLoad()V, and calls it otherwise.                              *)
FindAndCall ==
  /\ pc = "FindAndCall"
  /\ \E found \in Outcome("onLoad") :
       onLoadCalls' = IF entryClass = "class" /\ found
                      THEN onLoadCalls + 1 ELSE onLoadCalls
  /\ pc' = After("FindAndCall")
  /\ UNCHANGED <<checkJni, dexData, jniPending, hooker, hooks, artImg, injectLoader,
                 localRefs, entryClass>>

\* Load has returned, or the process was aborted: nothing more happens.
Terminating == pc \in {"Done", "Aborted"} /\ UNCHANGED vars

Next ==
  \/ LoadPrologue
  \/ InitArtHooker
  \/ LoadDex
  \/ InitHooks
  \/ ReleaseArt
  \/ SetupEntryClass
  \/ FindAndCall
  \/ Terminating

(* Load is a straight-line call on the loading thread with no waits, so  *)
(* the next call of its body is always taken.                             *)
Spec == Init /\ [][Next]_vars /\ WF_vars(Next)

-----------------------------------------------------------------------------

TypeOK ==
  /\ checkJni \in BOOLEAN
  /\ pc \in {"Load", "Done", "Aborted"} \cup {LoadSteps[i] : i \in 1..Len(LoadSteps)}
  /\ dexData \in {"none", "pinned", "copied", "null"}
  /\ jniPending \in BOOLEAN
  /\ hooker \in BOOLEAN
  /\ hooks \in BOOLEAN
  /\ artImg \in {"none", "open", "released"}
  /\ injectLoader \in {"null", "loader"}
  /\ localRefs \subseteq {"dex_buffer"}
  /\ entryClass \in {"null", "class"}
  /\ onLoadCalls \in 0..1

(* Load implements PatchLoad: when it returns the hooks are installed,    *)
(* onLoad of the entry class has run only if the injected dex got its    *)
(* own class loader, and (by weak fairness) Load returns unless the      *)
(* runtime aborts the process.                                             *)
PL == INSTANCE PatchLoad WITH
        loaded <- pc = "Done" /\ injectLoader = "loader",
        hooked <- pc = "Done" /\ hooks,
        entered <- onLoadCalls > 0,
        finished <- pc = "Done",
        aborted <- pc = "Aborted"

ImplementsPatchLoad == PL!Spec

(* Every local reference LoadDex creates with a raw env-> call is        *)
(* deleted before Load returns, as the success path does at line 60.      *)
LocalRefsReleased == pc = "Done" => localRefs = {}

(* No JNI function is called while an exception is pending, as the JNI   *)
(* specification requires.                                                 *)
NoJniCallWithPendingException == ~jniPending

=============================================================================

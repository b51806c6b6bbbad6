----------------------------- MODULE PatchLoad -----------------------------
(***************************************************************************)
(* What PatchLoader::Load promises, as one atomic step: when it returns,  *)
(* the ART hooks are installed whatever else failed, the patch's dex may  *)
(* or may not have been loaded into its own class loader, and the entry   *)
(* class's onLoad has run at most once, and only if that dex was loaded.  *)
(* The runtime may instead abort the process inside Load; Load never      *)
(* hangs.                                                                  *)
(***************************************************************************)
VARIABLES
  loaded,    \* the injected dex has a class loader
  hooked,    \* ART hooks and the signature bypass are installed
  entered,   \* onLoad of the entry class has been called
  finished,  \* Load has returned
  aborted    \* the runtime aborted the process inside Load

vars == <<loaded, hooked, entered, finished, aborted>>

Init ==
  /\ loaded = FALSE
  /\ hooked = FALSE
  /\ entered = FALSE
  /\ finished = FALSE
  /\ aborted = FALSE

Load ==
  /\ ~finished /\ ~aborted
  /\ aborted' = FALSE
  /\ finished' = TRUE
  /\ hooked' = TRUE
  /\ \E l \in BOOLEAN :
       /\ loaded' = l
       /\ entered' \in IF l THEN BOOLEAN ELSE {FALSE}

Abort ==
  /\ ~finished /\ ~aborted
  /\ aborted' = TRUE
  /\ UNCHANGED <<loaded, hooked, entered, finished>>

Next == Load \/ Abort

\* Load is a plain call on the loading thread: it returns or is aborted.
Spec == Init /\ [][Next]_vars /\ WF_vars(Next)

=============================================================================

----------------------------- MODULE InternTable -----------------------------
(***************************************************************************)
(* What one interning pool of the DEX builder promises (spec 3, "Pool      *)
(* entries"): each key gets one entry, created at its first GetOrAdd with  *)
(* the next pool-local index from 0, and every later lookup of the key     *)
(* finds that entry.  log is the index map (position i holds the key of    *)
(* index i - 1); lookup is the key -> index map the GetOrAdd operations    *)
(* search.  One step may intern several keys, as a nested interning does. *)
(***************************************************************************)
EXTENDS Naturals, Sequences, Functions

VARIABLES
  log,      \* the keys in the order their indices were allocated
  lookup    \* key -> index

vars == <<log, lookup>>

\* The index a key was given: its position in the log, counted from 0.
IndexIn(l, k) == (CHOOSE i \in DOMAIN l : l[i] = k) - 1

\* A table as the pool keeps it: no key twice, each found at its own index.
\* A pool starts empty, or as the calls that set up its owner left it.
Init ==
  /\ IsInjective(log)
  /\ lookup = [k \in Range(log) |-> IndexIn(log, k)]

\* New keys, each not interned before, are appended with fresh indices;
\* old entries keep theirs, and lookup finds each key at its own index.
Intern ==
  /\ Len(log') > Len(log)
  /\ SubSeq(log', 1, Len(log)) = log
  /\ IsInjective(log')
  /\ lookup' = [k \in Range(log') |-> IndexIn(log', k)]

Spec == Init /\ [][Intern]_vars

=============================================================================

--------------------------- MODULE MCWindowsBackend ---------------------------
(***************************************************************************)
(* WindowsBackend for TLC: two artifacts and up to two authorities, which  *)
(* is enough for a first artifact that works and a second that does not,   *)
(* and for an authority that fails over.                                   *)
(***************************************************************************)
EXTENDS WindowsBackend, FiniteSets

(* Whatever is on disk, the sorted expansion exists and is unique. *)
ASSUME ExpandIsAFunction ==
  \A d \in [Artifacts -> FileStates] : Cardinality(Expand(d)) = 1

==============================================================================

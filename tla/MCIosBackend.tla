----------------------------- MODULE MCIosBackend -----------------------------
(***************************************************************************)
(* IosBackend for TLC: an app, a framework inside it, and a second bundle  *)
(* on its own.                                                             *)
(***************************************************************************)
EXTENDS IosBackend, FiniteSets

AppWithFramework == {<<1, 2>>}

(* Whatever is on disk, the sorted expansion exists and is unique. *)
ASSUME ExpandIsAFunction ==
  \A d \in [Artifacts -> BundleStates] : Cardinality(Expand(d)) = 1

==============================================================================

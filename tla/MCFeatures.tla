----------------------------- MODULE MCFeatures -----------------------------
(* Feature commands over two features; commands and features are           *)
(* interchangeable, and so are the texts.                                   *)
EXTENDS FeatureMaps, TLC

FeatureSymmetry == Permutations(Procs) \cup Permutations(Slugs) \cup Permutations(Bodies)
=============================================================================

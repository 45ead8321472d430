---------------------------- MODULE MCAssetCache ----------------------------
(* Instances of the asset cache for TLC.                                   *)
EXTENDS AssetCache, TLC

MCSymmetry == Permutations(Files)
=============================================================================

----------------------------- MODULE MCManifest -----------------------------
(* Values of the constants for the runs of ManifestServing.                *)
EXTENDS ManifestServing, DistributionInv, TLC

ThreeBuilds == <<1, 1, 2>>     \* two builds of one day, one of the next
TwoDays     == <<1, 2>>

Permute == Permutations(Readers) \cup Permutations(Syncers) \cup Permutations(Cleaners)
=============================================================================

--------------------------- MODULE MCDistribution ---------------------------
(* Distribution on small instances.                                        *)
EXTENDS DistributionInv, TLC

(* The days of the builds: the first two share a day, so that the second   *)
(* replaces the file of the first, and the third supersedes both.          *)
ThreeBuilds == <<1, 1, 2>>

(* Two builds of different days.                                           *)
TwoDays == <<1, 2>>

Permute == Permutations(Syncers) \cup Permutations(Cleaners)
           \cup Permutations(Products)
=============================================================================

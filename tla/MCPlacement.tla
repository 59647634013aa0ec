---------------------------- MODULE MCPlacement ----------------------------
(* ArtifactPlacement on a small instance.                                  *)
EXTENDS ArtifactPlacement, FiniteSets, TLC

(* The days of the builds: the second replaces the artifact of the first,  *)
(* the third supersedes both.                                              *)
ThreeBuilds == <<1, 1, 2>>

(* Bound: no step is taken while three of the sync, the cleanup, the       *)
(* download and the request that saves the settings are under way.         *)
TwoAtATime ==
    Cardinality({c \in Callers : call[c].pc # "idle"} \cup
                {a \in Saves : save[a] # "idle"}) <= 2
============================================================================

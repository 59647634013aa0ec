---------------------------- MODULE MCOperations ----------------------------
(* Three releases: the second adds two scripts, the third edits the first. *)
EXTENDS Operations

CONSTANTS r1, r2, r3, d1, d2, d3, d4

AllScripts == [r \in {r1, r2, r3} |->
    IF r = r1 THEN <<d1>> ELSE IF r = r2 THEN <<d1, d2, d3>> ELSE <<d4, d2, d3>>]
=============================================================================

------------------------------- MODULE MCAdmin -------------------------------
(* Symmetry for the runs of AdminAccess that check no liveness.            *)
EXTENDS AdminAccess, TLC

AnyoneAlike == Permutations(Names) \cup Permutations(Passwords)
                 \cup Permutations(Sessions) \cup Permutations(Requests)
============================================================================

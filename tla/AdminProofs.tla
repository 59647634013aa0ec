----------------------------- MODULE AdminProofs -----------------------------
(***************************************************************************)
(* Setup is done once, for any number of concurrent requests.              *)
(***************************************************************************)
EXTENDS AdminAccess, TLAPS

(* Setup is done exactly when the row "admin-1" exists: the transaction    *)
(* writes both, and nothing deletes either.                                *)
AdminInv ==
    /\ AdminTypeOK
    /\ setup_completed <=> admin1 # "none"
    /\ \A q \in Requests : request[q].pc # "idle" => request[q].name \in Names
    /\ \A q \in Requests :
          request[q].pc \in {"setup", "create", "verify", "change", "reset"} =>
              request[q].password \in Passwords

(* Every step of a request writes rows of the right type.                  *)
LEMMA AdminStep == AdminInv /\ [Next]_vars => AdminInv'
<1> SUFFICES ASSUME AdminInv, [Next]_vars PROVE AdminInv'
  OBVIOUS
<1> USE NamesAssumption
<1>1. ASSUME NEW q \in Requests, NEW n \in Names, NEW pw \in Passwords, SetupCheck(q, n, pw)
      PROVE AdminInv'
  BY <1>1 DEF AdminInv, AdminTypeOK, SetupCheck, Start, At, RequestState
<1>2. ASSUME NEW q \in Requests, NEW n \in Names, NEW pw \in Passwords, RecoverLookup(q, n, pw)
      PROVE AdminInv'
  BY <1>2 DEF AdminInv, AdminTypeOK, RecoverLookup, Start, At, RequestState
<1>3. ASSUME NEW q \in Requests, NEW n \in Names, Login(q, n)
      PROVE AdminInv'
  BY <1>3 DEF AdminInv, AdminTypeOK, Login, Start, At, RequestState
<1>4. ASSUME NEW q \in Requests, NEW s \in Sessions, AdminPost(q, s)
      PROVE AdminInv'
  BY <1>4 DEF AdminInv, AdminTypeOK, AdminPost, Admitted, ActiveUsers, Start, At, RequestState
<1>5. ASSUME NEW q \in Requests, SetupCommit(q)
      PROVE AdminInv'
  BY <1>5 DEF AdminInv, AdminTypeOK, SetupCommit, Goto, At, RequestState, User
<1>6. ASSUME NEW q \in Requests, NEW s \in Sessions, OpenSession(q, s)
      PROVE AdminInv'
  BY <1>6 DEF AdminInv, AdminTypeOK, OpenSession, Finish, Idle, At, RequestState, SessionRow
<1>7. ASSUME NEW s \in Sessions, SessionEnds(s)
      PROVE AdminInv'
  BY <1>7 DEF AdminInv, AdminTypeOK, SessionEnds, SessionRow
<1>8. ASSUME NEW q \in Requests, DisableCount(q)
      PROVE AdminInv'
  BY <1>8 DEF AdminInv, AdminTypeOK, DisableCount, Goto, Finish, Idle, At, RequestState
<1>9. ASSUME NEW q \in Requests, DisableUpdate(q)
      PROVE AdminInv'
  BY <1>9 DEF AdminInv, AdminTypeOK, DisableUpdate, Finish, Idle, At, RequestState, User
<1>10. ASSUME NEW q \in Requests, EnableUpdate(q)
      PROVE AdminInv'
  BY <1>10 DEF AdminInv, AdminTypeOK, EnableUpdate, Finish, Idle, At, RequestState, User
<1>11. ASSUME NEW q \in Requests, CreateUser(q)
       PROVE AdminInv'
  BY <1>11 DEF AdminInv, AdminTypeOK, CreateUser, Finish, Idle, At, RequestState, User
<1>12. ASSUME NEW q \in Requests, ChangePassword(q)
       PROVE AdminInv'
  BY <1>12 DEF AdminInv, AdminTypeOK, ChangePassword, Finish, Idle, At, RequestState, User
<1>13. ASSUME NEW q \in Requests, ChangeVerify(q)
       PROVE AdminInv'
  BY <1>13 DEF AdminInv, AdminTypeOK, ChangeVerify, Goto, At, RequestState
<1>14. ASSUME NEW q \in Requests, RecoverReset(q)
       PROVE AdminInv'
  BY <1>14 DEF AdminInv, AdminTypeOK, RecoverReset, Goto, At, RequestState, User
<1>15. ASSUME NEW q \in Requests, RecoverEnable(q)
       PROVE AdminInv'
  BY <1>15 DEF AdminInv, AdminTypeOK, RecoverEnable, Goto, At, RequestState, User
<1>16. ASSUME NEW q \in Requests, RecoverEnableFails(q)
       PROVE AdminInv'
  BY <1>16 DEF AdminInv, AdminTypeOK, RecoverEnableFails, Goto, At, RequestState
<1>17. ASSUME NEW q \in Requests, RecoverEvict(q)
       PROVE AdminInv'
  BY <1>17 DEF AdminInv, AdminTypeOK, RecoverEvict, Finish, Idle, At, RequestState, SessionRow
<1>18. ASSUME NEW q \in Requests, Abort(q)
       PROVE AdminInv'
  BY <1>18 DEF AdminInv, AdminTypeOK, Abort, Finish, Idle, At, RequestState
<1>19. CASE UNCHANGED vars
  BY <1>19 DEF AdminInv, AdminTypeOK, vars
<1> QED
  BY <1>1, <1>2, <1>3, <1>4, <1>5, <1>6, <1>7, <1>8, <1>9, <1>10, <1>11, <1>12, <1>13,
     <1>14, <1>15, <1>16, <1>17, <1>18, <1>19 DEF Next, Step

(* The invariant holds in every state.                                     *)
LEMMA AdminInvariance == Spec => []AdminInv
<1>1. Init => AdminInv
  <2> SUFFICES ASSUME Init PROVE AdminInv
    OBVIOUS
  <2>1. AdminTypeOK
    BY DEF Init, AdminTypeOK, NoUser, User, SessionRow, Idle, RequestState
  <2>2. setup_completed <=> admin1 # "none"
    BY Zenon DEF Init
  <2> QED
    BY <2>1, <2>2 DEF Init, AdminInv, Idle
<1> QED
  BY <1>1, AdminStep, PTL DEF Spec

(* The tables and the requests keep their types.                           *)
THEOREM AdminTypes == Spec => []AdminTypeOK
<1>1. AdminInv => AdminTypeOK
  BY DEF AdminInv
<1> QED
  BY <1>1, AdminInvariance, PTL

(* Setup commits at most once and its administrator is never replaced,     *)
(* however many setups passed the check of setup_completed together.       *)
THEOREM SetupHappensOnce == Spec => SetupOnce
<1> DEFINE Once == setup_completed \/ setup_completed' =>
                       /\ setup_completed'
                       /\ admin1' \in Names
                       /\ setup_completed => admin1' = admin1
<1>1. ASSUME AdminInv, AdminInv', [Next]_vars PROVE [Once]_vars
  <2>1. setup_completed' => admin1' \in Names
    BY <1>1 DEF AdminInv, AdminTypeOK
  <2>2. ASSUME setup_completed PROVE setup_completed' /\ admin1' = admin1
    <3>1. ASSUME NEW q \in Requests, SetupCommit(q) PROVE FALSE
      BY <1>1, <2>2, <3>1 DEF AdminInv, SetupCommit
    <3>2. CASE UNCHANGED vars
      BY <2>2, <3>2 DEF vars
    <3> QED
      BY <1>1, <2>2, <3>1, <3>2
         DEF Next, Step, SetupCheck, RecoverLookup, Login, AdminPost, OpenSession, SessionEnds,
             DisableCount, DisableUpdate, EnableUpdate, CreateUser, ChangePassword,
             ChangeVerify, RecoverReset, RecoverEnable, RecoverEnableFails, RecoverEvict, Abort
  <2> QED
    BY <2>1, <2>2
<1> QED
  BY <1>1, AdminInvariance, PTL DEF Spec, SetupOnce
============================================================================

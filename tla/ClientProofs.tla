---------------------------- MODULE ClientProofs ----------------------------
(***************************************************************************)
(* The limiter is exact and tokens stay in their scope, for any limit and  *)
(* any number of requests, products, versions, keys and tokens.            *)
(***************************************************************************)
EXTENDS ClientAccess, FiniteSetTheorems, TLAPS

(* A slot belongs to a request that is under way, so that no arrival ever  *)
(* overwrites the memory of one.                                           *)
SlotInv ==
    /\ ClientTypeOK
    /\ SlotsAreHeld
    /\ \A q \in Requests : request[q].pc = "idle" => ~request[q].slot
    /\ \A q \in Requests : request[q].pc = "verify" => request[q].key \in Keys

(* The requests that hold a slot are finitely many.                        *)
LEMMA HoldingFinite == IsFiniteSet(Holding)
  BY RequestsAssumption, FS_Subset DEF Holding

(* What one more holder, or one less, does to their number.                *)
LEMMA HoldingChanges ==
    ASSUME NEW q \in Requests
    PROVE  /\ IsFiniteSet(Holding)
           /\ Cardinality(Holding) \in Nat
           /\ q \notin Holding => Cardinality(Holding \cup {q}) = Cardinality(Holding) + 1
           /\ q \in Holding => Cardinality(Holding \ {q}) = Cardinality(Holding) - 1
  BY HoldingFinite, FS_CardinalityType, FS_AddElement, FS_RemoveElement

(* A step that moves a request without touching its slot.                  *)
LEMMA SameHolders ==
    ASSUME request \in [Requests -> RequestState], request' \in [Requests -> RequestState],
           \A r \in Requests : request'[r].slot = request[r].slot
    PROVE  Holding' = Holding
  BY DEF Holding

(* Each action keeps the limiter's account.                                *)
LEMMA SlotStep == SlotInv /\ [Next]_vars => SlotInv'
<1> SUFFICES ASSUME SlotInv, [Next]_vars PROVE SlotInv'
  OBVIOUS
<1> USE LimitAssumption
<1>1. ASSUME NEW q \in Requests, NEW new \in Arrivals, Arrive(q, new) PROVE SlotInv'
  <2> USE DEF SlotInv, ClientTypeOK, Arrive
  <2>0. /\ new \in RequestState
        /\ new.slot = FALSE
    BY DEF Arrivals, Idle, RequestState, Scopes, Route
  <2>1. CASE new.route # "download"
    <3>1. ClientTypeOK'
      BY <1>1, <2>0, <2>1 DEF RequestState
    <3>2. \A r \in Requests : request'[r].slot = request[r].slot
      BY <1>1, <2>0, <2>1 DEF RequestState
    <3>3. SlotsAreHeld'
      BY <1>1, <2>1, <3>1, <3>2, SameHolders DEF SlotsAreHeld
    <3> QED
      BY <1>1, <2>0, <2>1, <3>1, <3>3 DEF RequestState
  <2>2. CASE new.route = "download" /\ slots < Limit
    <3> DEFINE held == [new EXCEPT !.pc = "arrived", !.slot = TRUE]
    <3>1. held \in RequestState /\ held.slot = TRUE /\ held.pc = "arrived"
      BY <2>0 DEF RequestState
    <3>2. request' = [request EXCEPT ![q] = held] /\ slots' = slots + 1
      BY <1>1, <2>2
    <3> HIDE DEF held
    <3>3. ClientTypeOK'
      BY <1>1, <2>2, <3>1, <3>2
    <3>4. q \notin Holding
      BY <1>1 DEF Holding
    <3>5. Holding' = Holding \cup {q}
      BY <3>1, <3>2 DEF Holding
    <3>6. SlotsAreHeld'
      BY <3>2, <3>4, <3>5, HoldingChanges DEF SlotsAreHeld
    <3> QED
      BY <3>1, <3>2, <3>3, <3>6
  <2>3. CASE new.route = "download" /\ ~(slots < Limit)
    <3>1. ClientTypeOK'
      BY <1>1, <2>0, <2>3 DEF RequestState
    <3>2. \A r \in Requests : request'[r].slot = request[r].slot
      BY <1>1, <2>0, <2>3 DEF RequestState
    <3>3. SlotsAreHeld'
      BY <1>1, <2>3, <3>1, <3>2, SameHolders DEF SlotsAreHeld
    <3> QED
      BY <1>1, <2>0, <2>3, <3>1, <3>3 DEF RequestState
  <2> QED
    BY <2>1, <2>2, <2>3
<1>2. ASSUME NEW q \in Requests, Finish(q) PROVE SlotInv'
  <2> USE DEF SlotInv, ClientTypeOK, Finish
  <2>1. CASE request[q].slot
    <3>1. q \in Holding /\ Holding' = Holding \ {q}
      BY <1>2, <2>1 DEF Holding, Idle, RequestState
    <3>2. slots' = slots - 1 /\ SlotsAreHeld'
      BY <1>2, <2>1, <3>1, HoldingChanges DEF SlotsAreHeld
    <3>3. slots' \in 0..Limit
      <4>1. Cardinality(Holding) # 0
        BY <3>1, HoldingFinite, FS_EmptySet
      <4> QED
        BY <3>2, <4>1 DEF SlotsAreHeld
    <3> QED
      BY <1>2, <2>1, <3>2, <3>3 DEF Idle, RequestState
  <2>2. CASE ~request[q].slot
    <3>2. ClientTypeOK'
      BY <1>2, <2>2 DEF Idle, RequestState
    <3>3. \A r \in Requests : request'[r].slot = request[r].slot
      BY <1>2, <2>2 DEF Idle, RequestState
    <3>4. SlotsAreHeld'
      BY <1>2, <2>2, <3>2, <3>3, SameHolders DEF SlotsAreHeld
    <3> QED
      BY <1>2, <2>2, <3>2, <3>4 DEF Idle, RequestState
  <2> QED
    BY <2>1, <2>2
<1>3. ASSUME NEW q \in Requests, NEW pc \in {"verify", "admitted", "done"},
             request[q].pc # "idle", Goto(q, pc),
             pc = "verify" => request[q].key \in Keys,
             UNCHANGED <<api_keys, download_tokens, slots>>
      PROVE  SlotInv'
  <2> USE DEF SlotInv, ClientTypeOK, Goto
  <2>1. ClientTypeOK'
    BY <1>3 DEF RequestState
  <2>2. \A r \in Requests : request'[r].slot = request[r].slot
    BY <1>3 DEF RequestState
  <2>3. SlotsAreHeld'
    BY <1>3, <2>1, <2>2, SameHolders DEF SlotsAreHeld
  <2> QED
    BY <1>3, <2>1, <2>3 DEF RequestState
<1>4. ASSUME NEW q \in Requests, AuthToken(q) PROVE SlotInv'
  BY <1>3, <1>4 DEF AuthToken, Reject
<1>5. ASSUME NEW q \in Requests, AuthKeyLookup(q) PROVE SlotInv'
  BY <1>3, <1>5 DEF AuthKeyLookup, Reject, Candidates
<1>6. ASSUME NEW q \in Requests, AuthKeyVerify(q) PROVE SlotInv'
  BY <1>3, <1>6 DEF AuthKeyVerify, Reject
<1>7. ASSUME NEW q \in Requests, ServeFails(q) PROVE SlotInv'
  BY <1>3, <1>7 DEF ServeFails, Reject
<1>8. ASSUME NEW q \in Requests, Serve(q) PROVE SlotInv'
  <2> USE DEF SlotInv, ClientTypeOK, Serve
  <2>1. Resolve(q) \in Versions \cup {AnyVersion}
    <3>1. CASE UsesToken(q) /\ request[q].version = AnyVersion
      <4>1. request[q].token \in Tokens
        BY <3>1 DEF UsesToken, RequestState
      <4>2. download_tokens[request[q].token].version \in Versions \cup {AnyVersion}
        BY <4>1 DEF TokenRow
      <4> QED
        BY <3>1, <4>2 DEF Resolve
    <3>2. CASE ~(UsesToken(q) /\ request[q].version = AnyVersion)
      BY <3>2 DEF Resolve, RequestState
    <3> QED
      BY <3>1, <3>2
  <2> DEFINE served == [request[q] EXCEPT !.pc = "serving", !.version = Resolve(q)]
  <2>2. served \in RequestState /\ served.pc = "serving" /\ served.slot = request[q].slot
    BY <2>1 DEF RequestState
  <2>3. request' = [request EXCEPT ![q] = served]
    BY <1>8
  <2> HIDE DEF served
  <2>4. ClientTypeOK'
    BY <1>8, <2>2, <2>3
  <2>5. \A r \in Requests : request'[r].slot = request[r].slot
    BY <2>2, <2>3
  <2>6. SlotsAreHeld'
    BY <1>8, <2>4, <2>5, SameHolders DEF SlotsAreHeld
  <2> QED
    BY <1>8, <2>2, <2>3, <2>4, <2>6
<1>9. ASSUME Crash PROVE SlotInv'
  <2>1. Holding' = {}
    BY <1>9 DEF Crash, Holding, Idle
  <2>2. SlotsAreHeld'
    BY <1>9, <2>1, FS_EmptySet DEF Crash, SlotsAreHeld
  <2> QED
    BY <1>9, <2>2 DEF SlotInv, ClientTypeOK, Crash, Idle, RequestState
<1>10. ASSUME UNCHANGED <<slots, request>>,
              api_keys' \in [Keys -> KeyRow], download_tokens' \in [Tokens -> TokenRow]
       PROVE  SlotInv'
  BY <1>10 DEF SlotInv, ClientTypeOK, SlotsAreHeld, Holding
<1>11. ASSUME NEW k \in Keys, NEW s \in SUBSET Scopes, NEW a \in SUBSET Products,
              APIKeyCreate(k, s, a)
       PROVE  SlotInv'
  BY <1>10, <1>11 DEF APIKeyCreate, SlotInv, ClientTypeOK, KeyRow
<1>12. ASSUME NEW k \in Keys, APIKeyRevoke(k) PROVE SlotInv'
  BY <1>10, <1>12 DEF APIKeyRevoke, SlotInv, ClientTypeOK, KeyRow
<1>13. ASSUME NEW t \in Tokens, NEW p \in Products, NEW v \in Versions \cup {AnyVersion},
              TemporaryLink(t, p, v)
       PROVE  SlotInv'
  BY <1>10, <1>13 DEF TemporaryLink, SlotInv, ClientTypeOK, TokenRow
<1>14. ASSUME NEW t \in Tokens, TokenExpires(t) PROVE SlotInv'
  BY <1>10, <1>14 DEF TokenExpires, SlotInv, ClientTypeOK, TokenRow
<1>15. ASSUME NEW t \in Tokens, TokenCleaned(t) PROVE SlotInv'
  BY <1>10, <1>15 DEF TokenCleaned, SlotInv, ClientTypeOK, TokenRow
<1>16. CASE UNCHANGED vars
  BY <1>10, <1>16 DEF vars, SlotInv, ClientTypeOK
<1> QED
  BY <1>1, <1>2, <1>4, <1>5, <1>6, <1>7, <1>8, <1>9, <1>11, <1>12, <1>13, <1>14, <1>15,
     <1>16 DEF Next, Step

(* The account is kept from the start.                                     *)
LEMMA SlotInvariant == Spec => []SlotInv
<1>1. Init => SlotInv
  <2> SUFFICES ASSUME Init PROVE SlotInv
    OBVIOUS
  <2>1. Holding = {}
    BY DEF Init, Holding, Idle
  <2>2. SlotsAreHeld
    BY <2>1, FS_EmptySet DEF Init, SlotsAreHeld
  <2> QED
    BY <2>2, LimitAssumption
       DEF Init, SlotInv, ClientTypeOK, NoKey, KeyRow, NoToken, TokenRow, Idle, RequestState
<1> QED
  BY <1>1, SlotStep, PTL DEF Spec

(* The limiter's channel holds one element for each download under way,    *)
(* and never more than its capacity, in every reachable state.             *)
THEOREM LimiterIsExact == Spec => [](SlotsAreHeld /\ slots <= Limit)
<1>1. SlotInv => SlotsAreHeld /\ slots <= Limit
  BY LimitAssumption DEF SlotInv, ClientTypeOK
<1> QED
  BY <1>1, SlotInvariant, PTL
----------------------------------------------------------------------------
(* What a token in use has to say about request r: dt is its row.          *)
InScope(r, dt) ==
    /\ dt.state # "unused"
    /\ dt.product_id = r.product
    /\ IF r.pc = "serving" THEN dt.version \in {AnyVersion, r.version}
       ELSE dt.version = AnyVersion \/ r.version \in {AnyVersion, dt.version}

(* A request that its token has admitted is and stays in its scope; the    *)
(* key's way through the middleware is never that of a token.              *)
ScopeInv ==
    /\ \A q \in Requests : request[q].pc \in {"admitted", "serving"} /\ UsesToken(q) =>
          InScope(request[q], download_tokens[request[q].token])
    /\ \A q \in Requests : request[q].pc = "verify" => ~UsesToken(q)

(* The rows of tokens in use keep their product and their version.         *)
LEMMA ScopeTables ==
    ASSUME SlotInv, ScopeInv, request' = request,
           \A t \in Tokens : download_tokens[t].state # "unused" =>
              /\ download_tokens'[t].state # "unused"
              /\ download_tokens'[t].product_id = download_tokens[t].product_id
              /\ download_tokens'[t].version = download_tokens[t].version
    PROVE  ScopeInv'
<1>1. ASSUME NEW q \in Requests, UsesToken(q) PROVE request[q].token \in Tokens
  BY <1>1 DEF SlotInv, ClientTypeOK, RequestState, UsesToken
<1> QED
  BY <1>1 DEF ScopeInv, InScope, UsesToken

(* A step of one request, which leaves the table alone.                    *)
LEMMA ScopeRequest ==
    ASSUME SlotInv, ScopeInv, download_tokens' = download_tokens,
           NEW q \in Requests, NEW r \in RequestState, request' = [request EXCEPT ![q] = r],
           r.pc \in {"admitted", "serving"} /\ r.route = "download" /\ r.token # "none" =>
              InScope(r, download_tokens[r.token]),
           r.pc = "verify" => ~(r.route = "download" /\ r.token # "none")
    PROVE  ScopeInv'
<1>1. /\ request'[q] = r
      /\ \A o \in Requests : o # q => request'[o] = request[o]
  BY DEF SlotInv, ClientTypeOK
<1>2. ASSUME NEW o \in Requests
      PROVE  /\ request'[o].pc \in {"admitted", "serving"} /\ UsesToken(o)' =>
                    InScope(request'[o], download_tokens'[request'[o].token])
             /\ request'[o].pc = "verify" => ~UsesToken(o)'
  <2>1. CASE o = q
    BY <1>1, <2>1 DEF UsesToken
  <2>2. CASE o # q
    BY <1>1, <2>2 DEF ScopeInv, UsesToken
  <2> QED
    BY <2>1, <2>2
<1> QED
  BY <1>2 DEF ScopeInv

(* Each action keeps tokens in their scope.                                *)
LEMMA ScopeStep == SlotInv /\ ScopeInv /\ [Next]_vars => ScopeInv'
<1> SUFFICES ASSUME SlotInv, ScopeInv, [Next]_vars PROVE ScopeInv'
  OBVIOUS
<1>0. /\ download_tokens \in [Tokens -> TokenRow] /\ request \in [Requests -> RequestState]
      /\ Idle \in RequestState
  BY DEF SlotInv, ClientTypeOK, Idle, RequestState
<1>1. ASSUME NEW q \in Requests, NEW new \in Arrivals, Arrive(q, new) PROVE ScopeInv'
  <2>1. new \in RequestState
    BY DEF Arrivals, RequestState, Route
  <2>2. PICK r : /\ r \in {[new EXCEPT !.pc = "arrived"], [new EXCEPT !.pc = "done"],
                           [new EXCEPT !.pc = "arrived", !.slot = TRUE]}
                 /\ request' = [request EXCEPT ![q] = r]
    BY <1>1 DEF Arrive
  <2>3. r \in RequestState /\ r.pc \in {"arrived", "done"}
    BY <2>1, <2>2 DEF RequestState
  <2> QED
    BY <1>1, <2>2, <2>3, ScopeRequest DEF Arrive
<1>2. ASSUME NEW q \in Requests, NEW pc \in {"verify", "admitted", "done"}, Goto(q, pc),
             download_tokens' = download_tokens,
             pc = "verify" => ~UsesToken(q),
             pc = "admitted" /\ UsesToken(q) => TokenAdmits(q)
      PROVE  ScopeInv'
  <2> DEFINE r == [request[q] EXCEPT !.pc = pc]
  <2>1. /\ r \in RequestState /\ r.pc = pc /\ r.route = request[q].route
        /\ r.token = request[q].token /\ r.product = request[q].product
        /\ r.version = request[q].version
    BY <1>0 DEF RequestState
  <2>2. request' = [request EXCEPT ![q] = r]
    BY <1>0, <1>2 DEF Goto
  <2> HIDE DEF r
  <2>3. pc = "admitted" /\ UsesToken(q) => InScope(r, download_tokens[r.token])
    BY <1>2, <2>1 DEF TokenAdmits, InScope
  <2> QED
    BY <1>2, <2>1, <2>2, <2>3, ScopeRequest DEF UsesToken
<1>3. ASSUME NEW q \in Requests, AuthToken(q) PROVE ScopeInv'
  BY <1>2, <1>3 DEF AuthToken, Reject
<1>4. ASSUME NEW q \in Requests, AuthKeyLookup(q) PROVE ScopeInv'
  BY <1>2, <1>4 DEF AuthKeyLookup, Reject
<1>5. ASSUME NEW q \in Requests, AuthKeyVerify(q) PROVE ScopeInv'
  BY <1>2, <1>5 DEF AuthKeyVerify, Reject, ScopeInv
<1>6. ASSUME NEW q \in Requests, ServeFails(q) PROVE ScopeInv'
  BY <1>2, <1>6 DEF ServeFails, Reject
<1>7. ASSUME NEW q \in Requests, Serve(q) PROVE ScopeInv'
  <2> DEFINE v == Resolve(q)
             r == [request[q] EXCEPT !.pc = "serving", !.version = v]
  <2>1. v \in Versions \cup {AnyVersion}
    <3>1. UsesToken(q) => request[q].token \in Tokens
      BY <1>0 DEF UsesToken, RequestState
    <3>2. UsesToken(q) => download_tokens[request[q].token].version \in Versions \cup {AnyVersion}
      BY <1>0, <3>1 DEF TokenRow
    <3> QED
      BY <1>0, <3>2 DEF Resolve, RequestState
  <2>2. UsesToken(q) => InScope(request[q], download_tokens[request[q].token])
    BY <1>7 DEF Serve, ScopeInv
  <2>3. UsesToken(q) => download_tokens[request[q].token].version \in {AnyVersion, v}
    BY <1>7, <2>2 DEF Serve, Resolve, InScope
  <2> HIDE DEF v
  <2>4. /\ r \in RequestState /\ r.pc = "serving" /\ r.route = request[q].route
        /\ r.token = request[q].token /\ r.product = request[q].product /\ r.version = v
    BY <1>0, <2>1 DEF RequestState
  <2>5. request' = [request EXCEPT ![q] = r] /\ download_tokens' = download_tokens
    BY <1>7 DEF Serve, v
  <2> HIDE DEF r
  <2>6. UsesToken(q) => InScope(r, download_tokens[r.token])
    BY <2>2, <2>3, <2>4 DEF InScope
  <2> QED
    BY <2>4, <2>5, <2>6, ScopeRequest DEF UsesToken
<1>8. ASSUME NEW q \in Requests, Finish(q) PROVE ScopeInv'
  BY <1>0, <1>8, ScopeRequest DEF Finish, Idle
<1>9. CASE Crash
  BY <1>9 DEF Crash, ScopeInv, Idle
<1>10. CASE UNCHANGED <<request, download_tokens>>
  BY <1>10, ScopeTables
<1>11. ASSUME NEW t \in Tokens, TokenExpires(t) \/ TokenCleaned(t) PROVE ScopeInv'
  BY <1>0, <1>11, ScopeTables DEF TokenExpires, TokenCleaned, TokenRow
<1>12. ASSUME NEW t \in Tokens, NEW p \in Products, NEW v \in Versions \cup {AnyVersion},
              TemporaryLink(t, p, v)
       PROVE  ScopeInv'
  BY <1>0, <1>12, ScopeTables DEF TemporaryLink
<1>13. CASE UNCHANGED vars
  BY <1>10, <1>13 DEF vars
<1> QED
  BY <1>1, <1>3, <1>4, <1>5, <1>6, <1>7, <1>8, <1>9, <1>10, <1>11, <1>12, <1>13
     DEF Next, Step, APIKeyCreate, APIKeyRevoke

(* No request or table of the client side leaves its type, and the limiter *)
(* counts between zero and its limit, also after refusals and crashes.     *)
THEOREM ClientTypes == Spec => []ClientTypeOK
<1>1. SlotInv => ClientTypeOK
  BY DEF SlotInv
<1> QED
  BY <1>1, SlotInvariant, PTL

(* A temporary link opens what it names and nothing else, whatever version *)
(* the query asks for and whatever becomes of the link meanwhile.          *)
THEOREM TokenScope == Spec => []TokenScopeHolds
<1>1. Init => ScopeInv
  BY DEF Init, ScopeInv, Idle
<1>2. ScopeInv => TokenScopeHolds
  BY DEF ScopeInv, TokenScopeHolds, InScope
<1> QED
  BY <1>1, <1>2, SlotInvariant, ScopeStep, PTL DEF Spec
============================================================================

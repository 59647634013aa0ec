----------------------------- MODULE ClientAccess -----------------------------
(***************************************************************************)
(* Who may read what: the middleware in front of the manifest and download *)
(* handlers (internal/api), the tables api_keys and download_tokens,       *)
(* and the concurrency limiter.                                            *)
(*                                                                         *)
(* A download takes a slot of the limiter before it authenticates.  An API *)
(* key is looked up first and verified after, with an Argon2 computation   *)
(* in between; a download token is looked up and judged at once.  What the *)
(* handlers do with the catalogue and the artifacts is in Distribution and *)
(* ManifestServing.                                                        *)
(*                                                                         *)
(* A key, or token, is its secret: no two share a prefix's hash.  The      *)
(* admin UI creates keys that never expire and never revokes a token.      *)
(* last_used_at, download_count and the audit rows are written and never   *)
(* read by what is modelled here.                                          *)
(***************************************************************************)
EXTENDS Naturals, FiniteSets

CONSTANTS Products, Versions, Keys, Tokens,
          Requests,    \* concurrent requests (bound)
          Limit        \* capacity of the limiter's channel

ASSUME LimitAssumption == Limit \in Nat \ {0}
ASSUME RequestsAssumption == IsFiniteSet(Requests)

VARIABLES
    api_keys,          \* table api_keys
    download_tokens,   \* table download_tokens
    slots,             \* len(ConcurrencyLimiter.sem)
    request            \* local state of each request

vars == <<api_keys, download_tokens, slots, request>>
----------------------------------------------------------------------------
Scopes == {"manifest:read", "download"}
Route  == {"manifest:read", "download"}     \* named by the scope it requires
AnyVersion == ""

KeyRow == [state            : {"unused", "active", "revoked"},
           scopes           : SUBSET Scopes,
           allowed_products : SUBSET Products]

TokenRow == [state      : {"unused", "valid", "expired", "deleted"},
             product_id : Products \cup {"none"},
             version    : Versions \cup {AnyVersion}]

NoKey   == [state |-> "unused", scopes |-> {}, allowed_products |-> {}]
NoToken == [state |-> "unused", product_id |-> "none", version |-> AnyVersion]

RequestState ==
    [pc      : {"idle", "arrived", "verify", "admitted", "serving", "done"},
     route   : Route \cup {"none"},
     product : Products \cup {"none"},
     version : Versions \cup {AnyVersion},  \* asked for, and later the one served
     key     : Keys \cup {"none"},          \* the credential it presents
     token   : Tokens \cup {"none"},
     slot    : BOOLEAN]                     \* the deferred release is due
Idle == [pc |-> "idle", route |-> "none", product |-> "none", version |-> AnyVersion,
         key |-> "none", token |-> "none", slot |-> FALSE]

ClientTypeOK ==
    /\ api_keys        \in [Keys -> KeyRow]
    /\ download_tokens \in [Tokens -> TokenRow]
    /\ slots           \in 0..Limit
    /\ request         \in [Requests -> RequestState]

Init ==
    /\ api_keys        = [k \in Keys |-> NoKey]
    /\ download_tokens = [t \in Tokens |-> NoToken]
    /\ slots           = 0
    /\ request         = [q \in Requests |-> Idle]
----------------------------------------------------------------------------
(* The admin UI and the clean-up.                                          *)
APIKeyCreate(k, scopes, allowed) ==
    /\ api_keys[k].state = "unused"
    /\ api_keys' = [api_keys EXCEPT ![k] =
         [state |-> "active", scopes |-> scopes, allowed_products |-> allowed]]
    /\ UNCHANGED <<download_tokens, slots, request>>

APIKeyRevoke(k) ==
    /\ api_keys[k].state = "active"
    /\ api_keys' = [api_keys EXCEPT ![k].state = "revoked"]
    /\ UNCHANGED <<download_tokens, slots, request>>

TemporaryLink(t, p, v) ==
    /\ download_tokens[t].state = "unused"
    /\ download_tokens' = [download_tokens EXCEPT ![t] =
         [state |-> "valid", product_id |-> p, version |-> v]]
    /\ UNCHANGED <<api_keys, slots, request>>

TokenExpires(t) ==
    /\ download_tokens[t].state = "valid"
    /\ download_tokens' = [download_tokens EXCEPT ![t].state = "expired"]
    /\ UNCHANGED <<api_keys, slots, request>>

(* CleanExpiredDownloadTokens, one row of it.                              *)
TokenCleaned(t) ==
    /\ download_tokens[t].state = "expired"
    /\ download_tokens' = [download_tokens EXCEPT ![t].state = "deleted"]
    /\ UNCHANGED <<api_keys, slots, request>>
----------------------------------------------------------------------------
Goto(q, pc) == request' = [request EXCEPT ![q].pc = pc]
Reject(q)   == Goto(q, "done")

(* Mutant: one download more than the limit gets in.                       *)
ArriveOneMore(q, new) ==
    /\ request[q].pc = "idle"
    /\ slots <= Limit
    /\ request' = [request EXCEPT ![q] =
                     [new EXCEPT !.pc = "arrived", !.slot = (new.route = "download")]]
    /\ slots' = IF new.route = "download" THEN slots + 1 ELSE slots
    /\ UNCHANGED <<api_keys, download_tokens>>

(* A request for a product, with a key, a token or neither.  Limit: a      *)
(* download that finds no free slot is answered 429 at once.               *)
Arrive(q, new) ==
    /\ request[q].pc = "idle"
    /\ IF new.route # "download"
       THEN /\ request' = [request EXCEPT ![q] = [new EXCEPT !.pc = "arrived"]]
            /\ UNCHANGED slots
       ELSE IF slots < Limit
       THEN /\ request' = [request EXCEPT ![q] =
                             [new EXCEPT !.pc = "arrived", !.slot = TRUE]]
            /\ slots' = slots + 1
       ELSE /\ request' = [request EXCEPT ![q] = [new EXCEPT !.pc = "done"]]
            /\ UNCHANGED slots
    /\ UNCHANGED <<api_keys, download_tokens>>

Arrivals ==
    [pc : {"idle"}, route : Route, product : Products, version : Versions \cup {AnyVersion},
     key : Keys \cup {"none"}, token : Tokens \cup {"none"}, slot : {FALSE}]

(* A download that carries a token is judged by it, whatever else it has.  *)
UsesToken(q) == request[q].route = "download" /\ request[q].token # "none"

TokenAdmits(q) ==
    LET dt == download_tokens[request[q].token]
    IN  /\ dt.state = "valid"
        /\ dt.product_id = request[q].product
        /\ dt.version # AnyVersion => request[q].version \in {AnyVersion, dt.version}

(* RequireDownloadAuth with a token; its row goes into the context.        *)
AuthToken(q) ==
    /\ request[q].pc = "arrived"
    /\ UsesToken(q)
    /\ IF TokenAdmits(q) THEN Goto(q, "admitted") ELSE Reject(q)
    /\ UNCHANGED <<api_keys, download_tokens, slots>>

(* Mutant: revoked rows are candidates too.                                *)
CandidatesWithRevoked(q) ==
    {k \in Keys \cap {request[q].key} : api_keys[k].state # "unused"}

(* GetAPIKeysByPrefix: rows that are not revoked.                          *)
Candidates(q) == {k \in Keys \cap {request[q].key} : api_keys[k].state = "active"}

AuthKeyLookup(q) ==
    /\ request[q].pc = "arrived"
    /\ ~UsesToken(q)
    /\ IF Candidates(q) = {} THEN Reject(q) ELSE Goto(q, "verify")
    /\ UNCHANGED <<api_keys, download_tokens, slots>>

(* Argon2 is done, the scope and the products of the row read before are   *)
(* checked; nothing but is_revoked ever changes in a row.                  *)
AuthKeyVerify(q) ==
    LET k == api_keys[request[q].key]
    IN  /\ request[q].pc = "verify"
        /\ IF request[q].route \in k.scopes /\ request[q].product \in k.allowed_products
           THEN Goto(q, "admitted") ELSE Reject(q)
        /\ UNCHANGED <<api_keys, download_tokens, slots>>

(* Mutant: the handler knows only the query parameter.                     *)
ResolveQueryOnly(q) == request[q].version

(* The version a handler serves: the query's, the token's, or the current  *)
(* one.  The token's row in the context is never changed but in its state. *)
Resolve(q) ==
    IF UsesToken(q) /\ request[q].version = AnyVersion
    THEN download_tokens[request[q].token].version ELSE request[q].version

Serve(q) ==
    /\ request[q].pc = "admitted"
    /\ request' = [request EXCEPT ![q] =
                     [request[q] EXCEPT !.pc = "serving", !.version = Resolve(q)]]
    /\ UNCHANGED <<api_keys, download_tokens, slots>>

(* No such product, version or file; a query fails.                        *)
ServeFails(q) ==
    /\ request[q].pc = "admitted"
    /\ Reject(q)
    /\ UNCHANGED <<api_keys, download_tokens, slots>>

(* Mutant: the slot is given back only after a download was served.        *)
FinishLeaks(q) ==
    /\ request[q].pc \in {"serving", "done"}
    /\ slots' = IF request[q].slot /\ request[q].pc = "serving" THEN slots - 1 ELSE slots
    /\ request' = [request EXCEPT ![q] = Idle]
    /\ UNCHANGED <<api_keys, download_tokens>>

(* The handler returns and the deferred release runs; the audit middleware *)
(* writes its row and ignores an error.                                    *)
Finish(q) ==
    /\ request[q].pc \in {"serving", "done"}
    /\ slots' = IF request[q].slot THEN slots - 1 ELSE slots
    /\ request' = [request EXCEPT ![q] = Idle]
    /\ UNCHANGED <<api_keys, download_tokens>>

(* The process dies; the database stays.                                   *)
Crash ==
    /\ slots' = 0
    /\ request' = [q \in Requests |-> Idle]
    /\ UNCHANGED <<api_keys, download_tokens>>
----------------------------------------------------------------------------
Step(q) ==
    \/ AuthToken(q) \/ AuthKeyLookup(q) \/ AuthKeyVerify(q)
    \/ Serve(q) \/ ServeFails(q) \/ Finish(q)

Next ==
    \/ \E q \in Requests : Step(q) \/ \E new \in Arrivals : Arrive(q, new)
    \/ \E k \in Keys : \/ APIKeyRevoke(k)
                       \/ \E s \in SUBSET Scopes, a \in SUBSET Products : APIKeyCreate(k, s, a)
    \/ \E t \in Tokens : \/ TokenExpires(t) \/ TokenCleaned(t)
                         \/ \E p \in Products, v \in Versions \cup {AnyVersion} :
                               TemporaryLink(t, p, v)
    \/ Crash

Spec == Init /\ [][Next]_vars

(* Handlers return: net/http ends a request whose client is gone.          *)
LiveSpec == Spec /\ \A q \in Requests : WF_vars(Step(q))
----------------------------------------------------------------------------
Holding == {q \in Requests : request[q].slot}

(* The limiter neither leaks a slot nor gives one twice: the channel holds *)
(* one element for each download under way, whether it is rejected, served *)
(* or fails, so that it never stays full with nobody inside.               *)
SlotsAreHeld == slots = Cardinality(Holding)

(* A download token opens its product and, when it names one, its version  *)
(* only, however the request spells the version, and also when the token   *)
(* expires or is deleted while the download is under way.                  *)
TokenScopeHolds ==
    \A q \in Requests : request[q].pc = "serving" /\ UsesToken(q) =>
        LET dt == download_tokens[request[q].token]
        IN  /\ dt.product_id = request[q].product
            /\ dt.version \in {AnyVersion, request[q].version}

(* Revocation drains: although a request that was looked up before it may  *)
(* still be admitted, there comes a time after which the key opens nothing. *)
RevokedKeyDrains ==
    \A k \in Keys :
        [](api_keys[k].state = "revoked" =>
             <>[](\A q \in Requests :
                    request[q].key = k /\ ~UsesToken(q) => request[q].pc # "serving"))
============================================================================

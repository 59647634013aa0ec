-------------------------- MODULE PlacementProofs --------------------------
(***************************************************************************)
(* The storage manager implements ArtifactStore, for any number of callers *)
(* and of settings requests, alone and under the catalogue; and rows,      *)
(* downloads and deletions agree on where an artifact is.  The second part *)
(* speaks of StoredNow and Requests, the two variables of ArtifactStore,   *)
(* so that a step of a call is one of the seven steps of the store that    *)
(* the first part leaves.                                                  *)
(***************************************************************************)
EXTENDS ArtifactPlacement, CatalogProofs

(* What holds of a call between its steps.                                 *)
CallOK(r) ==
    /\ r.active # r.fallback
    /\ r.op = "store" => r.path.driver = r.active /\ r.pc \in {"active", "done"}
    /\ r.op # "open" => r.body = NoBuild /\ r.pc \notin {"activeGet", "fallbackGet"}
    /\ r.pc \in {"active", "activeGet"} => r.status = "pending" /\ r.body = NoBuild
    /\ r.pc \in {"fallback", "fallbackGet"} => r.fallback # "nil" /\ r.body = NoBuild
    /\ r.pc \in {"fallback", "fallbackGet"} /\ r.op = "open" => r.status = "pending"
    /\ r.pc \in {"fallback", "done"} /\ r.op = "delete" => r.status \in {"ok", "error"}
    /\ r.pc = "activeGet" => r.path.driver = r.active
    /\ r.pc = "fallbackGet" => r.path.driver = r.fallback
    /\ r.pc = "done" => r.status # "pending"

Calling(c) == call[c] \in CallState /\ CallOK(call[c])

StorageInv == StorageTypeOK /\ \A c \in Callers : call[c] = NoCall \/ Calling(c)
----------------------------------------------------------------------------
(* The request of one caller changes as its call does.                     *)
LEMMA RequestsStep ==
    ASSUME NEW c \in Callers, NEW r, StorageTypeOK,
           call' = [call EXCEPT ![c] = r]
    PROVE  /\ Requests' = [Requests EXCEPT ![c] = RequestOf(r)]
           /\ Requests[c] = RequestOf(call[c])
           /\ call'[c] = r
BY DEF Requests, StorageTypeOK

(* What the mapping makes of a call.                                       *)
LEMMA RequestOfCall ==
    ASSUME NEW r \in CallState
    PROVE  RequestOf(r) = [op |-> r.op, path |-> r.path, data |-> r.data,
                           place |-> PlaceOf(r), status |-> StatusOf(r), body |-> r.body]
BY DEF RequestOf, CallState

(* A step that keeps what the call asks for changes only the answer.       *)
SameCall(r, s) ==
    /\ s.op = r.op /\ s.path = r.path /\ s.data = r.data
    /\ s.active = r.active /\ s.fallback = r.fallback

(* So the abstract request answers what the mapping says, or nothing new.  *)
LEMMA AnswerStep ==
    ASSUME StorageTypeOK, NEW c \in Callers, NEW s \in CallState, call[c] \in CallState,
           call' = [call EXCEPT ![c] = s], SameCall(call[c], s)
    PROVE  /\ Store!Answer(c, StatusOf(s), s.body)
           /\ Requests[c].op = call[c].op /\ Requests[c].path = call[c].path
           /\ Requests[c].data = call[c].data /\ Requests[c].place = PlaceOf(call[c])
           /\ Requests[c].status = StatusOf(call[c])
           /\ StatusOf(s) = StatusOf(call[c]) /\ s.body = call[c].body => Requests' = Requests
<1> DEFINE r == call[c]
<1>1. Requests' = [Requests EXCEPT ![c] = RequestOf(s)] /\ Requests[c] = RequestOf(r)
  BY RequestsStep
<1>2. PlaceOf(s) = PlaceOf(r)
  BY DEF SameCall, PlaceOf
<1>3. RequestOf(r) = [op |-> r.op, path |-> r.path, data |-> r.data,
                      place |-> PlaceOf(r), status |-> StatusOf(r), body |-> r.body]
  BY RequestOfCall
<1>4. RequestOf(s) = [op |-> r.op, path |-> r.path, data |-> r.data,
                      place |-> PlaceOf(r), status |-> StatusOf(s), body |-> s.body]
  BY <1>2, RequestOfCall DEF SameCall
<1>5. r.op = Requests[c].op /\ r.path = Requests[c].path /\ r.data = Requests[c].data
      /\ PlaceOf(r) = Requests[c].place /\ StatusOf(r) = Requests[c].status
  BY <1>1, <1>3
<1>6. Store!Answer(c, StatusOf(s), s.body)
  BY <1>1, <1>4, <1>5, Zenon DEF Store!Answer
<1>7. ASSUME StatusOf(s) = StatusOf(r), s.body = r.body PROVE Requests' = Requests
  <2>1. RequestOf(s) = Requests[c]
    BY <1>1, <1>3, <1>4, <1>7
  <2> QED BY <1>1, <2>1 DEF Requests
<1> QED BY <1>5, <1>6, <1>7

(* The artifact of one path changes as the object of its driver does.      *)
LEMMA StoredStep ==
    ASSUME StorageTypeOK, NEW p \in StoragePath, NEW x, Put(p.driver, p.version, x)
    PROVE  StoredNow' = [StoredNow EXCEPT ![p] = x]
<1>1. \A q \in StoragePath : StoredNow'[q] = IF q = p THEN x ELSE StoredNow[q]
  <2> SUFFICES ASSUME NEW q \in StoragePath
               PROVE  StoredNow'[q] = IF q = p THEN x ELSE StoredNow[q]
    OBVIOUS
  <2>1. q = p <=> q.driver = p.driver /\ q.version = p.version
    BY DEF StoragePath
  <2>2. StoredNow'[q] = objects'[q.driver][q.version] /\ StoredNow[q] = objects[q.driver][q.version]
    BY DEF StoredNow
  <2>3. objects'[q.driver][q.version] =
           IF q.driver = p.driver /\ q.version = p.version THEN x ELSE objects[q.driver][q.version]
    BY DEF Put, StorageTypeOK, StoragePath
  <2> QED BY <2>1, <2>2, <2>3
<1> QED BY <1>1 DEF StoredNow

(* A step that leaves the objects alone leaves the store alone.            *)
LEMMA StoredSame == ASSUME UNCHANGED objects PROVE UNCHANGED StoredNow
BY DEF StoredNow
----------------------------------------------------------------------------
(* A store takes effect in the store of the abstract specification.        *)
LEMMA StoreArtifactRefines ==
    ASSUME StorageInv, NEW c \in Callers, StoreArtifact(c)
    PROVE  Store!Store(c)
<1> DEFINE r == call[c]
<1>1. r \in CallState /\ CallOK(r) /\ r.op = "store" /\ r.pc = "active"
  BY DEF StorageInv, Calling, StoreArtifact, NoCall
<1>2. PICK answer \in {"ok", "error"} : call' = [call EXCEPT ![c] = [r EXCEPT !.pc = "done", !.status = answer]]
  BY <1>1 DEF StoreArtifact, Answers, StorageInv, StorageTypeOK
<1> DEFINE s == [r EXCEPT !.pc = "done", !.status = answer]
<1>3. s \in CallState /\ SameCall(r, s) /\ s.body = NoBuild /\ StatusOf(s) = answer
  BY <1>1 DEF CallState, SameCall, CallOK, StatusOf
<1>4. StatusOf(r) = "pending"
  BY <1>1 DEF StatusOf, CallOK
<1>5. StoredNow' = [StoredNow EXCEPT ![r.path] = r.data]
  BY <1>1, StoredStep DEF StoreArtifact, CallOK, StorageInv, CallState
<1> QED
  BY <1>1, <1>2, <1>3, <1>4, <1>5, AnswerStep DEF Store!Store, Store!Pending, StorageInv

(* Looking an artifact up is an open where the path is kept, and nothing   *)
(* new elsewhere.                                                          *)
LEMMA OpenArtifactRefines ==
    ASSUME StorageInv, NEW c \in Callers, OpenArtifact(c)
    PROVE  Store!Open(c) \/ Store!OpenUnknown(c) \/ UNCHANGED Store!storeVars
<1> DEFINE r == call[c]
<1>1. r \in CallState /\ CallOK(r) /\ r.op = "open" /\ r.pc \in {"active", "fallback"}
  BY DEF StorageInv, Calling, OpenArtifact, NoCall
<1>2. UNCHANGED StoredNow
  BY StoredSame DEF OpenArtifact
<1>3. r.path \in StoragePath /\ StoredNow[r.path] = objects[r.path.driver][r.path.version]
  BY <1>1 DEF StoredNow, CallState
<1>4. r.status = "pending" /\ r.body = NoBuild
  BY <1>1 DEF CallOK
<1>5. CASE Found(c) = NoBuild /\ r.pc = "active" /\ r.fallback # "nil"
  <2> DEFINE s == [r EXCEPT !.pc = "fallback"]
  <2>1. call' = [call EXCEPT ![c] = s]
    BY <1>1, <1>5 DEF OpenArtifact
  <2>2. s \in CallState /\ SameCall(r, s) /\ s.body = NoBuild
    BY <1>1, <1>4 DEF CallState, SameCall
  <2>3. CASE PlaceOf(r) = "primary"
    <3>1. StatusOf(s) = "notfound" /\ StatusOf(r) = "pending"
      BY <1>1, <1>4, <1>5, <2>3 DEF StatusOf, PlaceOf, CallState
    <3>2. StoredNow[r.path] = NoBuild
      BY <1>3, <1>5, <2>3 DEF Found, Asked, PlaceOf
    <3> QED BY <1>1, <1>2, <2>1, <2>2, <2>3, <3>1, <3>2, AnswerStep
            DEF Store!Open, Store!Pending, StorageInv
  <2>4. CASE PlaceOf(r) # "primary"
    <3>1. StatusOf(s) = "pending" /\ StatusOf(r) = "pending"
      BY <1>1, <1>4, <1>5, <2>4 DEF StatusOf, PlaceOf, CallState
    <3> QED BY <1>1, <1>2, <1>4, <2>1, <2>2, <3>1, AnswerStep DEF Store!storeVars, StorageInv
  <2> QED BY <2>3, <2>4
<1>6. CASE Found(c) = NoBuild /\ ~(r.pc = "active" /\ r.fallback # "nil")
  <2> DEFINE s == [r EXCEPT !.pc = "done", !.status = "notfound"]
  <2>1. call' = [call EXCEPT ![c] = s]
    BY <1>1, <1>6 DEF OpenArtifact
  <2>2. s \in CallState /\ SameCall(r, s) /\ s.body = NoBuild /\ StatusOf(s) = "notfound"
    BY <1>1, <1>4 DEF CallState, SameCall, StatusOf
  <2>3. CASE r.pc = "fallback" /\ PlaceOf(r) = "primary"
    <3>1. StatusOf(r) = "notfound"
      BY <1>1, <2>3 DEF StatusOf
    <3> QED BY <1>1, <1>2, <1>4, <2>1, <2>2, <3>1, AnswerStep DEF Store!storeVars, StorageInv
  <2>4. CASE PlaceOf(r) = "unknown"
    <3>1. StatusOf(r) = "pending"
      BY <1>1, <1>4, <2>4 DEF StatusOf
    <3> QED BY <1>1, <1>2, <2>1, <2>2, <2>4, <3>1, AnswerStep
            DEF Store!OpenUnknown, Store!Pending, StorageInv
  <2>5. CASE ~(r.pc = "fallback" /\ PlaceOf(r) = "primary") /\ PlaceOf(r) # "unknown"
    <3>1. StatusOf(r) = "pending"
      BY <1>1, <1>4, <2>5 DEF StatusOf
    <3>2. Asked(c) = r.path.driver
      BY <1>1, <1>6, <2>5 DEF Asked, PlaceOf, CallState, StoragePath, Drivers
    <3>3. StoredNow[r.path] = NoBuild
      BY <1>3, <1>6, <3>2 DEF Found
    <3> QED BY <1>1, <1>2, <2>1, <2>2, <2>5, <3>1, <3>3, AnswerStep
            DEF Store!Open, Store!Pending, StorageInv
  <2> QED BY <2>3, <2>4, <2>5
<1>7. CASE Found(c) # NoBuild
  <2>1. Asked(c) = r.path.driver /\ Found(c) = StoredNow[r.path]
    BY <1>3, <1>7 DEF Found
  <2>2. PlaceOf(r) # "unknown" /\ StatusOf(r) = "pending"
    BY <1>1, <1>4, <2>1 DEF PlaceOf, Asked, StatusOf, CallOK
  <2>3. CASE Asked(c) = "filesystem"
    <3> DEFINE s == [r EXCEPT !.pc = "done", !.status = "ok", !.body = Found(c)]
    <3>1. call' = [call EXCEPT ![c] = s]
      BY <1>1, <1>7, <2>3 DEF OpenArtifact
    <3>2. Found(c) \in Builds \cup {NoBuild}
      BY <1>1, <2>1, <1>3 DEF StorageInv, StorageTypeOK, StoragePath
    <3>3. s \in CallState /\ SameCall(r, s) /\ s.body = Found(c) /\ StatusOf(s) = "ok"
      BY <1>1, <3>2 DEF CallState, SameCall, StatusOf
    <3>4. /\ Store!Answer(c, StatusOf(s), s.body)
          /\ Requests[c].op = r.op /\ Requests[c].path = r.path
          /\ Requests[c].place = PlaceOf(r) /\ Requests[c].status = StatusOf(r)
      <4> HIDE DEF s
      <4> QED BY <1>1, <3>1, <3>3, AnswerStep DEF StorageInv
    <3>5. StatusOf(s) = "ok" /\ s.body = StoredNow[r.path]
      BY <2>1, <3>3
    <3>6. Store!Answer(c, "ok", StoredNow[r.path])
      BY <3>4, <3>5, Zenon
    <3> QED BY <1>1, <1>2, <1>7, <2>1, <2>2, <3>4, <3>6 DEF Store!Open, Store!Pending
  <2>4. CASE Asked(c) # "filesystem"
    <3> DEFINE s == [r EXCEPT !.pc = IF r.pc = "active" THEN "activeGet" ELSE "fallbackGet"]
    <3>1. call' = [call EXCEPT ![c] = s]
      BY <1>1, <1>7, <2>4 DEF OpenArtifact
    <3>2. s \in CallState /\ SameCall(r, s) /\ s.body = NoBuild /\ StatusOf(s) = "pending"
      BY <1>1, <1>4 DEF CallState, SameCall, StatusOf
    <3> QED BY <1>1, <1>2, <1>4, <2>2, <3>1, <3>2, AnswerStep DEF Store!storeVars, StorageInv
  <2> QED BY <2>3, <2>4
<1> QED BY <1>5, <1>6, <1>7

(* GetObject opens what is there then, or fails.                           *)
LEMMA OpenGetRefines ==
    ASSUME StorageInv, NEW c \in Callers, OpenGet(c)
    PROVE  Store!Open(c) \/ Store!Fail(c)
<1> DEFINE r == call[c]
           s == [r EXCEPT !.pc = "done", !.body = Found(c),
                          !.status = IF Found(c) = NoBuild THEN "error" ELSE "ok"]
<1>1. r \in CallState /\ CallOK(r) /\ r.op = "open" /\ r.pc \in {"activeGet", "fallbackGet"}
  BY DEF StorageInv, Calling, OpenGet, NoCall, CallOK, CallState
<1>2. UNCHANGED StoredNow
  BY StoredSame DEF OpenGet
<1>3. r.path \in StoragePath /\ StoredNow[r.path] = objects[r.path.driver][r.path.version]
  BY <1>1 DEF StoredNow, CallState
<1>4. Asked(c) = r.path.driver /\ Found(c) = StoredNow[r.path]
  BY <1>1, <1>3 DEF Asked, Found, CallOK
<1>5. Found(c) \in Builds \cup {NoBuild}
  BY <1>3, <1>4 DEF StorageInv, StorageTypeOK, StoragePath
<1>6. call' = [call EXCEPT ![c] = s]
  BY DEF OpenGet
<1>7. s \in CallState /\ SameCall(r, s) /\ s.body = Found(c)
      /\ StatusOf(s) = IF Found(c) = NoBuild THEN "error" ELSE "ok"
  BY <1>1, <1>5 DEF CallState, SameCall, StatusOf
<1>8. StatusOf(r) = "pending" /\ PlaceOf(r) # "unknown"
  BY <1>1 DEF StatusOf, PlaceOf, CallOK
<1> QED BY <1>1, <1>2, <1>4, <1>6, <1>7, <1>8, AnswerStep
        DEF Store!Open, Store!Fail, Store!Pending, StorageInv

(* What Deleted makes of a call: decided by the driver that has the path.  *)
LEMMA DeletedCall ==
    ASSUME NEW c \in Callers, NEW answer \in {"ok", "error"}, call[c] \in CallState,
           CallOK(call[c]), call[c].op = "delete", call[c].pc \in {"active", "fallback"}
    PROVE  LET r == call[c]
               s == Deleted(c, answer)
           IN  /\ s \in CallState /\ SameCall(r, s) /\ s.body = NoBuild /\ r.body = NoBuild
               /\ \/ StatusOf(s) \in {"ok", "error"} /\ StatusOf(r) = "pending"
                  \/ StatusOf(s) = StatusOf(r)
               /\ PlaceOf(r) = "primary" /\ r.pc = "active" =>
                    StatusOf(s) = answer /\ StatusOf(r) = "pending"
               /\ PlaceOf(r) = "primary" /\ r.pc = "fallback" => StatusOf(s) = StatusOf(r)
               /\ PlaceOf(r) = "secondary" /\ r.pc = "active" => StatusOf(s) = StatusOf(r)
               /\ PlaceOf(r) = "secondary" /\ r.pc = "fallback" =>
                    StatusOf(s) \in {"ok", "error"} /\ StatusOf(r) = "pending"
<1> DEFINE r == call[c]
           s == Deleted(c, answer)
<1>1. CASE r.pc = "active"
  <2>1. s = [r EXCEPT !.status = answer, !.pc = IF r.fallback = "nil" THEN "done" ELSE "fallback"]
    BY <1>1 DEF Deleted
  <2>2. /\ s \in CallState /\ SameCall(r, s) /\ s.body = NoBuild /\ r.body = NoBuild
        /\ s.status = answer /\ r.status = "pending"
        /\ s.pc = IF r.fallback = "nil" THEN "done" ELSE "fallback"
    BY <1>1, <2>1 DEF CallState, SameCall, CallOK
  <2>3. r.path.driver # "nil"
    BY DEF CallState, StoragePath, Drivers
  <2> QED BY <1>1, <2>2, <2>3 DEF StatusOf, PlaceOf, SameCall, CallState
<1>2. CASE r.pc = "fallback"
  <2>1. s = [r EXCEPT !.pc = "done"]
    BY <1>2 DEF Deleted
  <2>2. /\ s \in CallState /\ SameCall(r, s) /\ s.body = NoBuild /\ r.body = NoBuild
        /\ s.status = r.status /\ r.status \in {"ok", "error"} /\ s.pc = "done"
    BY <1>2, <2>1 DEF CallState, SameCall, CallOK
  <2>3. StatusOf(s) = r.status
    BY <2>2 DEF StatusOf
  <2>4. StatusOf(r) = IF PlaceOf(r) = "primary" THEN r.status ELSE "pending"
    BY <1>2 DEF StatusOf
  <2> QED BY <1>2, <2>2, <2>3, <2>4
<1> QED BY <1>1, <1>2

(* A deletion takes effect where the path is kept, is skipped on a driver  *)
(* the manager does not know, and is nothing new on the other driver.      *)
LEMMA DeleteArtifactRefines ==
    ASSUME StorageInv, NEW c \in Callers, DeleteArtifact(c)
    PROVE  Store!Delete(c) \/ Store!DeleteSkipped(c) \/ UNCHANGED Store!storeVars
<1> DEFINE r == call[c]
<1>1. r \in CallState /\ CallOK(r) /\ r.op = "delete" /\ r.pc \in {"active", "fallback"}
  BY DEF StorageInv, Calling, DeleteArtifact, NoCall
<1>2. PICK answer \in {"ok", "error"} : call' = [call EXCEPT ![c] = Deleted(c, answer)]
  BY DEF DeleteArtifact, Answers
<1> DEFINE s == Deleted(c, answer)
<1>3. /\ s \in CallState /\ SameCall(r, s) /\ s.body = NoBuild /\ r.body = NoBuild
      /\ \/ StatusOf(s) \in {"ok", "error"} /\ StatusOf(r) = "pending"
         \/ StatusOf(s) = StatusOf(r)
      /\ PlaceOf(r) = "primary" /\ r.pc = "active" =>
           StatusOf(s) = answer /\ StatusOf(r) = "pending"
      /\ PlaceOf(r) = "primary" /\ r.pc = "fallback" => StatusOf(s) = StatusOf(r)
      /\ PlaceOf(r) = "secondary" /\ r.pc = "active" => StatusOf(s) = StatusOf(r)
      /\ PlaceOf(r) = "secondary" /\ r.pc = "fallback" =>
           StatusOf(s) \in {"ok", "error"} /\ StatusOf(r) = "pending"
  BY <1>1, DeletedCall
<1> HIDE DEF s
<1>4. /\ Store!Answer(c, StatusOf(s), s.body)
      /\ Requests[c].op = r.op /\ Requests[c].path = r.path
      /\ Requests[c].place = PlaceOf(r) /\ Requests[c].status = StatusOf(r)
      /\ StatusOf(s) = StatusOf(r) /\ s.body = r.body => Requests' = Requests
  BY <1>1, <1>2, <1>3, AnswerStep DEF StorageInv, s
<1>5. Store!Answer(c, StatusOf(s), NoBuild)
  BY <1>3, <1>4, Zenon
<1>6. CASE Asked(c) = r.path.driver
  <2>1. StoredNow' = [StoredNow EXCEPT ![r.path] = NoBuild]
    <3>1. r.path \in StoragePath
      BY <1>1 DEF CallState
    <3>2. Put(r.path.driver, r.path.version, NoBuild)
      BY <1>6, Zenon DEF DeleteArtifact
    <3> QED BY <3>1, <3>2, StoredStep DEF StorageInv
  <2>2. \/ PlaceOf(r) = "primary" /\ r.pc = "active"
        \/ PlaceOf(r) = "secondary" /\ r.pc = "fallback"
    <3>1. r.active # r.fallback
      BY <1>1 DEF CallOK
    <3> QED BY <1>1, <1>6, <3>1 DEF Asked, PlaceOf
  <2> QED BY <1>1, <1>3, <1>4, <1>5, <2>1, <2>2 DEF Store!Delete, Store!Pending
<1>7. CASE Asked(c) # r.path.driver
  <2>1. UNCHANGED StoredNow
    BY <1>7, StoredSame DEF DeleteArtifact
  <2>2. CASE StatusOf(s) = StatusOf(r)
    BY <1>3, <1>4, <2>1, <2>2 DEF Store!storeVars
  <2>3. CASE StatusOf(s) # StatusOf(r)
    <3>1. PlaceOf(r) # "primary"
      BY <1>1, <1>3, <1>7, <2>3 DEF Asked, PlaceOf
    <3> QED BY <1>1, <1>3, <1>4, <1>5, <2>1, <2>3, <3>1 DEF Store!DeleteSkipped, Store!Pending
  <2> QED BY <2>2, <2>3
<1> QED BY <1>6, <1>7

(* A failing driver ends the call in an error, or leaves a deletion as it  *)
(* is or skips it.                                                         *)
LEMMA DriverFailsRefines ==
    ASSUME StorageInv, NEW c \in Callers, DriverFails(c)
    PROVE  Store!Fail(c) \/ Store!DeleteSkipped(c) \/ UNCHANGED Store!storeVars
<1> DEFINE r == call[c]
<1>1. r \in CallState /\ CallOK(r) /\ r.pc \in {"active", "activeGet", "fallback", "fallbackGet"}
  BY DEF StorageInv, Calling, DriverFails, NoCall
<1>2. UNCHANGED StoredNow
  BY StoredSame DEF DriverFails
<1>3. CASE r.op = "delete"
  <2> DEFINE s == Deleted(c, "error")
  <2>1. call' = [call EXCEPT ![c] = s] /\ r.pc \in {"active", "fallback"}
    BY <1>1, <1>3 DEF DriverFails, CallOK
  <2>2. /\ s \in CallState /\ SameCall(r, s) /\ s.body = NoBuild /\ r.body = NoBuild
        /\ \/ StatusOf(s) \in {"ok", "error"} /\ StatusOf(r) = "pending"
           \/ StatusOf(s) = StatusOf(r)
        /\ PlaceOf(r) = "primary" /\ r.pc = "active" =>
             StatusOf(s) = "error" /\ StatusOf(r) = "pending"
        /\ PlaceOf(r) = "primary" /\ r.pc = "fallback" => StatusOf(s) = StatusOf(r)
    BY <1>1, <1>3, <2>1, DeletedCall
  <2> HIDE DEF s
  <2>3. /\ Store!Answer(c, StatusOf(s), s.body)
        /\ Requests[c].op = r.op
        /\ Requests[c].place = PlaceOf(r) /\ Requests[c].status = StatusOf(r)
        /\ StatusOf(s) = StatusOf(r) /\ s.body = r.body => Requests' = Requests
    BY <1>1, <2>1, <2>2, AnswerStep DEF StorageInv
  <2>4. Store!Answer(c, StatusOf(s), NoBuild)
    BY <2>2, <2>3, Zenon
  <2>5. CASE StatusOf(s) = StatusOf(r)
    BY <1>2, <2>2, <2>3, <2>5 DEF Store!storeVars
  <2>6. CASE StatusOf(s) # StatusOf(r) /\ PlaceOf(r) = "primary"
    BY <1>2, <1>3, <2>1, <2>2, <2>3, <2>4, <2>6 DEF Store!Fail
  <2>7. CASE StatusOf(s) # StatusOf(r) /\ PlaceOf(r) # "primary"
    BY <1>2, <1>3, <2>2, <2>3, <2>4, <2>7 DEF Store!DeleteSkipped, Store!Pending
  <2> QED BY <2>5, <2>6, <2>7
<1>4. CASE r.op # "delete"
  <2> DEFINE s == [r EXCEPT !.pc = "done", !.status = "error"]
  <2>1. call' = [call EXCEPT ![c] = s]
    BY <1>1, <1>4 DEF DriverFails
  <2>2. /\ s \in CallState /\ SameCall(r, s) /\ s.body = NoBuild /\ StatusOf(s) = "error"
        /\ r.op # "none"
    BY <1>1 DEF CallState, SameCall, StatusOf, CallOK
  <2> HIDE DEF s
  <2>3. Store!Answer(c, StatusOf(s), s.body) /\ Requests[c].op = r.op
    BY <1>1, <2>1, <2>2, AnswerStep DEF StorageInv
  <2>4. Store!Answer(c, "error", NoBuild)
    BY <2>2, <2>3, Zenon
  <2> QED BY <1>2, <2>2, <2>3, <2>4 DEF Store!Fail
<1> QED BY <1>3, <1>4

(* So every step of a call is one of the store, or nothing new.            *)
LEMMA CallStepRefines ==
    ASSUME StorageInv, NEW c \in Callers, CallStep(c)
    PROVE  \/ Store!Store(c) \/ Store!Open(c) \/ Store!OpenUnknown(c) \/ Store!Delete(c)
           \/ Store!DeleteSkipped(c) \/ Store!Fail(c) \/ UNCHANGED Store!storeVars
BY StoreArtifactRefines, OpenArtifactRefines, OpenGetRefines, DeleteArtifactRefines,
   DriverFailsRefines, Zenon DEF CallStep

(* A call of the manager begins a call of the store.                       *)
LEMMA BeginRefines ==
    ASSUME StorageInv, NEW c \in Callers, NEW op \in {"store", "open", "delete"},
           NEW p \in StoragePath, NEW x \in Builds \cup {NoBuild},
           op = "store" => p.driver = Active, Begin(c, op, p, x)
    PROVE  Store!Begin(c)
<1> DEFINE s == [op |-> op, path |-> p, data |-> x, active |-> Active,
                 fallback |-> Fallback, pc |-> "active", status |-> "pending",
                 body |-> NoBuild]
<1>1. call' = [call EXCEPT ![c] = s] /\ call[c].pc = "idle" /\ UNCHANGED objects
  BY DEF Begin
<1>2. call[c] = NoCall
  BY <1>1 DEF StorageInv, Calling, CallState
<1>3. RequestOf(s) = [op |-> op, path |-> p, data |-> x, place |-> PlaceOf(s),
                      status |-> "pending", body |-> NoBuild]
  BY DEF RequestOf, StatusOf
<1>4. PlaceOf(s) \in Store!Places /\ (op = "store" => PlaceOf(s) = "primary")
  BY DEF PlaceOf, Store!Places
<1> HIDE DEF s
<1>5. Requests' = [Requests EXCEPT ![c] = RequestOf(s)] /\ Requests[c] = RequestOf(NoCall)
  BY <1>1, <1>2, RequestsStep DEF StorageInv
<1>6. Requests'[c] = RequestOf(s)
  BY <1>5 DEF Requests
<1>7. RequestOf(s) \in Store!Calls
  BY <1>3, <1>4 DEF Store!Calls
<1>8. Requests[c].op = "none"
  BY <1>5 DEF RequestOf, NoCall
<1>9. RequestOf(s).op = op /\ RequestOf(s).place = PlaceOf(s)
  BY <1>3
<1>10. Requests' = [Requests EXCEPT ![c] = Requests'[c]]
  BY <1>5, <1>6, Zenon
<1>11. UNCHANGED StoredNow
  BY <1>1, StoredSame
<1> QED BY <1>4, <1>6, <1>7, <1>8, <1>9, <1>10, <1>11 DEF Store!Begin

(* An answered call returns.                                               *)
LEMMA ReturnRefines ==
    ASSUME StorageInv, NEW c \in Callers, Return(c)
    PROVE  Store!Return(c)
<1> DEFINE r == call[c]
<1>1. r \in CallState /\ CallOK(r) /\ r.pc = "done"
  BY DEF StorageInv, Calling, Return, NoCall
<1>2. call' = [call EXCEPT ![c] = NoCall] /\ UNCHANGED StoredNow
  BY StoredSame DEF Return
<1>3. Requests' = [Requests EXCEPT ![c] = RequestOf(NoCall)] /\ Requests[c] = RequestOf(r)
  BY <1>2, RequestsStep DEF StorageInv
<1>4. Requests[c].status # "pending"
  BY <1>1, <1>3, RequestOfCall DEF CallOK, StatusOf
<1>5. RequestOf(NoCall) = Store!Free
  BY DEF RequestOf, NoCall, Store!Free
<1> QED BY <1>2, <1>3, <1>4, <1>5 DEF Store!Return

(* A restart forgets every call and keeps what is stored.                  *)
LEMMA RestartRefines == ASSUME Restart PROVE Store!Restart
<1>1. RequestOf(NoCall) = Store!Free
  BY DEF RequestOf, NoCall, Store!Free
<1> QED BY <1>1, StoredSame DEF Restart, Store!Restart, Requests
----------------------------------------------------------------------------
(* StorageInv after a step of one call.                                    *)
LEMMA CallInv ==
    ASSUME StorageInv, NEW c \in Callers, NEW s,
           s = NoCall \/ (s \in CallState /\ CallOK(s)),
           call' = [call EXCEPT ![c] = s],
           objects' \in [Drivers -> [Versions -> Builds \cup {NoBuild}]],
           UNCHANGED <<settings, manager, phase, save>>
    PROVE  StorageInv'
<1>1. StorageTypeOK'
  BY DEF StorageInv, StorageTypeOK
<1>2. ASSUME NEW d \in Callers PROVE call'[d] = NoCall \/ (call'[d] \in CallState /\ CallOK(call'[d]))
  BY DEF StorageInv, StorageTypeOK, Calling
<1> QED BY <1>1, <1>2 DEF StorageInv, Calling

(* Every call starts as CallOK says: the two drivers of a call differ.     *)
LEMMA BeginInv ==
    ASSUME StorageInv, NEW c \in Callers, NEW op \in {"store", "open", "delete"},
           NEW p \in StoragePath, NEW x \in Builds \cup {NoBuild},
           op = "store" => p.driver = Active, Begin(c, op, p, x)
    PROVE  StorageInv'
<1> DEFINE s == [op |-> op, path |-> p, data |-> x, active |-> Active,
                 fallback |-> Fallback, pc |-> "active", status |-> "pending",
                 body |-> NoBuild]
<1>1. Active \in Drivers /\ Fallback \in Drivers \cup {"nil"} /\ Active # Fallback
  BY DEF Active, Fallback, Drivers
<1>2. s \in CallState /\ CallOK(s)
  BY <1>1 DEF CallState, CallOK
<1>3. objects' \in [Drivers -> [Versions -> Builds \cup {NoBuild}]]
  BY DEF Begin, StorageInv, StorageTypeOK
<1> QED BY <1>2, <1>3, CallInv DEF Begin

(* Every step of a call keeps StorageInv.                                  *)
LEMMA CallStepInv ==
    ASSUME StorageInv, NEW c \in Callers, CallStep(c) \/ Return(c)
    PROVE  StorageInv'
<1> DEFINE r == call[c]
<1>1. r \in CallState /\ CallOK(r)
  BY DEF StorageInv, Calling, CallStep, StoreArtifact, OpenArtifact, OpenGet, DeleteArtifact,
         DriverFails, Return, NoCall
<1>2. r.path \in StoragePath /\ r.path.version \in Versions /\ r.path.driver \in Drivers
  BY <1>1 DEF CallState, StoragePath
<1>3. objects \in [Drivers -> [Versions -> Builds \cup {NoBuild}]]
  BY DEF StorageInv, StorageTypeOK
<1>4. Found(c) \in Builds \cup {NoBuild}
  BY <1>2, <1>3 DEF Found
<1>5. CASE StoreArtifact(c)
  <2>1. PICK answer \in {"ok", "error"} :
           call' = [call EXCEPT ![c] = [r EXCEPT !.pc = "done", !.status = answer]]
    BY <1>5 DEF StoreArtifact, Answers, StorageInv, StorageTypeOK
  <2> DEFINE s == [r EXCEPT !.pc = "done", !.status = answer]
  <2>2. s \in CallState /\ CallOK(s)
    BY <1>1, <1>5 DEF StoreArtifact, CallState, CallOK
  <2>3. objects' \in [Drivers -> [Versions -> Builds \cup {NoBuild}]]
    BY <1>1, <1>2, <1>3, <1>5 DEF StoreArtifact, Put, CallState
  <2> QED BY <1>5, <2>1, <2>2, <2>3, CallInv DEF StoreArtifact
<1>6. CASE OpenArtifact(c)
  <2> DEFINE s1 == [r EXCEPT !.pc = "fallback"]
             s2 == [r EXCEPT !.pc = "done", !.status = "notfound"]
             s3 == [r EXCEPT !.pc = "done", !.status = "ok", !.body = Found(c)]
             s4 == [r EXCEPT !.pc = IF r.pc = "active" THEN "activeGet" ELSE "fallbackGet"]
  <2>1. r.op = "open" /\ r.pc \in {"active", "fallback"}
        /\ UNCHANGED <<settings, manager, phase, objects, save>>
    BY <1>6 DEF OpenArtifact
  <2>2. CASE Found(c) = NoBuild /\ r.pc = "active" /\ r.fallback # "nil"
    <3>1. call' = [call EXCEPT ![c] = s1]
      BY <1>6, <2>2 DEF OpenArtifact
    <3>2. s1 \in CallState /\ CallOK(s1)
      BY <1>1, <2>1, <2>2 DEF CallState, CallOK
    <3> QED BY <1>3, <2>1, <3>1, <3>2, CallInv
  <2>3. CASE Found(c) = NoBuild /\ ~(r.pc = "active" /\ r.fallback # "nil")
    <3>1. call' = [call EXCEPT ![c] = s2]
      BY <1>6, <2>3 DEF OpenArtifact
    <3>2. s2 \in CallState /\ CallOK(s2)
      BY <1>1, <2>1, <2>3 DEF CallState, CallOK
    <3> QED BY <1>3, <2>1, <3>1, <3>2, CallInv
  <2>4. CASE Found(c) # NoBuild /\ Asked(c) = "filesystem"
    <3>1. call' = [call EXCEPT ![c] = s3]
      BY <1>6, <2>4 DEF OpenArtifact
    <3>2. s3 \in CallState /\ CallOK(s3)
      BY <1>1, <1>4, <2>1, <2>4 DEF CallState, CallOK
    <3> QED BY <1>3, <2>1, <3>1, <3>2, CallInv
  <2>5. CASE Found(c) # NoBuild /\ Asked(c) # "filesystem"
    <3>1. call' = [call EXCEPT ![c] = s4]
      BY <1>6, <2>5 DEF OpenArtifact
    <3>2. Asked(c) = r.path.driver
      BY <2>5 DEF Found
    <3>3. s4 \in CallState /\ CallOK(s4)
      BY <1>1, <2>1, <2>5, <3>2 DEF CallState, CallOK, Asked
    <3> QED BY <1>3, <2>1, <3>1, <3>3, CallInv
  <2> QED BY <2>2, <2>3, <2>4, <2>5
<1>7. CASE OpenGet(c)
  <2> DEFINE s == [r EXCEPT !.pc = "done", !.body = Found(c),
                            !.status = IF Found(c) = NoBuild THEN "error" ELSE "ok"]
  <2>1. call' = [call EXCEPT ![c] = s]
    BY <1>7 DEF OpenGet
  <2>2. s \in CallState /\ CallOK(s)
    BY <1>1, <1>4, <1>7 DEF OpenGet, CallState, CallOK
  <2> QED BY <1>3, <1>7, <2>1, <2>2, CallInv DEF OpenGet
<1>8. ASSUME NEW answer \in {"ok", "error"}, r.op = "delete", r.pc \in {"active", "fallback"}
      PROVE  Deleted(c, answer) \in CallState /\ CallOK(Deleted(c, answer))
  BY <1>1, <1>8 DEF Deleted, CallState, CallOK
<1>9. CASE DeleteArtifact(c)
  <2>1. PICK answer \in {"ok", "error"} : call' = [call EXCEPT ![c] = Deleted(c, answer)]
    BY <1>9 DEF DeleteArtifact, Answers
  <2>2. objects' \in [Drivers -> [Versions -> Builds \cup {NoBuild}]]
    BY <1>2, <1>3, <1>9 DEF DeleteArtifact, Put
  <2> QED BY <1>8, <1>9, <2>1, <2>2, CallInv DEF DeleteArtifact
<1>10. CASE DriverFails(c)
  <2>1. CASE r.op = "delete"
    <3>1. call' = [call EXCEPT ![c] = Deleted(c, "error")] /\ r.pc \in {"active", "fallback"}
      BY <1>1, <1>10, <2>1 DEF DriverFails, CallOK
    <3> QED BY <1>3, <1>8, <1>10, <2>1, <3>1, CallInv DEF DriverFails
  <2>2. CASE r.op # "delete"
    <3> DEFINE s == [r EXCEPT !.pc = "done", !.status = "error"]
    <3>1. call' = [call EXCEPT ![c] = s]
      BY <1>10, <2>2 DEF DriverFails
    <3>2. s \in CallState /\ CallOK(s)
      BY <1>1 DEF CallState, CallOK
    <3> QED BY <1>3, <1>10, <3>1, <3>2, CallInv DEF DriverFails
  <2> QED BY <2>1, <2>2
<1>11. CASE Return(c)
  BY <1>3, <1>11, CallInv DEF Return
<1> QED BY <1>5, <1>6, <1>7, <1>9, <1>10, <1>11 DEF CallStep

(* Saving and reloading the settings touches neither calls nor objects.    *)
LEMMA SaveStepInv ==
    ASSUME StorageInv,
           \/ \E a \in Saves, bucket \in BOOLEAN : SaveBucket(a, bucket)
           \/ \E a \in Reloaders : SaveStep(a)
    PROVE  StorageInv' /\ UNCHANGED <<call, objects>>
<1>1. ASSUME NEW a \in Saves, NEW bucket \in BOOLEAN, SaveBucket(a, bucket)
      PROVE  StorageTypeOK' /\ UNCHANGED <<call, objects>>
  BY <1>1 DEF SaveBucket, StorageInv, StorageTypeOK, SaveState
<1>2. ASSUME NEW a \in Reloaders, SaveBackend(a)
      PROVE  StorageTypeOK' /\ UNCHANGED <<call, objects>>
  BY <1>2 DEF SaveBackend, StorageInv, StorageTypeOK, SaveState
<1>3. ASSUME NEW a \in Reloaders, ReloadStorage(a)
      PROVE  StorageTypeOK' /\ UNCHANGED <<call, objects>>
  BY <1>3 DEF ReloadStorage, StorageInv, StorageTypeOK, SaveState
<1>4. ASSUME NEW a \in Reloaders, SetS3Storage(a)
      PROVE  StorageTypeOK' /\ UNCHANGED <<call, objects>>
  BY <1>4 DEF SetS3Storage, StorageInv, StorageTypeOK, SaveState
<1>5. ASSUME NEW a \in Reloaders, SetActiveDriver(a)
      PROVE  StorageTypeOK' /\ UNCHANGED <<call, objects>>
  BY <1>5 DEF SetActiveDriver, StorageInv, StorageTypeOK, SaveState, Drivers
<1>6. StorageTypeOK' /\ UNCHANGED <<call, objects>>
  BY <1>1, <1>2, <1>3, <1>4, <1>5 DEF SaveStep
<1> QED BY <1>6 DEF StorageInv, Calling

(* A restart starts without calls.                                         *)
LEMMA RestartInv == ASSUME StorageInv, Restart PROVE StorageInv'
BY DEF StorageInv, StorageTypeOK, Restart, NewManager, Starting, Drivers, SaveState, Reloaders

(* The manager starts with two empty drivers.                              *)
LEMMA ManagerInitInv == ASSUME ManagerInit PROVE StorageInv /\ Store!Init
<1>1. StorageInv
  BY DEF ManagerInit, StorageInv, StorageTypeOK, NewManager, Starting, Drivers, SaveState, Reloaders
<1>2. StoredNow = [p \in StoragePath |-> NoBuild]
  BY DEF ManagerInit, StoredNow, StoragePath
<1>3. RequestOf(NoCall) = Store!Free
  BY DEF RequestOf, NoCall, Store!Free
<1> QED BY <1>1, <1>2, <1>3 DEF Store!Init, ManagerInit, Requests

(* Every step of the manager keeps StorageInv and is a step of the store.  *)
LEMMA ManagerStepRefines ==
    ASSUME StorageInv, [ManagerNext]_managerVars
    PROVE  StorageInv' /\ [Store!Next]_(Store!storeVars)
<1>1. ASSUME NEW c \in Callers, NEW v \in Versions, NEW x \in Builds, BeginStore(c, v, x)
      PROVE  StorageInv' /\ Store!Begin(c)
  <2>1. Active \in Drivers
    BY DEF Active, Drivers
  <2>2. [driver |-> Active, version |-> v] \in StoragePath
    BY <2>1 DEF StoragePath
  <2> QED BY <1>1, <2>2, BeginInv, BeginRefines DEF BeginStore
<1>2. ASSUME NEW c \in Callers, NEW op \in {"open", "delete"}, NEW p \in StoragePath,
             NEW x \in Builds \cup {NoBuild}, Begin(c, op, p, x)
      PROVE  StorageInv' /\ Store!Begin(c)
  BY <1>2, BeginInv, BeginRefines
<1>3. ASSUME NEW c \in Callers, CallStep(c)
      PROVE  StorageInv' /\ [Store!Next]_(Store!storeVars)
  <2>1. StorageInv'
    BY <1>3, CallStepInv
  <2>2. [Store!Next]_(Store!storeVars)
    BY <1>3, CallStepRefines, Zenon DEF Store!Next
  <2> QED BY <2>1, <2>2
<1>4. ASSUME NEW c \in Callers, Return(c) PROVE StorageInv' /\ Store!Return(c)
  BY <1>4, CallStepInv, ReturnRefines
<1>5. ASSUME \/ \E a \in Saves, bucket \in BOOLEAN : SaveBucket(a, bucket)
             \/ \E a \in Reloaders : SaveStep(a)
      PROVE  StorageInv' /\ UNCHANGED Store!storeVars
  BY <1>5, SaveStepInv DEF Store!storeVars, StoredNow, Requests
<1>6. ASSUME Restart PROVE StorageInv' /\ Store!Restart
  BY <1>6, RestartInv, RestartRefines
<1>7. ASSUME UNCHANGED managerVars PROVE StorageInv' /\ UNCHANGED Store!storeVars
  BY <1>7 DEF managerVars, StorageInv, StorageTypeOK, Calling, Store!storeVars, StoredNow, Requests
<1> QED BY <1>1, <1>2, <1>3, <1>4, <1>5, <1>6, <1>7, Zenon DEF ManagerNext, Store!Next

(* For any number of callers and of settings requests the storage manager  *)
(* with its two drivers (manager.go) implements ArtifactStore: a call acts *)
(* on one map from paths to contents, at one moment, whatever saves,       *)
(* failures and restarts come between its steps.                           *)
THEOREM ManagerImplements == ManagerSpec => ImplementsStore
<1>1. ManagerInit => StorageInv /\ Store!Init
  BY ManagerInitInv
<1>2. StorageInv /\ [ManagerNext]_managerVars => StorageInv' /\ [Store!Next]_(Store!storeVars)
  BY ManagerStepRefines
<1> QED BY <1>1, <1>2, PTL DEF ManagerSpec, ImplementsStore, Store!Spec
----------------------------------------------------------------------------
(* The catalogue over the manager.                                         *)
Latest == BuildDate[upstream]

(* A cleanup may be deleting the artifact, or have deleted it.  Once so, a *)
(* version stays so.                                                       *)
Doomed(v) == Overdue(v) \/ v \in revived

(* Rows come from builds of their date that upstream had.                  *)
RowsOK ==
    \A v \in Versions :
        Exists(rows[v]) => rows[v].sha256 <= upstream /\ BuildDate[rows[v].sha256] = v

(* An object is a build of its date; the one a row names is not older than *)
(* its digest, and is there unless the version is doomed.                  *)
StoredOK ==
    /\ \A p \in StoragePath : StoredNow[p] # NoBuild => BuildDate[StoredNow[p]] = p.version
    /\ \A v \in Versions : IsLive(rows[v]) =>
         IF StoredNow[PathOf(v)] = NoBuild THEN Doomed(v)
         ELSE StoredNow[PathOf(v)] >= rows[v].sha256

SyncOK ==
    LET q == Requests["sync"]
    IN  q.op # "none" =>
          /\ q.op = "store" /\ q.data = upstream
          /\ q.path \in StoragePath /\ q.path.version = Latest
          /\ q.status = "ok" => \/ StoredNow[q.path] = upstream
                                \/ StoredNow[q.path] = NoBuild /\ Doomed(Latest)

(* What a cleanup may delete: the path of the row, unless the version came *)
(* back and was stored elsewhere.                                          *)
ToDelete(p) ==
    /\ p \in StoragePath
    /\ Doomed(p.version)
    /\ p.version \in revived \/ p = PathOf(p.version)

TodoOK == \A p \in todo : ToDelete(p)

CleanupOK ==
    LET q == Requests["cleanup"]
    IN  q.op # "none" =>
          /\ q.op = "delete" /\ ToDelete(q.path)
          /\ q.status = "ok" /\ q.place = "primary" =>
               q.path.version \in revived \/ StoredNow[q.path] = NoBuild

DownloadOK ==
    LET q == Requests["download"]
    IN  q.op # "none" =>
          /\ q.op = "open" /\ q.data \in Builds /\ q.data <= upstream
          /\ q.path \in StoragePath
          /\ IF StoredNow[q.path] = NoBuild THEN Doomed(q.path.version)
             ELSE StoredNow[q.path] >= q.data
          /\ q.status = "notfound" /\ q.place # "unknown" => Doomed(q.path.version)
          /\ q.status = "ok" => BuildDate[q.body] = q.path.version /\ q.body >= q.data

PlacementInv ==
    /\ StorageInv /\ PlacementTypeOK /\ Scheduled(rows)
    /\ RowsOK /\ StoredOK /\ SyncOK /\ TodoOK /\ CleanupOK /\ DownloadOK
----------------------------------------------------------------------------
(* The three callers.                                                      *)
LEMMA TheCallers ==
    /\ "sync" \in Callers /\ "cleanup" \in Callers /\ "download" \in Callers
    /\ \A c \in Callers : c \in {"sync", "cleanup", "download"}
  BY CallersAssumption

(* The path of a row is a storage path of its version.                     *)
LEMMA PathOfRow ==
    ASSUME PlacementInv, NEW v \in Versions
    PROVE  PathOf(v) \in StoragePath /\ PathOf(v).version = v
  BY DEF PlacementInv, PlacementTypeOK, PathOf, StoragePath

(* Renewed makes a version that is doomed one that came back.              *)
LEMMA RenewedVersions ==
    ASSUME PlacementInv, NEW v \in Versions, Renewed(v)
    PROVE  /\ revived' \in SUBSET Versions /\ revived \subseteq revived'
           /\ Doomed(v) => v \in revived'
  BY DEF PlacementInv, PlacementTypeOK, Renewed, Doomed

(* What a step keeps that neither stores nor deletes nor publishes: the    *)
(* rows keep their digests, none comes to life, none is saved from doom.   *)
LEMMA Kept ==
    ASSUME PlacementInv, UNCHANGED <<location, StoredNow>>,
           upstream' \in Builds, upstream' >= upstream,
           todo' \subseteq todo \/ \A p \in todo' : ToDelete(p)',
           revived \subseteq revived',
           \A v \in Versions : /\ rows'[v].sha256 = rows[v].sha256
                               /\ IsLive(rows'[v]) => IsLive(rows[v])
                               /\ Doomed(v) => Doomed(v)'
    PROVE  /\ RowsOK' /\ StoredOK' /\ TodoOK'
           /\ Requests'["sync"].op = "none" => SyncOK'
           /\ Requests'["sync"] = Requests["sync"] /\ UNCHANGED upstream => SyncOK'
           /\ Requests'["cleanup"].op = "none" => CleanupOK'
           /\ Requests'["cleanup"] = Requests["cleanup"] => CleanupOK'
           /\ Requests'["download"].op = "none" => DownloadOK'
           /\ Requests'["download"] = Requests["download"] => DownloadOK'
           /\ \A p \in StoragePath : ToDelete(p) => ToDelete(p)'
<1>1. upstream \in Nat /\ upstream' \in Nat /\ \A x \in Builds \cup {NoBuild} : x \in Nat
  BY MaxBuildAssumption DEF PlacementInv, PlacementTypeOK, Builds, NoBuild
<1>2. RowsOK'
  <2>1. rows \in Table
    BY DEF PlacementInv, PlacementTypeOK
  <2>2. \A v \in Versions : rows[v].sha256 \in Nat
    BY <1>1, <2>1 DEF Table, Row
  <2> QED BY <1>1, <2>2 DEF PlacementInv, RowsOK, Exists
<1>3. StoredOK'
  <2>1. \A p \in StoragePath : StoredNow'[p] # NoBuild => BuildDate[StoredNow'[p]] = p.version
    BY DEF PlacementInv, StoredOK
  <2>2. \A v \in Versions : PathOf(v)' = PathOf(v)
    BY DEF PathOf
  <2> QED BY <2>1, <2>2 DEF PlacementInv, StoredOK
<1>4. ASSUME NEW p \in StoragePath, ToDelete(p) PROVE ToDelete(p)'
  <2>1. p.version \in Versions /\ PathOf(p.version)' = PathOf(p.version)
    BY <1>4 DEF StoragePath, PathOf
  <2> QED BY <1>4, <2>1 DEF ToDelete
<1>5. TodoOK'
  <2>1. CASE \A p \in todo' : ToDelete(p)'
    BY <2>1 DEF TodoOK
  <2>2. CASE todo' \subseteq todo
    BY <1>4, <2>2 DEF PlacementInv, PlacementTypeOK, TodoOK
  <2> QED BY <2>1, <2>2
<1>6. /\ Requests'["sync"].op = "none" => SyncOK'
      /\ Requests'["cleanup"].op = "none" => CleanupOK'
      /\ Requests'["download"].op = "none" => DownloadOK'
  BY DEF SyncOK, CleanupOK, DownloadOK
<1>7. ASSUME Requests'["sync"] = Requests["sync"], UNCHANGED upstream PROVE SyncOK'
  <2>1. Latest' = Latest /\ (Requests["sync"].op # "none" => Latest \in Versions)
    BY <1>7 DEF Latest, PlacementInv, SyncOK, StoragePath
  <2> QED BY <1>7, <2>1 DEF PlacementInv, SyncOK
<1>8. ASSUME Requests'["cleanup"] = Requests["cleanup"] PROVE CleanupOK'
  <2> DEFINE q == Requests["cleanup"]
  <2>1. q.op # "none" => ToDelete(q.path) /\ q.path \in StoragePath
    BY DEF PlacementInv, CleanupOK, ToDelete
  <2>2. q.op # "none" => ToDelete(q.path)'
    <3> SUFFICES ASSUME q.op # "none" PROVE ToDelete(q.path)'
      OBVIOUS
    <3>1. PICK p \in StoragePath : p = q.path
      BY <2>1
    <3>2. ToDelete(p)'
      BY <1>4, <2>1, <3>1
    <3>3. UNCHANGED q
      BY <1>8
    <3> QED BY <3>1, <3>2, <3>3 DEF ToDelete, Doomed, Overdue, PathOf
  <2> QED BY <1>8, <2>2 DEF PlacementInv, CleanupOK
<1>9. ASSUME Requests'["download"] = Requests["download"] PROVE DownloadOK'
  <2> DEFINE q == Requests["download"]
  <2>1. q.op # "none" => q.path.version \in Versions /\ q.data \in Nat
    BY <1>1 DEF PlacementInv, DownloadOK, StoragePath
  <2>2. q.op # "none" /\ Doomed(q.path.version) => Doomed(q.path.version)'
    <3> SUFFICES ASSUME q.op # "none", Doomed(q.path.version)
                 PROVE  Doomed(q.path.version)'
      OBVIOUS
    <3>1. PICK v \in Versions : v = q.path.version
      BY <2>1
    <3>2. Doomed(v)'
      BY <3>1 DEF Doomed, Overdue
    <3>3. Requests'["download"].path.version = v
      BY <1>9, <3>1
    <3> QED BY <3>2, <3>3 DEF Doomed, Overdue
  <2> QED BY <1>1, <1>9, <2>1, <2>2 DEF PlacementInv, DownloadOK
<1> QED BY <1>2, <1>3, <1>4, <1>5, <1>6, <1>7, <1>8, <1>9

(* A step that changes the request of one caller leaves the others.        *)
LEMMA OtherRequests ==
    ASSUME NEW c \in Callers, NEW status, NEW body, Store!Answer(c, status, body)
    PROVE  /\ \A d \in Callers \ {c} : Requests'[d] = Requests[d]
           /\ Requests'[c].op = Requests[c].op /\ Requests'[c].path = Requests[c].path
           /\ Requests'[c].data = Requests[c].data /\ Requests'[c].place = Requests[c].place
           /\ Requests'[c].status = status /\ Requests'[c].body = body
<1> DEFINE q == [op |-> Requests[c].op, path |-> Requests[c].path, data |-> Requests[c].data,
                 place |-> Requests[c].place, status |-> status, body |-> body]
<1>1. Requests' = [Requests EXCEPT ![c] = q]
  BY Zenon DEF Store!Answer
<1>2. DOMAIN Requests = Callers
  BY DEF Requests
<1>3. Requests'[c] = q /\ \A d \in Callers \ {c} : Requests'[d] = Requests[d]
  <2> HIDE DEF q
  <2> QED BY <1>1, <1>2
<1> QED BY <1>3

(* Every step of a call keeps the invariant, as a step of the store.       *)
LEMMA CallStepPlacement ==
    ASSUME PlacementInv, NEW c \in Callers, CallStep(c),
           UNCHANGED <<upstream, rows, location, todo, changes>>,
           IF c = "sync" THEN Renewed(call["sync"].path.version) ELSE UNCHANGED revived
    PROVE  PlacementInv' /\ ManagerNext
<1>1. /\ revived' \in SUBSET Versions /\ revived \subseteq revived'
      /\ c = "sync" =>
           /\ Requests["sync"].path \in StoragePath
           /\ Doomed(Requests["sync"].path.version) => Requests["sync"].path.version \in revived'
  <2>1. CASE c = "sync"
    <3> DEFINE r == call["sync"]
    <3>1. r \in CallState
      BY <2>1, TheCallers DEF PlacementInv, StorageInv, Calling, NoCall, CallStep,
            StoreArtifact, OpenArtifact, OpenGet, DeleteArtifact, DriverFails
    <3>2. Requests["sync"].path = r.path /\ r.path \in StoragePath
      BY <3>1, RequestOfCall, TheCallers DEF Requests, CallState
    <3>3. r.path.version \in Versions
      BY <3>2 DEF StoragePath
    <3> QED BY <2>1, <3>2, <3>3, RenewedVersions
  <2>2. CASE c # "sync"
    BY <2>2 DEF PlacementInv, PlacementTypeOK
  <2> QED BY <2>1, <2>2
<1>2. \A v \in Versions : Doomed(v) => Doomed(v)'
  BY <1>1 DEF Doomed, Overdue
<1>3. upstream' \in Builds /\ upstream' >= upstream /\ upstream \in Nat
  BY MaxBuildAssumption DEF PlacementInv, PlacementTypeOK, Builds
<1>4. StorageInv' /\ PlacementTypeOK' /\ Scheduled(rows)' /\ ManagerNext
  <2>1. StorageInv' /\ ManagerNext
    BY CallStepInv DEF PlacementInv, ManagerNext
  <2> QED BY <1>1, <2>1 DEF PlacementInv, PlacementTypeOK, StorageInv, Scheduled
<1>5. ASSUME UNCHANGED StoredNow,
             c # "sync" => Requests'["sync"] = Requests["sync"],
             c # "cleanup" => Requests'["cleanup"] = Requests["cleanup"],
             c # "download" => Requests'["download"] = Requests["download"]
      PROVE  /\ RowsOK' /\ StoredOK' /\ TodoOK'
             /\ c # "sync" => SyncOK'
             /\ c # "cleanup" => CleanupOK'
             /\ c # "download" => DownloadOK'
  BY <1>1, <1>2, <1>3, <1>5, Kept
<1>6. CASE UNCHANGED Store!storeVars
  BY <1>1, <1>2, <1>3, <1>4, <1>6, Kept DEF Store!storeVars, PlacementInv
<1>7. CASE Store!Store(c)
  <2>1. /\ Requests[c].op = "store"
        /\ StoredNow' = [StoredNow EXCEPT ![Requests[c].path] = Requests[c].data]
    BY <1>7 DEF Store!Store, Store!Pending
  <2>2. PICK status \in {"ok", "error"} : Store!Answer(c, status, NoBuild)
    BY <1>7 DEF Store!Store
  <2>3. c = "sync"
    BY <2>1, TheCallers DEF PlacementInv, CleanupOK, DownloadOK
  <2> DEFINE q == Requests["sync"]
  <2>4. q.data = upstream /\ q.path \in StoragePath /\ q.path.version = Latest /\ upstream \in Builds
    BY <2>1, <2>3 DEF PlacementInv, SyncOK, PlacementTypeOK
  <2>5. StoredNow' = [StoredNow EXCEPT ![q.path] = upstream]
    BY <2>1, <2>3, <2>4
  <2>6. \A p \in StoragePath : StoredNow'[p] = IF p = q.path THEN upstream ELSE StoredNow[p]
    BY <2>5 DEF StoredNow
  <2>7. upstream # NoBuild
    BY <2>4, MaxBuildAssumption DEF Builds, NoBuild
  <2>8. RowsOK'
    BY DEF PlacementInv, RowsOK
  <2>9. \A v \in Versions : PathOf(v) \in StoragePath /\ PathOf(v)' = PathOf(v)
    BY PathOfRow DEF PathOf
  <2>10. StoredOK'
    <3>1. \A p \in StoragePath : StoredNow'[p] # NoBuild => BuildDate[StoredNow'[p]] = p.version
      BY <2>4, <2>6 DEF PlacementInv, StoredOK, Latest
    <3>2. \A v \in Versions : IsLive(rows[v]) => rows[v].sha256 <= upstream
      BY DEF PlacementInv, RowsOK, IsLive
    <3> QED BY <1>2, <2>4, <2>6, <2>7, <2>9, <3>1, <3>2 DEF PlacementInv, StoredOK
  <2>11. SyncOK'
    BY <2>2, <2>3, <2>4, <2>6, OtherRequests, TheCallers DEF PlacementInv, SyncOK, Latest
  <2>12. ASSUME NEW p \in StoragePath, ToDelete(p) PROVE ToDelete(p)'
    <3>1. p.version \in Versions
      BY DEF StoragePath
    <3> QED BY <1>1, <1>2, <2>9, <2>12, <3>1 DEF ToDelete
  <2>13. TodoOK'
    BY <2>12 DEF PlacementInv, PlacementTypeOK, TodoOK
  <2>14. CleanupOK'
    <3> DEFINE k == Requests["cleanup"]
    <3>1. Requests'["cleanup"] = k
      BY <2>2, <2>3, OtherRequests, TheCallers
    <3> SUFFICES ASSUME k.op # "none" PROVE CleanupOK'
      BY <3>1 DEF CleanupOK
    <3>2. /\ k.op = "delete" /\ ToDelete(k.path) /\ k.path \in StoragePath
          /\ k.status = "ok" /\ k.place = "primary" =>
               k.path.version \in revived \/ StoredNow[k.path] = NoBuild
      BY DEF PlacementInv, CleanupOK, ToDelete
    <3>3. PICK p \in StoragePath : p = k.path
      BY <3>2
    <3>4. ToDelete(p)'
      BY <2>12, <3>2, <3>3
    <3>5. Requests'["cleanup"].path = p
      BY <3>1, <3>3
    <3>6. p = q.path => p.version \in revived'
      BY <1>1, <2>3, <3>2, <3>3 DEF ToDelete
    <3>7. StoredNow[p] = NoBuild => p.version \in revived' \/ StoredNow'[p] = NoBuild
      BY <2>6, <3>6
    <3>8. p.version \in revived => p.version \in revived'
      BY <1>1
    <3> QED BY <3>1, <3>2, <3>3, <3>4, <3>5, <3>7, <3>8
            DEF CleanupOK, ToDelete, Doomed, Overdue, PathOf
  <2>15. DownloadOK'
    <3>1. Requests'["download"] = Requests["download"]
      BY <2>2, <2>3, OtherRequests, TheCallers
    <3> DEFINE k == Requests["download"]
    <3> SUFFICES ASSUME k.op # "none" PROVE DownloadOK'
      BY <3>1 DEF DownloadOK
    <3>2. k.path \in StoragePath /\ k.path.version \in Versions
      BY DEF PlacementInv, DownloadOK, StoragePath
    <3>3. PICK v \in Versions : v = k.path.version
      BY <3>2
    <3>4. Requests'["download"].path.version = v /\ (Doomed(v) => Doomed(v)')
      BY <1>2, <3>1, <3>3
    <3> QED BY <2>4, <2>6, <2>7, <3>1, <3>2, <3>3, <3>4
            DEF PlacementInv, DownloadOK, Doomed, Overdue
  <2> QED BY <1>4, <2>8, <2>10, <2>11, <2>13, <2>14, <2>15 DEF PlacementInv
<1>8. CASE Store!Delete(c)
  <2>1. Requests[c].op = "delete" /\ StoredNow' = [StoredNow EXCEPT ![Requests[c].path] = NoBuild]
    BY <1>8 DEF Store!Delete, Store!Pending
  <2>2. PICK status \in {"ok", "error"} : Store!Answer(c, status, NoBuild)
    BY <1>8 DEF Store!Delete
  <2>3. c = "cleanup" /\ UNCHANGED revived
    BY <2>1, TheCallers DEF PlacementInv, SyncOK, DownloadOK
  <2> DEFINE q == Requests["cleanup"]
  <2>4. q.path \in StoragePath /\ ToDelete(q.path) /\ Doomed(q.path.version)
    BY <2>1, <2>3 DEF PlacementInv, CleanupOK, ToDelete
  <2>5. \A p \in StoragePath : StoredNow'[p] = IF p = q.path THEN NoBuild ELSE StoredNow[p]
    BY <2>1, <2>3 DEF StoredNow
  <2>6. RowsOK' /\ TodoOK'
    BY <2>3 DEF PlacementInv, RowsOK, TodoOK, ToDelete, Doomed, Overdue, PathOf
  <2>7. StoredOK'
    <3>1. \A v \in Versions : /\ PathOf(v) \in StoragePath /\ PathOf(v).version = v
                              /\ PathOf(v)' = PathOf(v) /\ Doomed(v)' = Doomed(v)
      BY <2>3, PathOfRow DEF PathOf, Doomed, Overdue
    <3>2. \A p \in StoragePath : StoredNow'[p] # NoBuild => BuildDate[StoredNow'[p]] = p.version
      BY <2>5 DEF PlacementInv, StoredOK
    <3> QED BY <2>4, <2>5, <3>1, <3>2 DEF PlacementInv, StoredOK
  <2>8. SyncOK'
    BY <2>2, <2>3, <2>4, <2>5, OtherRequests, TheCallers
    DEF PlacementInv, SyncOK, Latest, Doomed, Overdue
  <2>9. CleanupOK'
    BY <2>2, <2>3, <2>4, <2>5, OtherRequests, TheCallers
    DEF PlacementInv, CleanupOK, ToDelete, Doomed, Overdue, PathOf
  <2>10. DownloadOK'
    BY <2>2, <2>3, <2>4, <2>5, OtherRequests, TheCallers
    DEF PlacementInv, DownloadOK, Doomed, Overdue
  <2> QED BY <1>4, <2>6, <2>7, <2>8, <2>9, <2>10 DEF PlacementInv
<1>9. CASE Store!Open(c)
  <2>1. Requests[c].op = "open" /\ UNCHANGED StoredNow
    BY <1>9 DEF Store!Open, Store!Pending
  <2>2. c = "download" /\ UNCHANGED revived
    BY <2>1, TheCallers DEF PlacementInv, SyncOK, CleanupOK
  <2> DEFINE q == Requests["download"]
  <2>3. \E status, body : Store!Answer(c, status, body)
    BY <1>9 DEF Store!Open
  <2>4. RowsOK' /\ StoredOK' /\ TodoOK' /\ SyncOK' /\ CleanupOK'
    BY <1>5, <2>1, <2>2, <2>3, OtherRequests, TheCallers
  <2>5. CASE StoredNow[q.path] = NoBuild
    <3>1. Store!Answer(c, "notfound", NoBuild)
      BY <1>9, <2>2, <2>5 DEF Store!Open
    <3>2. DownloadOK'
      BY <2>1, <2>2, <2>5, <3>1, OtherRequests, TheCallers
      DEF PlacementInv, DownloadOK, Doomed, Overdue
    <3> QED BY <1>4, <2>4, <3>2 DEF PlacementInv
  <2>6. CASE StoredNow[q.path] # NoBuild
    <3>1. Store!Answer(c, "ok", StoredNow[q.path])
      BY <1>9, <2>2, <2>6 DEF Store!Open
    <3>2. q.path \in StoragePath /\ BuildDate[StoredNow[q.path]] = q.path.version
      BY <2>1, <2>2, <2>6 DEF PlacementInv, DownloadOK, StoredOK
    <3>3. DownloadOK'
      BY <2>1, <2>2, <2>6, <3>1, <3>2, OtherRequests, TheCallers
      DEF PlacementInv, DownloadOK, Doomed, Overdue
    <3> QED BY <1>4, <2>4, <3>3 DEF PlacementInv
  <2> QED BY <2>5, <2>6
<1>10. CASE Store!OpenUnknown(c) \/ Store!DeleteSkipped(c) \/ Store!Fail(c)
  <2>1. /\ UNCHANGED StoredNow
        /\ \E status \in {"notfound", "ok", "error"} :
              /\ Store!Answer(c, status, NoBuild)
              /\ status = "ok" => Requests[c].op = "delete" /\ Requests[c].place # "primary"
              /\ status = "notfound" => Requests[c].place = "unknown" /\ Requests[c].op = "open"
    BY <1>10 DEF Store!OpenUnknown, Store!DeleteSkipped, Store!Fail, Store!Pending
  <2>2. PICK status \in {"notfound", "ok", "error"} :
              /\ Store!Answer(c, status, NoBuild)
              /\ status = "ok" => Requests[c].op = "delete" /\ Requests[c].place # "primary"
              /\ status = "notfound" => Requests[c].place = "unknown" /\ Requests[c].op = "open"
    BY <2>1
  <2>3. /\ RowsOK' /\ StoredOK' /\ TodoOK'
        /\ c # "sync" => SyncOK'
        /\ c # "cleanup" => CleanupOK'
        /\ c # "download" => DownloadOK'
    BY <1>5, <2>1, <2>2, OtherRequests, TheCallers
  <2>4. c = "sync" => SyncOK'
    BY <2>1, <2>2, OtherRequests, TheCallers DEF PlacementInv, SyncOK, Latest
  <2>5. c = "cleanup" => CleanupOK'
    BY <2>1, <2>2, OtherRequests, TheCallers
    DEF PlacementInv, CleanupOK, ToDelete, Doomed, Overdue, PathOf
  <2>6. c = "download" => DownloadOK'
    BY <2>1, <2>2, OtherRequests, TheCallers DEF PlacementInv, DownloadOK, Doomed, Overdue
  <2> QED BY <1>4, <2>3, <2>4, <2>5, <2>6 DEF PlacementInv
<1> QED BY <1>6, <1>7, <1>8, <1>9, <1>10, CallStepRefines DEF PlacementInv

(* The request of a call that has just begun.                              *)
LEMMA BeginRequests ==
    ASSUME StorageInv, NEW c \in Callers, NEW op \in {"store", "open", "delete"},
           NEW p \in StoragePath, NEW x \in Builds \cup {NoBuild}, Begin(c, op, p, x)
    PROVE  /\ \A d \in Callers \ {c} : Requests'[d] = Requests[d]
           /\ Requests'[c].op = op /\ Requests'[c].path = p /\ Requests'[c].data = x
           /\ Requests'[c].status = "pending" /\ UNCHANGED StoredNow
<1> DEFINE s == [op |-> op, path |-> p, data |-> x, active |-> Active,
                 fallback |-> Fallback, pc |-> "active", status |-> "pending",
                 body |-> NoBuild]
<1>1. call' = [call EXCEPT ![c] = s] /\ UNCHANGED objects
  BY DEF Begin
<1>2. RequestOf(s) = [op |-> op, path |-> p, data |-> x, place |-> PlaceOf(s),
                      status |-> "pending", body |-> NoBuild]
  BY DEF RequestOf, StatusOf
<1> HIDE DEF s
<1>3. Requests' = [Requests EXCEPT ![c] = RequestOf(s)]
  BY <1>1, RequestsStep DEF StorageInv
<1>4. Requests'[c] = RequestOf(s) /\ \A d \in Callers \ {c} : Requests'[d] = Requests[d]
  BY <1>3 DEF Requests
<1> QED BY <1>1, <1>2, <1>4, StoredSame

(* The request of a call that returns says what the call said.             *)
LEMMA ReturnRequests ==
    ASSUME StorageInv, NEW c \in Callers, Return(c)
    PROVE  /\ \A d \in Callers \ {c} : Requests'[d] = Requests[d]
           /\ Requests'[c].op = "none" /\ UNCHANGED StoredNow
           /\ Requests[c].op = call[c].op /\ Requests[c].op # "none"
           /\ Requests[c].path = call[c].path /\ Requests[c].data = call[c].data
           /\ Requests[c].status = call[c].status
<1> DEFINE r == call[c]
<1>1. r \in CallState /\ r.pc = "done"
  BY DEF StorageInv, Calling, Return, NoCall
<1>2. Requests' = [Requests EXCEPT ![c] = RequestOf(NoCall)] /\ Requests[c] = RequestOf(r)
  BY RequestsStep DEF StorageInv, Return
<1>3. RequestOf(NoCall).op = "none"
  BY DEF RequestOf, NoCall
<1>4. r.op # "none" /\ StatusOf(r) = r.status
  BY <1>1 DEF CallState, StatusOf
<1>5. Requests'[c] = RequestOf(NoCall) /\ \A d \in Callers \ {c} : Requests'[d] = Requests[d]
  BY <1>2 DEF Requests
<1> QED BY <1>1, <1>2, <1>3, <1>4, <1>5, RequestOfCall, StoredSame DEF Return

(* A step of the catalogue, at which a call may end.                       *)
LEMMA CatalogStep ==
    ASSUME PlacementInv, StorageInv', UNCHANGED <<upstream, location, StoredNow>>,
           rows' \in Table, Scheduled(rows)', changes' \in 0..MaxChanges,
           todo' \in SUBSET StoragePath, todo' \subseteq todo \/ \A p \in todo' : ToDelete(p)',
           revived' \in SUBSET Versions, revived \subseteq revived',
           \A v \in Versions : /\ rows'[v].sha256 = rows[v].sha256
                               /\ IsLive(rows'[v]) => IsLive(rows[v])
                               /\ Doomed(v) => Doomed(v)',
           \A c \in Callers : Requests'[c] = Requests[c] \/ Requests'[c].op = "none"
    PROVE  PlacementInv'
<1>1. upstream' \in Builds /\ upstream' >= upstream
  BY MaxBuildAssumption DEF PlacementInv, PlacementTypeOK, Builds
<1>2. RowsOK' /\ StoredOK' /\ TodoOK' /\ SyncOK' /\ CleanupOK' /\ DownloadOK'
  BY <1>1, Kept, TheCallers
<1>3. PlacementTypeOK'
  BY DEF PlacementInv, PlacementTypeOK, StorageInv
<1> QED BY <1>2, <1>3 DEF PlacementInv

(* A step that leaves the catalogue alone.                                 *)
LEMMA ManagerOnly ==
    ASSUME PlacementInv, StorageInv', UNCHANGED <<catalogVars, StoredNow>>,
           \A c \in Callers : Requests'[c] = Requests[c] \/ Requests'[c].op = "none"
    PROVE  PlacementInv'
<1>1. UNCHANGED <<upstream, rows, location, todo, revived, changes>>
  BY DEF catalogVars
<1>2. \A v \in Versions : Doomed(v) => Doomed(v)'
  BY <1>1 DEF Doomed, Overdue
<1> QED BY <1>1, <1>2, CatalogStep DEF PlacementInv, PlacementTypeOK, Scheduled

(* A sync starts with a build that is not older than any row.              *)
LEMMA SyncStorePlacement ==
    ASSUME PlacementInv, NEW build \in Builds, SyncStore(build)
    PROVE  PlacementInv' /\ ManagerNext
<1> DEFINE v == BuildDate[build]
           p == [driver |-> Active, version |-> v]
<1>1. /\ build >= upstream /\ upstream' = build
      /\ UNCHANGED <<rows, location, todo, revived>> /\ BeginStore("sync", v, build)
  BY DEF SyncStore
<1>2. v \in Versions /\ Latest' = v
  BY <1>1 DEF Latest, Versions
<1>3. p \in StoragePath
  BY <1>2 DEF StoragePath, Active, Drivers
<1>4. Begin("sync", "store", p, build)
  BY <1>1 DEF BeginStore
<1>5. StorageInv'
  BY <1>3, <1>4, BeginInv, TheCallers DEF PlacementInv
<1>6. /\ \A d \in Callers \ {"sync"} : Requests'[d] = Requests[d]
      /\ Requests'["sync"].op = "store" /\ Requests'["sync"].path = p
      /\ Requests'["sync"].data = build
      /\ Requests'["sync"].status = "pending" /\ UNCHANGED StoredNow
  BY <1>3, <1>4, BeginRequests, TheCallers DEF PlacementInv
<1>7. PlacementTypeOK' /\ Scheduled(rows)'
  BY <1>1, <1>5, ChangesAssumption
  DEF PlacementInv, PlacementTypeOK, StorageInv, Scheduled, SyncStore, Changed
<1>8. RowsOK' /\ StoredOK' /\ TodoOK' /\ CleanupOK' /\ DownloadOK'
  <2>1. \A w \in Versions : Doomed(w) => Doomed(w)'
    BY <1>1 DEF Doomed, Overdue
  <2> QED BY <1>1, <1>6, <2>1, Kept, TheCallers
<1>9. SyncOK'
  BY <1>1, <1>2, <1>3, <1>6 DEF SyncOK
<1>10. ManagerNext
  BY <1>1, <1>2, TheCallers DEF ManagerNext
<1> QED BY <1>5, <1>7, <1>8, <1>9, <1>10 DEF PlacementInv

(* What was stored is published where it was stored.                       *)
LEMMA SyncPublishPlacement ==
    ASSUME PlacementInv, SyncPublish
    PROVE  PlacementInv' /\ ManagerNext
<1> DEFINE r == call["sync"]
           v == r.path.version
<1>1. /\ r.status = "ok" /\ Return("sync") /\ rows' = PublishNewVersion(rows, v, r.data)
      /\ location' = [location EXCEPT ![v] = r.path.driver] /\ Renewed(v)
      /\ UNCHANGED <<upstream, todo, changes>>
  BY DEF SyncPublish
<1>2. /\ \A d \in Callers \ {"sync"} : Requests'[d] = Requests[d]
      /\ Requests'["sync"].op = "none" /\ UNCHANGED StoredNow
      /\ Requests["sync"].op # "none" /\ Requests["sync"].path = r.path
      /\ Requests["sync"].data = r.data /\ Requests["sync"].status = "ok"
  BY <1>1, ReturnRequests, TheCallers DEF PlacementInv
<1>3. /\ r.data = upstream /\ r.path \in StoragePath /\ v = Latest
      /\ StoredNow[r.path] = upstream \/ (StoredNow[r.path] = NoBuild /\ Doomed(v))
      /\ upstream \in Builds
  BY <1>2 DEF PlacementInv, SyncOK, PlacementTypeOK
<1>4. /\ v \in Versions /\ r.path.driver \in Drivers /\ upstream # NoBuild /\ upstream \in Nat
  BY <1>3, MaxBuildAssumption DEF StoragePath, Builds, NoBuild
<1>5. rows \in Table /\ location \in [Versions -> Drivers]
  BY DEF PlacementInv, PlacementTypeOK
<1>6. rows' = PublishNewVersion(rows, v, upstream)
  BY <1>1, <1>3
<1>7. /\ rows' \in Table /\ rows'[v].sha256 = upstream
      /\ \A w \in Versions \ {v} : rows'[w] = Supersede(rows)[w]
  BY <1>3, <1>4, <1>5, <1>6, PublishRows
<1>8. \A w \in Versions \ {v} :
        /\ rows'[w].sha256 = rows[w].sha256
        /\ rows'[w].is_deleted = rows[w].is_deleted
        /\ rows'[w].cleanup_deadline =
              IF rows[w].is_current THEN "pending" ELSE rows[w].cleanup_deadline
  BY <1>5, <1>7, SupersedeRows
<1>9. /\ revived' \in SUBSET Versions /\ revived \subseteq revived'
      /\ Doomed(v) => v \in revived'
  BY <1>1, <1>4, RenewedVersions
<1>10. \A w \in Versions : Doomed(w) => Doomed(w)'
  <2> SUFFICES ASSUME NEW w \in Versions, w # v, Overdue(w) PROVE Overdue(w)'
    BY <1>9 DEF Doomed
  <2>1. ~rows[w].is_current
    BY DEF Overdue, PlacementInv, Scheduled
  <2> QED BY <1>8, <2>1 DEF Overdue
<1>11. StorageInv'
  BY <1>1, CallStepInv, TheCallers DEF PlacementInv
<1>12. PlacementTypeOK'
  BY <1>1, <1>4, <1>5, <1>7, <1>9, <1>11 DEF PlacementInv, PlacementTypeOK, StorageInv
<1>13. Scheduled(rows)'
  <2>1. Scheduled(PublishNewVersion(rows, v, upstream))
    BY <1>3, <1>4, <1>5, PublishKeepsCatalog DEF PlacementInv
  <2> QED BY <1>6, <2>1 DEF Scheduled
<1>14. RowsOK'
  BY <1>1, <1>3, <1>4, <1>7, <1>8 DEF PlacementInv, RowsOK, Exists, Latest
<1>15. \A w \in Versions \ {v} : PathOf(w)' = PathOf(w)
  BY <1>1, <1>4, <1>5 DEF PathOf
<1>16. StoredOK'
  <2>1. \A p \in StoragePath : StoredNow'[p] # NoBuild => BuildDate[StoredNow'[p]] = p.version
    BY <1>2 DEF PlacementInv, StoredOK
  <2>2. ASSUME NEW w \in Versions, IsLive(rows'[w])
        PROVE  IF StoredNow'[PathOf(w)'] = NoBuild THEN Doomed(w)'
               ELSE StoredNow'[PathOf(w)'] >= rows'[w].sha256
    <3>1. CASE w = v
      <4>1. PathOf(w)' = r.path
        BY <1>1, <1>3, <1>4, <1>5, <3>1 DEF PathOf, StoragePath
      <4>2. Doomed(w) => Doomed(w)'
        BY <1>10
      <4> QED BY <1>2, <1>3, <1>4, <1>7, <3>1, <4>1, <4>2
    <3>2. CASE w # v
      <4>1. IsLive(rows[w]) /\ rows'[w].sha256 = rows[w].sha256
        BY <1>8, <2>2, <3>2 DEF IsLive, Exists
      <4> QED BY <1>2, <1>10, <1>15, <3>2, <4>1 DEF PlacementInv, StoredOK
    <3> QED BY <3>1, <3>2
  <2> QED BY <2>1, <2>2 DEF StoredOK
<1>17. SyncOK'
  BY <1>2 DEF SyncOK
<1>18. ASSUME NEW p \in StoragePath, ToDelete(p) PROVE ToDelete(p)'
  <2>1. p.version \in Versions /\ Doomed(p.version)'
    BY <1>10, <1>18 DEF StoragePath, ToDelete
  <2>2. p.version = v => p.version \in revived'
    BY <1>9, <1>18 DEF ToDelete
  <2>3. p.version # v => PathOf(p.version)' = PathOf(p.version)
    BY <1>15, <2>1
  <2> QED BY <1>9, <1>18, <2>1, <2>2, <2>3 DEF ToDelete
<1>19. TodoOK'
  BY <1>1, <1>18 DEF PlacementInv, PlacementTypeOK, TodoOK
<1>20. CleanupOK'
  <2> DEFINE k == Requests["cleanup"]
  <2>1. Requests'["cleanup"] = k
    BY <1>2, TheCallers
  <2> SUFFICES ASSUME k.op # "none" PROVE CleanupOK'
    BY <2>1 DEF CleanupOK
  <2>2. /\ k.op = "delete" /\ ToDelete(k.path) /\ k.path \in StoragePath
        /\ k.status = "ok" /\ k.place = "primary" =>
             k.path.version \in revived \/ StoredNow[k.path] = NoBuild
    BY DEF PlacementInv, CleanupOK, ToDelete
  <2>3. PICK p \in StoragePath : p = k.path
    BY <2>2
  <2>4. ToDelete(p)'
    BY <1>18, <2>2, <2>3
  <2> QED BY <1>2, <1>9, <2>1, <2>2, <2>3, <2>4 DEF CleanupOK, ToDelete, Doomed, Overdue, PathOf
<1>21. DownloadOK'
  <2> DEFINE k == Requests["download"]
  <2>1. Requests'["download"] = k
    BY <1>2, TheCallers
  <2> SUFFICES ASSUME k.op # "none" PROVE DownloadOK'
    BY <2>1 DEF DownloadOK
  <2>2. k.path.version \in Versions
    BY DEF PlacementInv, DownloadOK, StoragePath
  <2>3. PICK w \in Versions : w = k.path.version
    BY <2>2
  <2>4. Requests'["download"].path.version = w /\ (Doomed(w) => Doomed(w)')
    BY <1>10, <2>1, <2>3
  <2> QED BY <1>1, <1>2, <2>1, <2>3, <2>4 DEF PlacementInv, DownloadOK, Doomed, Overdue
<1>22. ManagerNext
  BY <1>1, TheCallers DEF ManagerNext
<1> QED BY <1>11, <1>12, <1>13, <1>14, <1>16, <1>17, <1>19, <1>20, <1>21, <1>22
        DEF PlacementInv

(* A call that ends without effect on the catalogue.                       *)
LEMMA EndPlacement ==
    ASSUME PlacementInv, NEW c \in Callers, Return(c), UNCHANGED catalogVars
    PROVE  PlacementInv' /\ ManagerNext
<1>1. StorageInv'
  BY CallStepInv DEF PlacementInv
<1>2. /\ \A d \in Callers \ {c} : Requests'[d] = Requests[d]
      /\ Requests'[c].op = "none" /\ UNCHANGED StoredNow
  BY ReturnRequests DEF PlacementInv
<1>3. PlacementInv'
  BY <1>1, <1>2, ManagerOnly
<1> QED BY <1>3 DEF ManagerNext

(* Each version on the list of a cleanup is overdue and at its path.       *)
LEMMA CleanupListPlacement ==
    ASSUME PlacementInv, CleanupList
    PROVE  PlacementInv' /\ UNCHANGED managerVars
<1>1. /\ todo' = {PathOf(v) : v \in GetExpiredVersions(rows)}
      /\ UNCHANGED <<managerVars, upstream, rows, location, revived, changes>>
  BY DEF CleanupList
<1>2. StorageInv' /\ UNCHANGED <<StoredNow, Requests>>
  BY <1>1 DEF PlacementInv, managerVars, StorageInv, StorageTypeOK, Calling, StoredNow, Requests
<1>3. \A p \in todo' : p \in StoragePath /\ ToDelete(p)'
  <2> SUFFICES ASSUME NEW v \in GetExpiredVersions(rows)
               PROVE  PathOf(v) \in StoragePath /\ ToDelete(PathOf(v))
    BY <1>1 DEF ToDelete, Doomed, Overdue, PathOf
  <2>1. v \in Versions /\ Overdue(v)
    BY DEF GetExpiredVersions, Overdue
  <2> QED BY <2>1, PathOfRow DEF ToDelete, Doomed
<1>4. \A v \in Versions : Doomed(v) => Doomed(v)'
  BY <1>1 DEF Doomed, Overdue
<1>5. /\ rows' \in Table /\ Scheduled(rows)' /\ changes' \in 0..MaxChanges
      /\ revived' \in SUBSET Versions
  BY <1>1 DEF PlacementInv, PlacementTypeOK, Scheduled
<1> QED BY <1>1, <1>2, <1>3, <1>4, <1>5, CatalogStep

(* A deletion begins, of whatever the list says.                           *)
LEMMA CleanupDeletePlacement ==
    ASSUME PlacementInv, NEW p \in StoragePath, CleanupDelete(p)
    PROVE  PlacementInv' /\ ManagerNext
<1>1. /\ p \in todo /\ Begin("cleanup", "delete", p, NoBuild) /\ todo' = todo \ {p}
      /\ UNCHANGED <<upstream, rows, location, revived, changes>>
  BY DEF CleanupDelete
<1>2. /\ \A d \in Callers \ {"cleanup"} : Requests'[d] = Requests[d]
      /\ Requests'["cleanup"].op = "delete" /\ Requests'["cleanup"].path = p
      /\ Requests'["cleanup"].status = "pending" /\ UNCHANGED StoredNow
  BY <1>1, BeginRequests, TheCallers DEF PlacementInv
<1>3. StorageInv'
  BY <1>1, BeginInv, TheCallers DEF PlacementInv
<1>4. \A v \in Versions : Doomed(v) => Doomed(v)'
  BY <1>1 DEF Doomed, Overdue
<1>5. upstream' \in Builds /\ upstream' >= upstream
  BY <1>1, MaxBuildAssumption DEF PlacementInv, PlacementTypeOK, Builds
<1>6. RowsOK' /\ StoredOK' /\ TodoOK' /\ SyncOK' /\ DownloadOK'
  BY <1>1, <1>2, <1>4, <1>5, Kept, TheCallers
<1>7. ToDelete(p)'
  BY <1>1 DEF PlacementInv, TodoOK, ToDelete, Doomed, Overdue, PathOf
<1>8. CleanupOK'
  BY <1>2, <1>7 DEF CleanupOK, ToDelete, Doomed, Overdue, PathOf
<1>9. PlacementTypeOK' /\ Scheduled(rows)'
  BY <1>1, <1>3 DEF PlacementInv, PlacementTypeOK, StorageInv, Scheduled
<1>10. ManagerNext
  BY <1>1, TheCallers DEF ManagerNext
<1> QED BY <1>3, <1>6, <1>8, <1>9, <1>10 DEF PlacementInv

(* A download begins at the path of a row.                                 *)
LEMMA DownloadOpenPlacement ==
    ASSUME PlacementInv, NEW v \in Versions, DownloadOpen(v)
    PROVE  PlacementInv' /\ ManagerNext
<1>1. /\ IsLive(rows[v]) /\ Begin("download", "open", PathOf(v), rows[v].sha256)
      /\ UNCHANGED <<upstream, rows, location, todo, revived, changes>>
  BY DEF DownloadOpen, catalogVars
<1>2. PathOf(v) \in StoragePath /\ PathOf(v).version = v
  BY PathOfRow
<1>3. rows[v].sha256 \in Builds
  <2>1. rows \in Table
    BY DEF PlacementInv, PlacementTypeOK
  <2> QED BY <1>1, <2>1 DEF Table, Row, IsLive, Exists
<1>4. /\ rows[v].sha256 <= upstream
      /\ IF StoredNow[PathOf(v)] = NoBuild THEN Doomed(v)
         ELSE StoredNow[PathOf(v)] >= rows[v].sha256
  BY <1>1 DEF PlacementInv, RowsOK, StoredOK, IsLive
<1>5. /\ \A d \in Callers \ {"download"} : Requests'[d] = Requests[d]
      /\ Requests'["download"].op = "open" /\ Requests'["download"].path = PathOf(v)
      /\ Requests'["download"].data = rows[v].sha256
      /\ Requests'["download"].status = "pending" /\ UNCHANGED StoredNow
  BY <1>1, <1>2, <1>3, BeginRequests, TheCallers DEF PlacementInv
<1>6. StorageInv'
  BY <1>1, <1>2, <1>3, BeginInv, TheCallers DEF PlacementInv
<1>7. \A w \in Versions : Doomed(w) => Doomed(w)'
  BY <1>1 DEF Doomed, Overdue
<1>8. upstream' \in Builds /\ upstream' >= upstream
  BY <1>1, MaxBuildAssumption DEF PlacementInv, PlacementTypeOK, Builds
<1>9. RowsOK' /\ StoredOK' /\ TodoOK' /\ SyncOK' /\ CleanupOK'
  BY <1>1, <1>5, <1>7, <1>8, Kept, TheCallers
<1>10. DownloadOK'
  BY <1>1, <1>2, <1>3, <1>4, <1>5 DEF DownloadOK, Doomed, Overdue
<1>11. PlacementTypeOK' /\ Scheduled(rows)'
  BY <1>1, <1>6 DEF PlacementInv, PlacementTypeOK, StorageInv, Scheduled
<1>12. ManagerNext
  BY <1>1, <1>2, <1>3, TheCallers DEF ManagerNext
<1> QED BY <1>6, <1>9, <1>10, <1>11, <1>12 DEF PlacementInv

(* A row is marked deleted, whatever the deletion answered.                *)
LEMMA CleanupMarkPlacement ==
    ASSUME PlacementInv, CleanupMark
    PROVE  PlacementInv' /\ ManagerNext
<1> DEFINE v == call["cleanup"].path.version
<1>1. /\ Return("cleanup") /\ rows' = MarkVersionDeleted(rows, v)
      /\ UNCHANGED <<upstream, location, todo, revived, changes>>
  BY DEF CleanupMark
<1>2. /\ \A d \in Callers \ {"cleanup"} : Requests'[d] = Requests[d]
      /\ Requests'["cleanup"].op = "none" /\ UNCHANGED StoredNow
      /\ Requests["cleanup"].op # "none" /\ Requests["cleanup"].path = call["cleanup"].path
  BY <1>1, ReturnRequests, TheCallers DEF PlacementInv
<1>3. v \in Versions /\ rows \in Table
  BY <1>2 DEF PlacementInv, CleanupOK, ToDelete, StoragePath, PlacementTypeOK
<1>4. /\ rows' \in Table
      /\ \A w \in Versions :
           /\ rows'[w].sha256 = rows[w].sha256
           /\ rows'[w].is_current = rows[w].is_current
           /\ rows'[w].cleanup_deadline = rows[w].cleanup_deadline
           /\ w # v => rows'[w] = rows[w]
  BY <1>1, <1>3, MarkRows
<1>5. rows'[v].is_deleted
  BY <1>1, <1>3 DEF MarkVersionDeleted, Table, Row
<1>6. \A w \in Versions : /\ IsLive(rows'[w]) => IsLive(rows[w])
                          /\ Doomed(w) => Doomed(w)'
  BY <1>1, <1>4, <1>5 DEF IsLive, Doomed, Overdue
<1>7. StorageInv'
  BY <1>1, CallStepInv, TheCallers DEF PlacementInv
<1>8. Scheduled(rows)'
  BY <1>4 DEF PlacementInv, Scheduled, Exists
<1>9. /\ changes' \in 0..MaxChanges /\ todo' \in SUBSET StoragePath
      /\ revived' \in SUBSET Versions
  BY <1>1 DEF PlacementInv, PlacementTypeOK
<1>10. PlacementInv'
  BY <1>1, <1>2, <1>4, <1>6, <1>7, <1>8, <1>9, CatalogStep
<1> QED BY <1>1, <1>10, TheCallers DEF ManagerNext

(* A rollback brings a version back, the rows keep their artifacts.        *)
LEMMA RollbackPlacement ==
    ASSUME PlacementInv, NEW v \in Versions, Rollback(v)
    PROVE  PlacementInv' /\ UNCHANGED managerVars
<1>1. /\ IsLive(rows[v]) /\ rows' = RollbackToVersion(rows, v)
      /\ Renewed(v) /\ Changed /\ UNCHANGED <<managerVars, upstream, location, todo>>
  BY DEF Rollback
<1>2. rows \in Table
  BY DEF PlacementInv, PlacementTypeOK
<1>3. StorageInv' /\ UNCHANGED <<StoredNow, Requests>>
  BY <1>1 DEF PlacementInv, managerVars, StorageInv, StorageTypeOK, Calling, StoredNow, Requests
<1>4. /\ revived' \in SUBSET Versions /\ revived \subseteq revived'
      /\ Doomed(v) => v \in revived'
  BY <1>1, RenewedVersions
<1>5. rows' \in Table /\ \A w \in Versions : rows'[w].sha256 = rows[w].sha256
  BY <1>1, <1>2, RollbackRows, RollbackKeepsDigests
<1>6. /\ rows'[v].is_deleted = rows[v].is_deleted
      /\ \A w \in Versions \ {v} :
           /\ rows'[w].is_deleted = rows[w].is_deleted
           /\ ~rows[w].is_current => rows'[w].cleanup_deadline = rows[w].cleanup_deadline
  BY <1>1, <1>2, RollbackRows, SupersedeRows
<1>7. \A w \in Versions : /\ IsLive(rows'[w]) => IsLive(rows[w])
                          /\ Doomed(w) => Doomed(w)'
  <2>1. ASSUME NEW w \in Versions, w # v, Overdue(w) PROVE Overdue(w)'
    <3>1. ~rows[w].is_current
      BY <2>1 DEF Overdue, PlacementInv, Scheduled
    <3> QED BY <1>6, <2>1, <3>1 DEF Overdue
  <2>2. \A w \in Versions : Doomed(w) => Doomed(w)'
    BY <1>4, <2>1 DEF Doomed
  <2> QED BY <1>5, <1>6, <2>2 DEF IsLive, Exists
<1>8. Scheduled(rows)'
  <2>1. Scheduled(RollbackToVersion(rows, v))
    BY <1>1, <1>2, RollbackKeepsCatalog DEF PlacementInv
  <2> QED BY <1>1, <2>1 DEF Scheduled
<1>9. changes' \in 0..MaxChanges /\ todo' \in SUBSET StoragePath
  BY <1>1, ChangesAssumption DEF PlacementInv, PlacementTypeOK, Changed
<1> QED BY <1>1, <1>3, <1>4, <1>5, <1>7, <1>8, <1>9, CatalogStep

(* The clock passes a deadline.                                            *)
LEMMA DeadlinePlacement ==
    ASSUME PlacementInv, NEW v \in Versions, DeadlinePasses(v)
    PROVE  PlacementInv' /\ UNCHANGED managerVars
<1>1. /\ rows[v].cleanup_deadline = "pending"
      /\ rows' = [rows EXCEPT ![v].cleanup_deadline = "passed"]
      /\ UNCHANGED <<managerVars, upstream, location, todo, revived, changes>>
  BY DEF DeadlinePasses
<1>2. rows \in Table
  BY DEF PlacementInv, PlacementTypeOK
<1>3. /\ rows' \in Table
      /\ \A w \in Versions :
           /\ rows'[w].sha256 = rows[w].sha256 /\ rows'[w].is_current = rows[w].is_current
           /\ rows'[w].is_deleted = rows[w].is_deleted
           /\ rows'[w].cleanup_deadline =
                 IF w = v THEN "passed" ELSE rows[w].cleanup_deadline
  BY <1>1, <1>2 DEF Table, Row
<1>4. StorageInv' /\ UNCHANGED <<StoredNow, Requests>>
  BY <1>1 DEF PlacementInv, managerVars, StorageInv, StorageTypeOK, Calling, StoredNow, Requests
<1>5. Scheduled(rows)'
  BY <1>1, <1>3 DEF PlacementInv, Scheduled, Exists
<1>6. \A w \in Versions : /\ IsLive(rows'[w]) => IsLive(rows[w])
                          /\ Doomed(w) => Doomed(w)'
  BY <1>1, <1>3 DEF IsLive, Exists, Doomed, Overdue
<1>7. /\ changes' \in 0..MaxChanges /\ todo' \in SUBSET StoragePath
      /\ revived' \in SUBSET Versions
  BY <1>1 DEF PlacementInv, PlacementTypeOK
<1> QED BY <1>1, <1>3, <1>4, <1>5, <1>6, <1>7, CatalogStep

(* The store of a sync at work, which may bring its version back.          *)
LEMMA SyncStoreStepPlacement ==
    ASSUME PlacementInv, SyncStoreStep
    PROVE  PlacementInv' /\ ManagerNext
  BY CallStepPlacement, TheCallers DEF SyncStoreStep

(* Steps of the manager on its own: calls and saves of the settings.       *)
LEMMA ManagerStepPlacement ==
    ASSUME PlacementInv, ManagerStep
    PROVE  PlacementInv' /\ ManagerNext
<1>1. UNCHANGED catalogVars
  BY DEF ManagerStep
<1>2. ASSUME NEW c \in Callers \ {"sync"}, CallStep(c) PROVE PlacementInv' /\ ManagerNext
  BY <1>1, <1>2, CallStepPlacement DEF catalogVars
<1>3. CASE \/ \E a \in Saves, bucket \in BOOLEAN : SaveBucket(a, bucket)
           \/ \E a \in Reloaders : SaveStep(a)
  <2>1. StorageInv' /\ UNCHANGED <<call, objects>>
    BY <1>3, SaveStepInv DEF PlacementInv
  <2>2. UNCHANGED <<StoredNow, Requests>>
    BY <2>1 DEF StoredNow, Requests
  <2>3. PlacementInv'
    BY <1>1, <2>1, <2>2, ManagerOnly
  <2> QED BY <1>3, <2>3 DEF ManagerNext
<1> QED BY <1>2, <1>3 DEF ManagerStep

(* A restart ends every call, and forgets the list of the cleanup.         *)
LEMMA RebootPlacement ==
    ASSUME PlacementInv, Reboot
    PROVE  PlacementInv' /\ ManagerNext
<1>1. /\ Restart /\ todo' = {}
      /\ UNCHANGED <<upstream, rows, location, revived, changes>>
  BY DEF Reboot
<1>2. StorageInv' /\ Store!Restart
  BY <1>1, RestartInv, RestartRefines DEF PlacementInv
<1>3. UNCHANGED StoredNow /\ \A c \in Callers : Requests'[c].op = "none"
  BY <1>2 DEF Store!Restart, Store!Free
<1>4. \A v \in Versions : Doomed(v) => Doomed(v)'
  BY <1>1 DEF Doomed, Overdue
<1>5. /\ rows' \in Table /\ Scheduled(rows)' /\ changes' \in 0..MaxChanges
      /\ revived' \in SUBSET Versions
  BY <1>1 DEF PlacementInv, PlacementTypeOK, Scheduled
<1>6. PlacementInv'
  BY <1>1, <1>2, <1>3, <1>4, <1>5, CatalogStep
<1> QED BY <1>1, <1>6 DEF ManagerNext

(* Every step of the placement keeps PlacementInv and is a manager step.   *)
LEMMA PlacementStep ==
    ASSUME PlacementInv, [PlacementNext]_placementVars
    PROVE  PlacementInv' /\ [ManagerNext]_managerVars
<1>1. ASSUME NEW build \in Builds, SyncStore(build) PROVE PlacementInv' /\ ManagerNext
  BY <1>1, SyncStorePlacement
<1>2. ASSUME SyncStoreStep PROVE PlacementInv' /\ ManagerNext
  BY <1>2, SyncStoreStepPlacement
<1>3. ASSUME SyncPublish PROVE PlacementInv' /\ ManagerNext
  BY <1>3, SyncPublishPlacement
<1>4. ASSUME SyncFails \/ CleanupMarkFails \/ DownloadEnd PROVE PlacementInv' /\ ManagerNext
  BY <1>4, EndPlacement, TheCallers DEF SyncFails, CleanupMarkFails, DownloadEnd
<1>5. ASSUME NEW v \in Versions, DownloadOpen(v) PROVE PlacementInv' /\ ManagerNext
  BY <1>5, DownloadOpenPlacement
<1>6. ASSUME NEW v \in Versions, DeadlinePasses(v)
      PROVE  PlacementInv' /\ UNCHANGED managerVars
  BY <1>6, DeadlinePlacement
<1>7. ASSUME NEW v \in Versions, Rollback(v) PROVE PlacementInv' /\ UNCHANGED managerVars
  BY <1>7, RollbackPlacement
<1>8. ASSUME CleanupList PROVE PlacementInv' /\ UNCHANGED managerVars
  BY <1>8, CleanupListPlacement
<1>9. ASSUME NEW p \in StoragePath, CleanupDelete(p) PROVE PlacementInv' /\ ManagerNext
  BY <1>9, CleanupDeletePlacement
<1>10. ASSUME CleanupMark PROVE PlacementInv' /\ ManagerNext
  BY <1>10, CleanupMarkPlacement
<1>11. ASSUME ManagerStep PROVE PlacementInv' /\ ManagerNext
  BY <1>11, ManagerStepPlacement
<1>12. ASSUME Reboot PROVE PlacementInv' /\ ManagerNext
  BY <1>12, RebootPlacement
<1>13. ASSUME UNCHANGED placementVars PROVE PlacementInv' /\ UNCHANGED managerVars
  <2>1. UNCHANGED managerVars /\ UNCHANGED catalogVars
    BY <1>13 DEF placementVars, managerVars
  <2>2. StorageInv' /\ UNCHANGED <<StoredNow, Requests>>
    BY <2>1 DEF PlacementInv, managerVars, StorageInv, StorageTypeOK, Calling, StoredNow, Requests
  <2> QED BY <2>1, <2>2, ManagerOnly
<1> QED BY <1>1, <1>2, <1>3, <1>4, <1>5, <1>6, <1>7, <1>8, <1>9, <1>10, <1>11, <1>12, <1>13,
           Zenon DEF PlacementNext

(* PlacementInv holds before the first sync.                               *)
LEMMA PlacementStart == ASSUME PlacementInit PROVE PlacementInv
<1>1. /\ ManagerInit /\ upstream = 1 /\ rows = EmptyTable
      /\ location = [v \in Versions |-> "filesystem"]
      /\ todo = {} /\ revived = {} /\ changes = 0
  BY DEF PlacementInit
<1>2. StorageInv /\ Store!Init
  BY <1>1, ManagerInitInv
<1>3. \A v \in Versions : rows[v] = NoRow
  BY <1>1 DEF EmptyTable
<1>4. ~Exists(NoRow) /\ ~NoRow.is_current
  BY DEF NoRow, Exists
<1>5. PlacementTypeOK
  <2>1. NoRow \in Row
    BY DEF NoRow, Row
  <2>2. rows \in Table
    BY <1>1, <2>1 DEF EmptyTable, Table
  <2>3. upstream \in Builds
    BY <1>1, MaxBuildAssumption DEF Builds
  <2>4. location \in [Versions -> Drivers]
    BY <1>1 DEF Drivers
  <2>5. changes \in 0..MaxChanges
    BY <1>1, ChangesAssumption
  <2> QED BY <1>1, <1>2, <2>2, <2>3, <2>4, <2>5 DEF PlacementTypeOK, StorageInv
<1>6. Scheduled(rows) /\ RowsOK /\ TodoOK
  <2>1. \A v \in Versions : ~Exists(rows[v]) /\ ~rows[v].is_current
    BY <1>3, <1>4
  <2> QED BY <1>1, <2>1 DEF Scheduled, RowsOK, TodoOK
<1>7. StoredOK
  <2>1. StoredNow = [p \in StoragePath |-> NoBuild]
    BY <1>2 DEF Store!Init
  <2>2. \A v \in Versions : ~IsLive(rows[v])
    BY <1>3, <1>4 DEF IsLive
  <2> QED BY <2>1, <2>2 DEF StoredOK
<1>8. SyncOK /\ CleanupOK /\ DownloadOK
  <2>1. \A c \in Callers : Requests[c].op = "none"
    BY <1>2 DEF Store!Init, Store!Free
  <2> QED BY <2>1, TheCallers DEF SyncOK, CleanupOK, DownloadOK
<1> QED BY <1>2, <1>5, <1>6, <1>7, <1>8 DEF PlacementInv

(* The inductive invariant of the catalogue over two drivers.              *)
LEMMA PlacementInvariant == PlacementSpec => []PlacementInv
<1>1. PlacementInit => PlacementInv
  BY PlacementStart
<1>2. PlacementInv /\ [PlacementNext]_placementVars => PlacementInv'
  BY PlacementStep
<1> QED BY <1>1, <1>2, PTL DEF PlacementSpec

(* Under the catalogue's own use of it, with any number of settings saves, *)
(* the storage manager (manager.go) implements ArtifactStore.              *)
THEOREM PlacementImplements == PlacementSpec => ImplementsStore
<1>1. PlacementInit => PlacementInv /\ ManagerInit
  BY PlacementStart DEF PlacementInit
<1>2. PlacementInv /\ [PlacementNext]_placementVars => PlacementInv' /\ [ManagerNext]_managerVars
  BY PlacementStep
<1>3. PlacementSpec => ManagerSpec
  BY <1>1, <1>2, PTL DEF PlacementSpec, ManagerSpec
<1> QED BY <1>3, ManagerImplements

(* Unless its deadline has passed, or had when it came back by a rollback  *)
(* or a publication, a live row names the driver that holds its artifact,  *)
(* a build of its date no older than its digest (syncer.go, cleanup.go,    *)
(* ui.go handleProductRollback).                                           *)
THEOREM RowsPlaced == PlacementSpec => []RowsArePlaced
<1>1. PlacementInv => RowsArePlaced
  <2> SUFFICES ASSUME PlacementInv, NEW v \in Versions, IsLive(rows[v]), ~Doomed(v)
               PROVE  Held(v) \in Builds /\ BuildDate[Held(v)] = v /\ Held(v) >= rows[v].sha256
    BY DEF RowsArePlaced, Doomed
  <2>1. PathOf(v) \in StoragePath /\ PathOf(v).version = v /\ Held(v) = StoredNow[PathOf(v)]
    BY DEF PlacementInv, PlacementTypeOK, PathOf, StoragePath, Held, StoredNow
  <2>2. Held(v) \in Builds \cup {NoBuild}
    BY DEF PlacementInv, PlacementTypeOK, StorageTypeOK, Held
  <2> QED BY <2>1, <2>2 DEF PlacementInv, StoredOK
<1> QED BY <1>1, PlacementInvariant, PTL

(* What the invariant says of a download that has its answer.              *)
LEMMA DownloadAnswer == PlacementInv => ServedIsPlaced /\ OnlyExpiredIsNotFound
<1> SUFFICES ASSUME PlacementInv, call["download"].op = "open"
             PROVE  ServedIsPlaced /\ OnlyExpiredIsNotFound
  BY DEF ServedIsPlaced, OnlyExpiredIsNotFound
<1> DEFINE r == call["download"]
<1>1. r \in CallState /\ CallOK(r)
  BY TheCallers DEF PlacementInv, StorageInv, Calling, NoCall
<1>2. Requests["download"] = RequestOf(r)
  BY TheCallers DEF Requests
<1>3. r.status \in {"ok", "notfound"} => StatusOf(r) = r.status
  BY <1>1 DEF CallOK, StatusOf
<1> QED BY <1>1, <1>2, <1>3, RequestOfCall
        DEF PlacementInv, DownloadOK, Doomed, ServedIsPlaced, OnlyExpiredIsNotFound

(* Whatever driver answers, before, during or after a switch, a download   *)
(* gets a build of the date it asked for, no older than its row's digest   *)
(* (manager.go OpenArtifact).                                              *)
THEOREM DownloadsPlaced == PlacementSpec => []ServedIsPlaced
BY DownloadAnswer, PlacementInvariant, PTL

(* A download that both drivers are asked for is answered with 404 only    *)
(* for a version whose deadline has passed, or had when a rollback or a    *)
(* publication brought it back.                                            *)
THEOREM NotFoundIsExpired == PlacementSpec => []OnlyExpiredIsNotFound
BY DownloadAnswer, PlacementInvariant, PTL

(* The catalogue, the drivers and every call over them keep their types    *)
(* across switches of the driver, rollbacks and restarts.                  *)
THEOREM PlacementTypes == PlacementSpec => []PlacementTypeOK
<1>1. PlacementInv => PlacementTypeOK
  BY DEF PlacementInv
<1> QED BY <1>1, PlacementInvariant, PTL

(* A row is marked deleted with its artifact still there only when the     *)
(* deletion failed, when the artifact was not on the active driver, or     *)
(* when the version had come back after its deadline (manager.go           *)
(* DeleteArtifact, cleanup.go RunCleanup).                                 *)
THEOREM LeftBehind == PlacementSpec => LeftOnlyWhenNotActive
<1> DEFINE Left == \A v \in Versions :
               ~rows[v].is_deleted /\ rows'[v].is_deleted /\ Held(v) # NoBuild =>
                   \/ call["cleanup"].status = "error"
                   \/ PlaceOf(call["cleanup"]) # "primary"
                   \/ v \in revived
<1>1. ASSUME PlacementInv, PlacementNext PROVE Left
  <2> SUFFICES ASSUME NEW v \in Versions, ~rows[v].is_deleted, rows'[v].is_deleted
               PROVE  Held(v) # NoBuild => \/ call["cleanup"].status = "error"
                                           \/ PlaceOf(call["cleanup"]) # "primary"
                                           \/ v \in revived
    OBVIOUS
  <2>1. rows \in Table
    BY <1>1 DEF PlacementInv, PlacementTypeOK
  <2>2. ~SyncPublish
    <3> SUFFICES ASSUME SyncPublish PROVE FALSE
      OBVIOUS
    <3> DEFINE r == call["sync"]
    <3>1. /\ Return("sync") /\ r.status = "ok"
          /\ rows' = PublishNewVersion(rows, r.path.version, r.data)
      BY DEF SyncPublish
    <3>2. r.path.version \in Versions /\ r.data \in Builds
      BY <1>1, <3>1, ReturnRequests, TheCallers DEF PlacementInv, SyncOK, PlacementTypeOK, StoragePath
    <3>3. /\ ~rows'[r.path.version].is_deleted
          /\ \A w \in Versions \ {r.path.version} : rows'[w] = Supersede(rows)[w]
      BY <2>1, <3>1, <3>2, PublishRows
    <3> QED BY <2>1, <3>3, SupersedeRows
  <2>3. \A w \in Versions : ~DeadlinePasses(w) /\ ~Rollback(w)
    <3>1. ASSUME NEW w \in Versions, DeadlinePasses(w) PROVE FALSE
      BY <2>1, <3>1 DEF DeadlinePasses, Table, Row
    <3>2. ASSUME NEW w \in Versions, Rollback(w) PROVE FALSE
      <4>1. rows' = RollbackToVersion(rows, w)
        BY <3>2 DEF Rollback
      <4>2. CASE v = w
        BY <2>1, <4>1, <4>2, RollbackRows
      <4>3. CASE v # w
        BY <2>1, <4>1, <4>3, RollbackRows, SupersedeRows
      <4> QED BY <4>2, <4>3
    <3> QED BY <3>1, <3>2
  <2>4. CleanupMark
    <3>1. rows' # rows
      OBVIOUS
    <3> QED BY <1>1, <2>2, <2>3, <3>1
            DEF PlacementNext, SyncStore, SyncStoreStep, SyncFails, CleanupList, CleanupDelete,
                DownloadOpen, CleanupMarkFails, DownloadEnd, ManagerStep, Reboot, catalogVars
  <2> DEFINE r == call["cleanup"]
  <2>5. Return("cleanup") /\ rows' = MarkVersionDeleted(rows, r.path.version)
    BY <2>4 DEF CleanupMark
  <2>6. /\ Requests["cleanup"].op = r.op /\ Requests["cleanup"].op # "none"
        /\ Requests["cleanup"].path = r.path /\ Requests["cleanup"].status = r.status
    BY <1>1, <2>5, ReturnRequests, TheCallers DEF PlacementInv
  <2>7. /\ r \in CallState /\ CallOK(r) /\ r.pc = "done" /\ r.op = "delete"
        /\ Requests["cleanup"].place = PlaceOf(r)
    <3>1. r \in CallState /\ CallOK(r) /\ r.pc = "done"
      BY <1>1, <2>5, TheCallers DEF PlacementInv, StorageInv, Calling, Return, NoCall
    <3>2. Requests["cleanup"] = RequestOf(r)
      BY TheCallers DEF Requests
    <3>3. r.op = "delete"
      BY <1>1, <2>6 DEF PlacementInv, CleanupOK
    <3> QED BY <3>1, <3>2, <3>3, RequestOfCall
  <2>8. /\ r.path \in StoragePath
        /\ r.path.version \in revived \/ r.path = PathOf(r.path.version)
        /\ r.status = "ok" /\ PlaceOf(r) = "primary" =>
             r.path.version \in revived \/ StoredNow[r.path] = NoBuild
    BY <1>1, <2>6, <2>7 DEF PlacementInv, CleanupOK, ToDelete
  <2>9. v = r.path.version
    <3>1. r.path.version \in Versions
      BY <2>8 DEF StoragePath
    <3> QED BY <2>1, <2>5, <3>1, MarkRows
  <2>10. v \notin revived => Held(v) = StoredNow[r.path]
    BY <2>8, <2>9 DEF Held, StoredNow, PathOf
  <2>11. r.status \in {"ok", "error"}
    BY <2>7 DEF CallOK
  <2> QED BY <2>8, <2>9, <2>10, <2>11
<1>2. PlacementInv /\ [PlacementNext]_placementVars => [Left]_placementVars
  BY <1>1
<1> QED BY <1>2, PlacementInvariant, PTL DEF PlacementSpec, LeftOnlyWhenNotActive
============================================================================

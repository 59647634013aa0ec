--------------------------- MODULE ArtifactStore ---------------------------
(***************************************************************************)
(* What the callers of the StorageBackend interface (internal/storage,     *)
(* storage.go) may rely on when a manager with two drivers is behind it: a *)
(* map from storage paths to contents whose calls take effect at one       *)
(* moment between their start and their answer, or not at all.             *)
(*                                                                         *)
(* Where the path is kept, seen when the call starts, decides how much is  *)
(* promised: on the primary driver everything, on the secondary one all    *)
(* but the deletion, on a driver the manager does not know nothing.        *)
(***************************************************************************)
CONSTANTS Callers, Paths, Contents,
          NoPath,    \* the path of a caller that is in no call
          None       \* the content of a path where nothing is

VARIABLES stored,    \* the content at each path
          request    \* the call each caller is in

storeVars == <<stored, request>>

Places == {"primary", "secondary", "unknown"}

Free == [op |-> "none", path |-> NoPath, data |-> None, place |-> "primary",
         status |-> "none", body |-> None]

Init ==
    /\ stored  = [p \in Paths |-> None]
    /\ request = [c \in Callers |-> Free]

(* What a call may ask for.                                                *)
Calls == [op : {"store", "open", "delete"}, path : Paths, data : Contents,
          place : Places, status : {"pending"}, body : {None}]

(* A store goes to the primary driver.                                     *)
Begin(c) ==
    /\ request[c].op = "none"
    /\ request'[c] \in Calls
    /\ request'[c].op = "store" => request'[c].place = "primary"
    /\ request' = [request EXCEPT ![c] = request'[c]]
    /\ UNCHANGED stored

Pending(c, op) == request[c].op = op /\ request[c].status = "pending"

Answer(c, status, body) ==
    request' = [request EXCEPT ![c] =
                  [op |-> @.op, path |-> @.path, data |-> @.data, place |-> @.place,
                   status |-> status, body |-> body]]

(* A store or a deletion that took effect may still answer with an error.  *)
Store(c) ==
    /\ Pending(c, "store")
    /\ stored' = [stored EXCEPT ![request[c].path] = request[c].data]
    /\ \E status \in {"ok", "error"} : Answer(c, status, None)

Open(c) ==
    /\ Pending(c, "open")
    /\ request[c].place # "unknown"
    /\ IF stored[request[c].path] = None THEN Answer(c, "notfound", None)
       ELSE Answer(c, "ok", stored[request[c].path])
    /\ UNCHANGED stored

OpenUnknown(c) ==
    /\ Pending(c, "open")
    /\ request[c].place = "unknown"
    /\ Answer(c, "notfound", None)
    /\ UNCHANGED stored

Delete(c) ==
    /\ Pending(c, "delete")
    /\ request[c].place # "unknown"
    /\ stored' = [stored EXCEPT ![request[c].path] = None]
    /\ \E status \in {"ok", "error"} : Answer(c, status, None)

(* Off the primary driver a deletion may answer ok and have done nothing.  *)
DeleteSkipped(c) ==
    /\ Pending(c, "delete")
    /\ request[c].place # "primary"
    /\ \E status \in {"ok", "error"} : Answer(c, status, None)
    /\ UNCHANGED stored

(* Until the caller has its answer, the call can end in an error.          *)
Fail(c) ==
    /\ request[c].op # "none"
    /\ Answer(c, "error", None)
    /\ UNCHANGED stored

Return(c) ==
    /\ request[c].status # "pending"
    /\ request' = [request EXCEPT ![c] = Free]
    /\ UNCHANGED stored

Restart ==
    /\ request' = [c \in Callers |-> Free]
    /\ UNCHANGED stored

Next ==
    \/ \E c \in Callers :
          \/ Return(c) \/ Fail(c) \/ Begin(c) \/ Store(c) \/ Open(c)
          \/ OpenUnknown(c) \/ Delete(c) \/ DeleteSkipped(c)
    \/ Restart

Spec == Init /\ [][Next]_storeVars
============================================================================

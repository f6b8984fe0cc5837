---------------------------- MODULE ProviderPhotos ----------------------------
(***************************************************************************)
(* The photo of a service provider: a key in the provider's row and a file *)
(* in a store that takes part in no transaction                            *)
(* (service-providers/provider-photo.service.ts and its storage).          *)
(*                                                                         *)
(* Each await of a handler is a step, and the outcome of each call that    *)
(* can fail is a choice, which failed records: "store" and "unlink" are    *)
(* calls of the file system, "row" is a transaction that rolls back,       *)
(* "commit" one that commits while its answer is lost.                     *)
(***************************************************************************)
EXTENDS FiniteSets

CONSTANTS
    Requests,  \* slots for uploads and removals being served
    Keys,      \* the keys randomUUID() draws for files
    None       \* SQL NULL

ASSUME NoneAssumption == None \notin Keys

VARIABLES
    key,        \* photoStorageKey of the provider's row
    files,      \* the keys of the files in the store
    drawn,      \* the keys drawn so far
    req,        \* what each upload or removal remembers
    failed,     \* history: what has gone wrong so far
    overlapped  \* history: whether two requests have ever been served at once

vars == <<key, files, drawn, req, failed, overlapped>>

Faults == {"store", "unlink", "row", "commit", "crash"}

NullableKeys == Keys \cup {None}

Idle == [step |-> "idle", op |-> "none", old |-> None, new |-> None]

Init ==
    /\ key = None
    /\ files = {}
    /\ drawn = {}
    /\ req = [r \in Requests |-> Idle]
    /\ failed = {}
    /\ overlapped = FALSE

-----------------------------------------------------------------------------
Remember(r, q) == req' = [req EXCEPT ![r] = q]
GoTo(r, step)  == req' = [req EXCEPT ![r].step = step]
Finish(r)      == req' = [req EXCEPT ![r] = Idle]
Fault(f)       == failed' = failed \cup {f}

\* replace and remove begin with the row's present key.
Find(r, op) ==
    /\ req[r] = Idle
    /\ Remember(r, [step |-> IF op = "replace" THEN "store" ELSE "write",
                    op |-> op, old |-> key, new |-> None])
    /\ UNCHANGED <<key, files, drawn, failed>>

\* Wrong on purpose: an upload may overwrite the file of the present key.
StoreOver(r, k) ==
    /\ req[r].step = "store"
    /\ k \notin drawn \/ k = req[r].old
    /\ drawn' = drawn \cup {k}
    /\ files' = files \cup {k}
    /\ Remember(r, [req[r] EXCEPT !.step = "write", !.new = k])
    /\ UNCHANGED <<key, failed>>

\* The upload gets a key of its own; a write that fails ends the request and
\* may leave a part of the file.
Store(r, k) ==
    /\ req[r].step = "store"
    /\ k \notin drawn
    /\ drawn' = drawn \cup {k}
    /\ \/ /\ files' = files \cup {k}
          /\ Remember(r, [req[r] EXCEPT !.step = "write", !.new = k])
          /\ UNCHANGED failed
       \/ /\ Fault("store")
          /\ Finish(r)
          /\ files' \in {files, files \cup {k}}
    /\ UNCHANGED key

\* What follows the transaction when it succeeds, and when it throws.
AfterWrite(q) == IF q.old = None THEN "done" ELSE "unlinkOld"

\* Wrong on purpose: a transaction that fails leaves the upload behind.
AfterErrorNothing(q) == IF q.op = "none" THEN "cleanUp" ELSE "done"

AfterError(q) == IF q.op = "replace" THEN "cleanUp" ELSE "done"

Continue(r, step) == IF step = "done" THEN Finish(r) ELSE GoTo(r, step)

\* The transaction that writes the row and its audit record.
Write(r) ==
    LET q == req[r] IN
    /\ q.step = "write"
    /\ \/ key' = q.new /\ Continue(r, AfterWrite(q)) /\ UNCHANGED failed
       \/ Fault("row") /\ UNCHANGED key /\ Continue(r, AfterError(q))
       \/ Fault("commit") /\ key' = q.new /\ Continue(r, AfterError(q))
    /\ UNCHANGED <<files, drawn>>

\* The old file is removed; one that is gone already is not an error.  In
\* replace any other error falls into the same catch as the transaction's.
UnlinkOld(r) ==
    LET q == req[r] IN
    /\ q.step = "unlinkOld"
    /\ \/ files' = files \ {q.old} /\ Finish(r) /\ UNCHANGED failed
       \/ Fault("unlink") /\ UNCHANGED files /\ Continue(r, AfterError(q))
    /\ UNCHANGED <<key, drawn>>

CleanUp(r) ==
    LET q == req[r] IN
    /\ q.step = "cleanUp"
    /\ \/ files' = files \ {q.new} /\ UNCHANGED failed
       \/ Fault("unlink") /\ UNCHANGED files
    /\ Finish(r)
    /\ UNCHANGED <<key, drawn>>

Crash(r) ==
    /\ req[r] # Idle
    /\ Fault("crash")
    /\ Finish(r)
    /\ UNCHANGED <<key, files, drawn>>

Handle(r) ==
    \/ \E k \in Keys : Store(r, k)
    \/ Write(r)
    \/ UnlinkOld(r)
    \/ CleanUp(r)

\* The history only watches; no step depends on it.
Watch ==
    overlapped' = (overlapped \/ \E r, s \in Requests : r # s /\ req'[r] # Idle /\ req'[s] # Idle)

Next ==
    /\ \E r \in Requests :
          \/ \E op \in {"replace", "remove"} : Find(r, op)
          \/ Handle(r)
          \/ Crash(r)
    /\ Watch

Spec == Init /\ [][Next]_vars

-----------------------------------------------------------------------------
Memories == [step : {"idle", "store", "write", "unlinkOld", "cleanUp"},
             op : {"none", "replace", "remove"}, old : NullableKeys, new : NullableKeys]

\* Files, row and requests name keys that were drawn, and the store is never
\* asked to remove NULL, which it would answer with an error.
TypeOK ==
    /\ drawn \subseteq Keys /\ files \subseteq drawn
    /\ key \in drawn \cup {None}
    /\ req \in [Requests -> Memories]
    /\ failed \subseteq Faults /\ overlapped \in BOOLEAN
    /\ \A r \in Requests :
          /\ {req[r].old, req[r].new} \subseteq drawn \cup {None}
          /\ req[r].step = "unlinkOld" => req[r].old # None
          /\ req[r].step = "cleanUp" => req[r].new # None

Named == key # None => key \in files

\* The row names a photo that is in the store: photoStorageKey is the "Storage
\* identifier for an uploaded provider photo" (docs/service-provider-domain.md:82).
\* A file that cannot be removed breaks it.
PhotoThere == "commit" \notin failed => Named

\* As long as every file could be removed, and no transaction that threw had
\* committed, the row never names a photo that is not in the store, whatever
\* uploads and removals interleave, fail or crash (provider-photo.service.ts:37-67).
Reliable == {"unlink", "commit"} \cap failed = {}

KeyHasFile == Reliable => Named

\* No other request removes the file of an upload that has not reached the
\* row yet (provider-photo.service.ts:62 and 94 remove what they read before).
UploadKept ==
    \A r \in Requests :
        req[r].step = "write" /\ req[r].op = "replace" => req[r].new \in files

\* As long as requests have been served one at a time, the store holds the
\* photo of the row and nothing else whenever no request is under way, even
\* after transactions that failed (provider-photo.service.ts:64-67).
NothingLeft ==
    ~ overlapped /\ failed \subseteq {"row"} /\ (\A r \in Requests : req[r] = Idle) =>
        files = {key} \ {None}
=============================================================================

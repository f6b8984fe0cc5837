------------------------ MODULE ProviderPhotos_proofs ------------------------
(***************************************************************************)
(* Proofs about ProviderPhotos, for every number of requests and keys.     *)
(***************************************************************************)
EXTENDS ProviderPhotos, TLAPS

-----------------------------------------------------------------------------
\* An upload that is stored and will never be, or is not yet, in the row.
Pending(q) == q.op = "replace" /\ q.step = "write"

\* Nobody but the upload itself knows the key of its file.
Private ==
    \A r \in Requests :
        /\ Pending(req[r]) =>
              /\ req[r].new # None /\ req[r].new \in files /\ req[r].new # key
              /\ \A o \in Requests : req[o].old # req[r].new
        /\ req[r].new # None => \A o \in Requests \ {r} : req[o].new # req[r].new

\* A request that has only begun has no file; an upload past that has one.
Begun ==
    \A r \in Requests :
        /\ req[r].step = "store" => req[r].op = "replace"
        /\ req[r].op # "replace" => req[r].new = None
        /\ req[r].step \in {"idle", "store"} => req[r].new = None
        /\ req[r].step = "unlinkOld" /\ req[r].op = "replace" => req[r].new # None

Inv == TypeOK /\ Private /\ Begun

\* What HistoriesTyped says of the step, for the lemmas on the actions.
Histories == failed' \subseteq Faults /\ overlapped' \in BOOLEAN

LEMMA IdleTyped == Idle \in Memories
  BY DEF Idle, Memories, NullableKeys

LEMMA InitInv == Init => Inv
  <1> SUFFICES ASSUME Init PROVE Inv
    OBVIOUS
  <1>1. TypeOK
    BY IdleTyped DEF Init, TypeOK, Idle
  <1>2. Private /\ Begun
    BY DEF Init, Private, Begun, Pending, Idle
  <1> QED
    BY <1>1, <1>2 DEF Inv

\* The histories keep their types in every step.
LEMMA HistoriesTyped ==
  ASSUME Inv, Next
  PROVE  Histories
  BY DEF Next, Watch, Handle, Find, Store, Write, UnlinkOld, CleanUp, Crash, Fault, Faults,
     Inv, TypeOK, Histories

LEMMA FindInv ==
  ASSUME Inv, Histories, NEW r \in Requests, NEW op \in {"replace", "remove"}, Find(r, op)
  PROVE  Inv'
  <1> DEFINE q == [step |-> IF op = "replace" THEN "store" ELSE "write",
                   op |-> op, old |-> key, new |-> None]
  <1>1. q \in Memories
    BY DEF Inv, TypeOK, Memories, NullableKeys
  <1>2. req' = [req EXCEPT ![r] = q]
    BY DEF Find, Remember
  <1>3. TypeOK'
    BY <1>1, <1>2 DEF Inv, TypeOK, Find, Histories
  <1>4. Private'
    BY <1>1, <1>2 DEF Inv, TypeOK, Private, Pending, Find
  <1>5. Begun'
    BY <1>1, <1>2 DEF Inv, TypeOK, Begun
  <1> QED
    BY <1>3, <1>4, <1>5 DEF Inv

\* A step that leaves the row alone and takes no file of another's upload.
LEMMA FinishInv ==
  ASSUME Inv, Histories, NEW r \in Requests, Finish(r), UNCHANGED key,
         drawn \subseteq drawn', drawn' \subseteq Keys, files' \subseteq drawn',
         \A o \in Requests \ {r} : Pending(req[o]) => req[o].new \in files'
  PROVE  Inv'
  <1>1. req' \in [Requests -> Memories] /\ req'[r] = Idle
        /\ \A o \in Requests \ {r} : req'[o] = req[o]
    BY IdleTyped DEF Inv, TypeOK, Finish
  <1>2. TypeOK'
    BY <1>1 DEF Inv, TypeOK, Idle, Histories
  <1>3. Private'
    BY <1>1 DEF Inv, Private, Pending, Idle
  <1>4. Begun'
    BY <1>1 DEF Inv, Begun, Idle
  <1> QED
    BY <1>2, <1>3, <1>4 DEF Inv

LEMMA StoreInv ==
  ASSUME Inv, Histories, NEW r \in Requests, NEW k \in Keys, Store(r, k)
  PROVE  Inv'
  <1>1. CASE Finish(r)
    BY <1>1, FinishInv DEF Store, Inv, TypeOK, Private
  <1>2. CASE files' = files \cup {k} /\ Remember(r, [req[r] EXCEPT !.step = "write", !.new = k])
    <2>1. /\ req[r] \in Memories /\ req[r].op = "replace"
          /\ req' \in [Requests -> Memories]
          /\ req'[r].step = "write" /\ req'[r].new = k
          /\ req'[r].op = "replace" /\ req'[r].old = req[r].old
          /\ \A o \in Requests \ {r} : req'[o] = req[o]
      BY <1>2 DEF Inv, TypeOK, Begun, Store, Remember, Memories, NullableKeys
    <2>2. /\ drawn' = drawn \cup {k} /\ k \notin drawn /\ key' = key
      BY DEF Store
    <2>3. TypeOK'
      BY <1>2, <2>1, <2>2 DEF Inv, TypeOK, Histories
    <2>4. /\ key # k /\ k # None
          /\ \A o \in Requests : req[o].old # k /\ req[o].new # k
      BY <2>2, NoneAssumption DEF Inv, TypeOK
    <2>5. Private'
      BY <1>2, <2>1, <2>2, <2>4 DEF Inv, Private, Pending
    <2>6. Begun'
      BY <2>1 DEF Inv, Begun
    <2> QED
      BY <2>3, <2>5, <2>6 DEF Inv
  <1> QED
    BY <1>1, <1>2 DEF Store

\* The row gets the request's own file, or none: never another's upload.
LEMMA WriteInv ==
  ASSUME Inv, Histories, NEW r \in Requests, Write(r)
  PROVE  Inv'
  <1> DEFINE q == req[r]
  <1> q \in Memories /\ q.step = "write"
    BY DEF Inv, TypeOK, Write
  <1>1. UNCHANGED <<files, drawn>> /\ key' \in {key, q.new}
    BY DEF Write
  <1>2. PICK step \in {"done", "unlinkOld", "cleanUp"} :
           /\ Continue(r, step)
           /\ step = "unlinkOld" => q.old # None
           /\ step = "cleanUp" => q.op = "replace"
    BY DEF Write, AfterWrite, AfterError
  <1>3. /\ req' \in [Requests -> Memories]
        /\ \A o \in Requests \ {r} : req'[o] = req[o]
        /\ \/ req'[r] = Idle
           \/ /\ req'[r].step = step /\ step # "done"
              /\ req'[r].op = q.op /\ req'[r].old = q.old /\ req'[r].new = q.new
    BY <1>2, IdleTyped DEF Inv, TypeOK, Continue, Finish, GoTo, Memories
  <1>4. q.op = "replace" => q.new # None
    BY DEF Inv, Private, Pending
  <1>5. TypeOK'
    BY <1>1, <1>2, <1>3, <1>4 DEF Inv, TypeOK, Idle, Histories
  <1>6. Private'
    <2>1. ASSUME NEW p \in Requests, Pending(req'[p])
          PROVE  /\ req'[p].new # None /\ req'[p].new \in files' /\ req'[p].new # key'
                 /\ \A o \in Requests : req'[o].old # req'[p].new
      <3>1. p # r /\ req'[p] = req[p]
        BY <1>2, <1>3, <2>1 DEF Pending, Idle
      <3>2. /\ req[p].new # None /\ req[p].new \in files /\ req[p].new # key
            /\ \A o \in Requests : req[o].old # req[p].new
            /\ \A o \in Requests \ {p} : req[o].new # req[p].new
        BY <2>1, <3>1 DEF Inv, Private
      <3> QED
        BY <1>1, <1>3, <3>1, <3>2 DEF Idle
    <2>2. ASSUME NEW p \in Requests, req'[p].new # None
          PROVE  \A o \in Requests \ {p} : req'[o].new # req'[p].new
      <3>1. req[p].new # None /\ req'[p].new = req[p].new
        BY <1>3, <2>2 DEF Idle
      <3>2. \A o \in Requests \ {p} : req[o].new # req[p].new
        BY <3>1 DEF Inv, Private
      <3> QED
        BY <1>3, <3>1, <3>2 DEF Idle
    <2> QED
      BY <2>1, <2>2 DEF Private, Pending
  <1>7. Begun'
    BY <1>2, <1>3, <1>4 DEF Inv, Begun, Idle
  <1> QED
    BY <1>5, <1>6, <1>7 DEF Inv

LEMMA UnlinkOldInv ==
  ASSUME Inv, Histories, NEW r \in Requests, UnlinkOld(r)
  PROVE  Inv'
  <1> DEFINE q == req[r]
  <1> q \in Memories /\ q.step = "unlinkOld"
    BY DEF Inv, TypeOK, UnlinkOld
  <1>1. CASE Finish(r)
    <2>1. files' \in {files, files \ {q.old}} /\ UNCHANGED <<key, drawn>>
      BY DEF UnlinkOld
    <2>2. \A o \in Requests : Pending(req[o]) => req[o].new \in files'
      BY <2>1 DEF Inv, Private
    <2> QED
      BY <1>1, <2>1, <2>2, FinishInv DEF Inv, TypeOK
  <1>2. CASE GoTo(r, "cleanUp") /\ q.op = "replace" /\ UNCHANGED files
    <2>1. /\ req' \in [Requests -> Memories]
          /\ req'[r].step = "cleanUp" /\ req'[r].op = q.op
          /\ req'[r].old = q.old /\ req'[r].new = q.new
          /\ \A o \in Requests \ {r} : req'[o] = req[o]
      BY <1>2 DEF Inv, TypeOK, GoTo, Memories
    <2>2. UNCHANGED <<key, drawn>>
      BY DEF UnlinkOld
    <2> QED
      BY <1>2, <2>1, <2>2 DEF Inv, TypeOK, Private, Pending, Begun, Histories
  <1> QED
    BY <1>1, <1>2 DEF UnlinkOld, Continue, AfterError

LEMMA CleanUpInv ==
  ASSUME Inv, Histories, NEW r \in Requests, CleanUp(r)
  PROVE  Inv'
  <1>1. /\ files' \in {files, files \ {req[r].new}} /\ UNCHANGED <<key, drawn>> /\ Finish(r)
        /\ req[r].new # None
    BY DEF CleanUp, Inv, TypeOK
  <1>2. \A o \in Requests \ {r} : Pending(req[o]) => req[o].new \in files'
    BY <1>1 DEF Inv, Private
  <1> QED
    BY <1>1, <1>2, FinishInv DEF Inv, TypeOK

LEMMA CrashInv ==
  ASSUME Inv, Histories, NEW r \in Requests, Crash(r)
  PROVE  Inv'
  BY FinishInv DEF Crash, Inv, TypeOK, Private

LEMMA NextInv == Inv /\ [Next]_vars => Inv'
  <1>1. ASSUME Inv, Histories, NEW r \in Requests, Handle(r) PROVE Inv'
    BY <1>1, StoreInv, WriteInv, UnlinkOldInv, CleanUpInv DEF Handle
  <1>2. ASSUME Inv, UNCHANGED vars PROVE Inv'
    BY <1>2 DEF vars, Inv, TypeOK, Private, Pending, Begun
  <1> QED
    BY <1>1, <1>2, FindInv, CrashInv, HistoriesTyped DEF Next

LEMMA Invariance == Spec => []Inv
  BY InitInv, NextInv, PTL DEF Spec

\* The row, the store and the requests stay well-formed, and the store is
\* never asked to remove NULL.
THEOREM TypeCorrect == Spec => []TypeOK
  BY Invariance, PTL DEF Inv

LEMMA InvKeeps == Inv => UploadKept
  BY DEF Inv, Private, Pending, UploadKept

\* Whatever fails, an upload on its way to the row keeps its file.
THEOREM UploadKeptHolds == Spec => []UploadKept
  BY Invariance, InvKeeps, PTL

-----------------------------------------------------------------------------
(* When files can be removed and what throws has not committed.            *)
\* What is about to be removed is not the photo of the row.
KeySafe ==
    /\ Named
    /\ \A r \in Requests :
          /\ req[r].step = "unlinkOld" => req[r].old # key
          /\ req[r].step = "cleanUp" => req[r].new # key

KeyInv == Reliable => KeySafe

\* What has gone wrong stays on record.
LEMMA ReliableBefore ==
  ASSUME Next, Reliable'
  PROVE  Reliable
  BY DEF Next, Handle, Find, Store, Write, UnlinkOld, CleanUp, Crash, Fault, Reliable

LEMMA InitKeyInv == Init => KeyInv
  BY DEF Init, KeyInv, KeySafe, Named, Idle

LEMMA WriteKeyInv ==
  ASSUME Reliable', Inv, KeySafe, NEW r \in Requests, Write(r)
  PROVE  KeySafe'
  <1> DEFINE q == req[r]
  <1> q \in Memories /\ q.step = "write" /\ req \in [Requests -> Memories]
    BY DEF Inv, TypeOK, Write
  <1>1. \A o \in Requests \ {r} : req'[o] = req[o]
    BY DEF Write, Continue, Finish, GoTo
  <1>2. q.op = "replace" => /\ q.new # None /\ q.new \in files /\ q.new # key
                            /\ \A o \in Requests : req[o].old # q.new
    BY DEF Inv, Private, Pending
  <1>3. q.op # "replace" => q.new = None
    BY DEF Inv, Begun
  <1>4. CASE key' = q.new /\ Continue(r, AfterWrite(q))
    <2>1. req'[r] = Idle \/ (req'[r].step = "unlinkOld" /\ req'[r].old = q.old)
      BY <1>4 DEF AfterWrite, Continue, Finish, GoTo, Memories
    <2>2. Named'
      BY <1>2, <1>3, <1>4 DEF Write, Named
    <2>3. req'[r].step = "unlinkOld" => req'[r].old # key'
      <3>1. CASE q.op = "replace"
        BY <1>2, <1>4, <2>1, <3>1 DEF Idle
      <3>2. CASE q.op # "replace"
        <4>1. q.old = None => req'[r] = Idle
          BY <1>4 DEF AfterWrite, Continue, Finish
        <4> QED
          BY <1>3, <1>4, <2>1, <3>2, <4>1 DEF Idle
      <3> QED
        BY <3>1, <3>2
    <2>4. req'[r].step # "cleanUp"
      BY <2>1 DEF Idle
    <2>5. ASSUME NEW o \in Requests \ {r}
          PROVE  /\ req'[o].step = "unlinkOld" => req'[o].old # key'
                 /\ req'[o].step = "cleanUp" => req'[o].new # key'
      <3>1. /\ req[o].step = "unlinkOld" => req[o].old # None
            /\ req[o].step = "cleanUp" => req[o].new # None
        BY DEF Inv, TypeOK
      <3>2. q.new # None => req[o].new # q.new
        BY DEF Inv, Private
      <3> QED
        BY <1>1, <1>2, <1>3, <1>4, <3>1, <3>2
    <2> QED
      BY <2>2, <2>3, <2>4, <2>5 DEF KeySafe
  <1>5. CASE UNCHANGED key /\ Continue(r, AfterError(q))
    <2>1. req'[r] = Idle \/ (q.op = "replace" /\ req'[r].step = "cleanUp" /\ req'[r].new = q.new)
      BY <1>5 DEF AfterError, Continue, Finish, GoTo, Memories
    <2> QED
      BY <1>1, <1>2, <1>5, <2>1 DEF KeySafe, Named, Write, Idle
  <1> QED
    BY <1>4, <1>5 DEF Write, Reliable, Fault

LEMMA NextKeyInv == Inv /\ KeyInv /\ [Next]_vars => KeyInv'
  <1>0. CASE UNCHANGED vars
    BY <1>0 DEF vars, KeyInv, Reliable, KeySafe, Named
  <1> SUFFICES ASSUME Reliable', Inv, KeySafe, Next PROVE KeySafe'
    BY <1>0, ReliableBefore DEF KeyInv
  <1> req \in [Requests -> Memories]
    BY DEF Inv, TypeOK
  <1>1. ASSUME NEW r \in Requests, NEW op \in {"replace", "remove"}, Find(r, op) PROVE KeySafe'
    BY <1>1 DEF Find, Remember, KeySafe, Named
  <1>2. ASSUME NEW r \in Requests, NEW k \in Keys, Store(r, k) PROVE KeySafe'
    <2>0. req[r] \in Memories /\ [req[r] EXCEPT !.step = "write", !.new = k].step = "write"
      BY DEF Memories
    <2>1. \A o \in Requests : req'[o] = req[o] \/ req'[o].step \in {"idle", "write"}
      <3>1. CASE Finish(r)
        BY <3>1 DEF Finish, Idle
      <3>2. CASE Remember(r, [req[r] EXCEPT !.step = "write", !.new = k])
        BY <2>0, <3>2 DEF Remember
      <3> QED
        BY <1>2, <3>1, <3>2 DEF Store
    <2>2. key' = key /\ files \subseteq files'
      BY <1>2 DEF Store
    <2> QED
      BY <2>1, <2>2 DEF KeySafe, Named
  <1>3. ASSUME NEW r \in Requests, UnlinkOld(r) PROVE KeySafe'
    BY <1>3 DEF UnlinkOld, Fault, Reliable, Finish, Idle, KeySafe, Named
  <1>4. ASSUME NEW r \in Requests, CleanUp(r) PROVE KeySafe'
    BY <1>4 DEF CleanUp, Finish, Idle, KeySafe, Named
  <1>5. ASSUME NEW r \in Requests, Crash(r) PROVE KeySafe'
    BY <1>5 DEF Crash, Finish, Idle, KeySafe, Named
  <1> QED
    BY <1>1, <1>2, <1>3, <1>4, <1>5, WriteKeyInv DEF Next, Handle

\* As long as files could be removed and no transaction that threw had
\* committed, the row never names a photo that is gone: uploads and removals
\* may interleave, fail and crash as they like (provider-photo.service.ts:37-67).
THEOREM KeyHasFileHolds == Spec => []KeyHasFile
  <1>1. KeyInv => KeyHasFile
    BY DEF KeyInv, KeySafe, KeyHasFile
  <1> QED
    BY Invariance, InitKeyInv, NextKeyInv, <1>1, PTL DEF Spec

-----------------------------------------------------------------------------
(* When requests are served one at a time and only transactions fail.      *)
Quiet == ~ overlapped /\ failed \subseteq {"row"}

Alone == \A r, s \in Requests : r # s => req[r] = Idle \/ req[s] = Idle

\* A request that has not written the row has read what it still holds.
Fresh == \A r \in Requests : req[r].step \in {"store", "write"} => req[r].old = key

\* The file besides the row's that a request is about to name or to remove.
Surplus(q) ==
    IF q.step = "unlinkOld" THEN q.old
    ELSE IF q.step \in {"write", "cleanUp"} THEN q.new ELSE None

\* Each file is the row's or some request's, and the row's is there.
Accounted ==
    \A k \in Keys : k \in files <=> k = key \/ \E r \in Requests : k = Surplus(req[r])

Settled == Alone /\ Fresh /\ Accounted

SettledInv == Quiet => Settled

\* What has gone wrong, or overlapped, stays on record.
LEMMA QuietBefore ==
  ASSUME Next, Quiet'
  PROVE  Quiet
  BY DEF Next, Watch, Handle, Find, Store, Write, UnlinkOld, CleanUp, Crash, Fault, Quiet

LEMMA AloneAfter ==
  ASSUME Next, Quiet'
  PROVE  Alone'
  BY DEF Next, Watch, Quiet, Alone

LEMMA InitSettled == Init => SettledInv
  BY NoneAssumption DEF Init, SettledInv, Settled, Alone, Fresh, Accounted, Surplus, Idle

LEMMA QuietKeySafe == KeyInv /\ Quiet => KeySafe
  BY DEF KeyInv, Quiet, Reliable

\* A request that is served leaves the others idle, so what accounts for the
\* files is the row and that request.
LEMMA AccountedBy ==
  ASSUME Settled, NEW r \in Requests, req[r] # Idle
  PROVE  /\ \A o \in Requests \ {r} : req[o] = Idle
         /\ \A k \in Keys : k \in files <=> k = key \/ k = Surplus(req[r])
  <1>1. \A o \in Requests \ {r} : req[o] = Idle
    BY DEF Settled, Alone
  <1>2. Surplus(Idle) \notin Keys
    BY NoneAssumption DEF Surplus, Idle
  <1> QED
    BY <1>1, <1>2 DEF Settled, Accounted

\* Conversely, for the state that a step of r leads to.
LEMMA SettledAfter ==
  ASSUME Alone', NEW r \in Requests,
         \A o \in Requests \ {r} : req'[o] = Idle,
         (req'[r].step \in {"store", "write"} => req'[r].old = key'),
         \A k \in Keys : k \in files' <=> k = key' \/ k = Surplus(req'[r])
  PROVE  Settled'
  <1>1. Fresh'
    BY DEF Fresh, Idle
  <1>2. Surplus(Idle) \notin Keys
    BY NoneAssumption DEF Surplus, Idle
  <1>3. Accounted'
    <2> SUFFICES ASSUME NEW k \in Keys
                 PROVE  k \in files' <=> k = key' \/ \E o \in Requests : k = Surplus(req'[o])
      BY DEF Accounted, Surplus
    <2> QED
      BY <1>2
  <1> QED
    BY <1>1, <1>3 DEF Settled

LEMMA FindSettled ==
  ASSUME Inv, Settled, Alone', NEW r \in Requests, NEW op \in {"replace", "remove"}, Find(r, op)
  PROVE  Settled'
  <1>1. /\ req \in [Requests -> Memories] /\ req[r] = Idle
        /\ UNCHANGED <<key, files>>
        /\ req'[r].step \in {"store", "write"}
        /\ req'[r].old = key /\ req'[r].new = None
        /\ \A o \in Requests \ {r} : req'[o] = req[o]
    BY DEF Inv, TypeOK, Find, Remember
  <1>2. Surplus(req'[r]) = None /\ Surplus(req[r]) = None
    BY <1>1 DEF Surplus, Idle
  <1>3. Fresh'
    BY <1>1 DEF Settled, Fresh
  <1>4. Accounted'
    BY <1>1, <1>2, NoneAssumption DEF Settled, Accounted, Surplus
  <1> QED
    BY <1>3, <1>4 DEF Settled

LEMMA StoreSettled ==
  ASSUME Inv, Settled, Alone', NEW r \in Requests, NEW k \in Keys, Store(r, k), Quiet'
  PROVE  Settled'
  <1> req[r] \in Memories /\ req[r].step = "store" /\ req[r] # Idle
    BY DEF Inv, TypeOK, Store, Idle
  <1>1. /\ files' = files \cup {k} /\ key' = key
        /\ Remember(r, [req[r] EXCEPT !.step = "write", !.new = k])
    BY DEF Store, Fault, Quiet
  <1>2. /\ req'[r].step = "write" /\ req'[r].new = k /\ req'[r].old = req[r].old
        /\ \A o \in Requests \ {r} : req'[o] = req[o]
    BY <1>1 DEF Inv, TypeOK, Remember, Memories
  <1>3. Surplus(req[r]) = None /\ Surplus(req'[r]) = k
    BY <1>2 DEF Surplus
  <1>4. req[r].old = key
    BY DEF Settled, Fresh
  <1>5. \A h \in Keys : h \in files' <=> h = key' \/ h = Surplus(req'[r])
    BY <1>1, <1>3, AccountedBy, NoneAssumption
  <1> QED
    BY <1>1, <1>2, <1>4, <1>5, AccountedBy, SettledAfter

\* A transaction that commits makes the old file the surplus one, and one
\* that rolls back the new one.
LEMMA WriteSettled ==
  ASSUME Inv, Settled, Alone', NEW r \in Requests, Write(r), Quiet'
  PROVE  Settled'
  <1> DEFINE q == req[r]
  <1> q \in Memories /\ q.step = "write" /\ req \in [Requests -> Memories] /\ q # Idle
    BY DEF Inv, TypeOK, Write, Idle
  <1>0. /\ q.old = key /\ files' = files /\ Surplus(q) = q.new
        /\ q.op # "replace" => q.new = None
    BY DEF Settled, Fresh, Write, Surplus, Inv, Begun
  <1>1. \A k \in Keys : k \in files <=> k = q.old \/ k = q.new
    BY <1>0, AccountedBy
  <1>2. \A o \in Requests \ {r} : req'[o] = Idle
    BY AccountedBy DEF Write, Continue, Finish, GoTo
  <1>3. CASE key' = q.new /\ Continue(r, AfterWrite(q))
    <2>1. \/ q.old = None /\ req'[r] = Idle
          \/ req'[r].step = "unlinkOld" /\ req'[r].old = q.old
      BY <1>3 DEF AfterWrite, Continue, Finish, GoTo, Memories
    <2>2. /\ Surplus(req'[r]) = q.old
          /\ req'[r].step \notin {"store", "write"}
      BY <2>1 DEF Surplus, Idle
    <2> QED
      BY <1>0, <1>1, <1>2, <1>3, <2>2, SettledAfter
  <1>4. CASE UNCHANGED key /\ Continue(r, AfterError(q))
    <2>1. \/ q.new = None /\ req'[r] = Idle
          \/ req'[r].step = "cleanUp" /\ req'[r].new = q.new
      BY <1>0, <1>4 DEF AfterError, Continue, Finish, GoTo, Memories
    <2>2. /\ Surplus(req'[r]) = q.new
          /\ req'[r].step \notin {"store", "write"}
      BY <2>1 DEF Surplus, Idle
    <2> QED
      BY <1>0, <1>1, <1>2, <1>4, <2>2, SettledAfter
  <1> QED
    BY <1>3, <1>4 DEF Write, Fault, Quiet

\* Either removal takes the surplus file, which is not the row's.
LEMMA RemovalSettled ==
  ASSUME Inv, KeySafe, Settled, Alone', NEW r \in Requests, UnlinkOld(r) \/ CleanUp(r), Quiet'
  PROVE  Settled'
  <1>0. req \in [Requests -> Memories] /\ req[r] # Idle
    BY DEF Inv, TypeOK, UnlinkOld, CleanUp, Idle
  <1>1. /\ Finish(r) /\ key' = key
        /\ files' = files \ {Surplus(req[r])} /\ Surplus(req[r]) # key
    BY DEF UnlinkOld, CleanUp, Fault, Quiet, Surplus, KeySafe
  <1>2. req'[r] = Idle /\ \A o \in Requests \ {r} : req'[o] = req[o]
    BY <1>0, <1>1 DEF Finish
  <1>3. Surplus(req'[r]) = None /\ req'[r].step \notin {"store", "write"}
    BY <1>2 DEF Surplus, Idle
  <1> QED
    BY <1>0, <1>1, <1>2, <1>3, AccountedBy, SettledAfter, NoneAssumption

LEMMA NextSettled == Inv /\ KeyInv /\ SettledInv /\ [Next]_vars => SettledInv'
  <1>1. CASE UNCHANGED vars
    BY <1>1 DEF vars, SettledInv, Quiet, Settled, Alone, Fresh, Accounted, Surplus
  <1> SUFFICES ASSUME Quiet', Inv, KeySafe, Settled, Alone', Next PROVE Settled'
    BY <1>1, QuietBefore, AloneAfter, QuietKeySafe DEF SettledInv
  <1>2. ASSUME NEW r \in Requests PROVE ~ Crash(r)
    BY DEF Crash, Fault, Quiet
  <1> QED
    BY <1>2, FindSettled, StoreSettled, WriteSettled, RemovalSettled DEF Next, Handle

\* One request after another leaves the photo of the row in the store and no
\* other file, also when transactions roll back: what is stored for a row that
\* is not written, and what the row named before, is removed again
\* (provider-photo.service.ts:60-67).
THEOREM NothingLeftHolds == Spec => []NothingLeft
  <1>1. Inv /\ KeyInv /\ SettledInv => NothingLeft
    <2> SUFFICES ASSUME Inv, Settled, \A r \in Requests : req[r] = Idle
                 PROVE  files = {key} \ {None}
      BY DEF SettledInv, Quiet, NothingLeft
    <2>1. \A r \in Requests : Surplus(req[r]) = None
      BY DEF Surplus, Idle
    <2>2. \A k \in Keys : k \in files <=> k = key
      BY <2>1, NoneAssumption DEF Settled, Accounted
    <2> QED
      BY <2>2, NoneAssumption DEF Inv, TypeOK
  <1> QED
    BY Invariance, InitKeyInv, NextKeyInv, InitSettled, NextSettled, <1>1, PTL DEF Spec
=============================================================================

--------------------------- MODULE Sessions_proofs ---------------------------
(***************************************************************************)
(* Proofs about Sessions, for every number of requests, users, tenants and *)
(* identifiers, and with crashes.                                          *)
(***************************************************************************)
EXTENDS Sessions, TLAPS

-----------------------------------------------------------------------------
(* The inductive invariant.                                                *)

\* What a request knows by the time it stores a session: a login has drawn
\* its identifiers, a refresh remembers the row it read as that row still is.
Informed(q) ==
    /\ q.step = "read" => q.session \in Sessions
    /\ q.step \in {"create", "rotate"} =>
          q.fresh \in Sessions /\ q.family \in Families /\ q.user \in Users
    /\ q.step \in {"resolve", "rotate"} =>
          /\ q.session \in Sessions /\ Present(q.session)
          /\ session[q.session].family = q.family
          /\ session[q.session].user = q.user
          /\ session[q.session].tenant = q.tenant

\* No session has been stored under what a request has drawn.
Unstored(q) ==
    /\ q.fresh # None => ~ Present(q.fresh)
    /\ q.step = "create" => \A s \in Sessions : session[s].family # q.family

\* No two requests have drawn the same.
Apart(p, q) ==
    /\ p.fresh # None => p.fresh # q.fresh
    /\ p.step = "create" /\ q.step = "create" => p.family # q.family

Requested ==
    /\ \A r \in Requests : Informed(req[r]) /\ Unstored(req[r])
    /\ \A r1, r2 \in Requests : r1 # r2 => Apart(req[r1], req[r2])

Inv == RowsTyped /\ Requested /\ OneLive /\ Lineage

LEMMA IdleRemembers == Idle \in Memories /\ Informed(Idle) /\ Unstored(Idle)
  BY DEF Idle, Memories, Ops, Steps, Scopes, Informed, Unstored

LEMMA InitInv == Init => Inv
  <1> SUFFICES ASSUME Init PROVE Inv
    OBVIOUS
  <1>1. NoSession \in SessionRows
    BY DEF NoSession, SessionRows, Scopes
  <1>2. RowsTyped
    BY <1>1, IdleRemembers DEF Init, RowsTyped, Present, NoSession
  <1>3. Requested
    BY IdleRemembers DEF Init, Requested, Idle, Apart
  <1>4. OneLive /\ Lineage
    BY DEF Init, OneLive, Lineage, Live, NoSession
  <1> QED
    BY <1>2, <1>3, <1>4 DEF Inv

-----------------------------------------------------------------------------
(* Steps that write no session.                                            *)

AccountsTyped == member' \subseteq Users \X Tenants /\ open' \subseteq Tenants

\* A request may come to remember q when q is informed and draws what nobody
\* else has drawn.
LEMMA RememberInv ==
  ASSUME Inv, AccountsTyped, UNCHANGED session, NEW r \in Requests, NEW q \in Memories,
         Informed(q), Unstored(q), Remember(r, q),
         \A o \in Requests \ {r} : Apart(q, req[o]) /\ Apart(req[o], q)
  PROVE  Inv'
  <1>1. RowsTyped'
    BY DEF Inv, RowsTyped, AccountsTyped, Remember, Present
  <1>2. Requested'
    BY DEF Inv, RowsTyped, Requested, Remember, Informed, Unstored, Present, Apart
  <1>3. OneLive' /\ Lineage'
    BY DEF Inv, OneLive, Lineage, Live, Present
  <1> QED
    BY <1>1, <1>2, <1>3 DEF Inv

\* In particular it may go on with what it has drawn already.
LEMMA GoOnInv ==
  ASSUME Inv, UNCHANGED <<session, member, open>>, NEW r \in Requests, NEW q \in Memories,
         Informed(q), Remember(r, q), q.step # "create", q.fresh \in {None, req[r].fresh}
  PROVE  Inv'
  <1>1. AccountsTyped
    BY DEF Inv, RowsTyped, AccountsTyped
  <1>2. Unstored(q)
    BY DEF Inv, Requested, Unstored, Present
  <1>3. \A o \in Requests \ {r} : Apart(q, req[o]) /\ Apart(req[o], q)
    BY DEF Inv, Requested, Apart
  <1> QED
    BY <1>1, <1>2, <1>3, RememberInv

\* Sessions that only end: some live ones are revoked, some expire.
Dims ==
    \A s \in Sessions :
        /\ session'[s] \in SessionRows
        /\ session'[s].family = session[s].family
        /\ session'[s].user = session[s].user
        /\ session'[s].tenant = session[s].tenant
        /\ session'[s].next = session[s].next
        /\ \/ session'[s].state = session[s].state
           \/ Live(s) /\ session'[s].state = "revoked"
        /\ ~ Present(s) => session'[s] = session[s]

LEMMA DimInv ==
  ASSUME Inv, UNCHANGED <<member, open>>, DOMAIN session' = Sessions,
         session' \in [Sessions -> SessionRows], Dims,
         UNCHANGED req \/ \E r \in Requests : Finish(r)
  PROVE  Inv'
  <1>1. \A s \in Sessions : (Present(s))' <=> Present(s)
    BY DEF Dims, Present, Live
  <1>2. req' \in [Requests -> Memories]
    BY IdleRemembers DEF Inv, RowsTyped, Finish
  <1>3. RowsTyped'
    BY <1>1, <1>2 DEF Inv, RowsTyped, Dims, Present, Live
  <1>4. Requested'
    <2>1. \A o \in Requests : req'[o] = req[o] \/ req'[o] = Idle
      BY DEF Finish, Inv, RowsTyped
    <2>2. ASSUME NEW o \in Requests PROVE (Informed(req[o]))'
      BY <1>1, <2>1 DEF Inv, Requested, Informed, Dims, Idle, Present
    <2>3. ASSUME NEW o \in Requests PROVE (Unstored(req[o]))'
      <3>1. req[o] \in Memories
        BY DEF Inv, RowsTyped
      <3> QED
        BY <3>1, <1>1, <2>1, ConstantsAssumption
        DEF Inv, Requested, Unstored, Dims, Idle, Present, Memories
    <2>4. \A r1, r2 \in Requests : r1 # r2 => Apart(req[r1], req[r2])'
      BY <2>1, ConstantsAssumption DEF Inv, RowsTyped, Requested, Apart, Idle, Memories
    <2> QED
      BY <2>2, <2>3, <2>4 DEF Requested
  <1>5. OneLive'
    BY DEF Inv, OneLive, Dims, Live
  <1>6. Lineage'
    BY <1>1, ConstantsAssumption DEF Inv, RowsTyped, SessionRows, Lineage, Dims, Live
  <1> QED
    BY <1>3, <1>4, <1>5, <1>6 DEF Inv

-----------------------------------------------------------------------------
(* The two steps that store a session.                                     *)

\* s comes after what the request r has drawn; every other session is as it
\* was, or is the revoked predecessor of the one that r stores.
Stores(r) ==
    /\ session' \in [Sessions -> SessionRows]
    /\ session'[req[r].fresh] = NewSession(req[r])
    /\ \A s \in Sessions \ {req[r].fresh} :
          /\ Present(s) <=> session'[s].state # "absent"
          /\ ~ Present(s) => session'[s] = session[s]
          /\ session'[s].family = session[s].family
          /\ session'[s].user = session[s].user
          /\ session'[s].tenant = session[s].tenant
    /\ Finish(r)

LEMMA StoreRequests ==
  ASSUME Inv, NEW r \in Requests, req[r].step \in {"create", "rotate"}, Stores(r),
         UNCHANGED <<member, open>>
  PROVE  RowsTyped' /\ Requested'
  <1> DEFINE q == req[r]
  <1>1. /\ q \in Memories /\ q.fresh \in Sessions /\ ~ Present(q.fresh)
        /\ q.family \in Families /\ q.user \in Users
    BY ConstantsAssumption DEF Inv, RowsTyped, Requested, Informed, Unstored
  <1>2. req' \in [Requests -> Memories]
    BY IdleRemembers DEF Inv, RowsTyped, Stores, Finish
  <1>3. RowsTyped'
    <2> SUFFICES ASSUME NEW s \in Sessions
                 PROVE  IF session'[s].state # "absent"
                        THEN session'[s].family # None /\ session'[s].user # None
                        ELSE session'[s] = NoSession
      BY <1>2 DEF Inv, RowsTyped, Stores, Present
    <2>1. CASE s = q.fresh
      BY <1>1, <2>1, ConstantsAssumption DEF Stores, NewSession
    <2>2. CASE s # q.fresh
      BY <2>2 DEF Inv, RowsTyped, Stores, Present
    <2> QED
      BY <2>1, <2>2
  <1>4. \A o \in Requests : req'[o] = req[o] \/ req'[o] = Idle
    BY DEF Stores, Finish, Inv, RowsTyped
  <1>5. req'[r] = Idle
    BY DEF Stores, Finish, Inv, RowsTyped
  <1>6. ASSUME NEW o \in Requests PROVE (Informed(req[o]))'
    <2>1. CASE req'[o] = Idle
      BY <2>1 DEF Informed, Idle
    <2>2. CASE req'[o] = req[o] /\ req[o].step \in {"resolve", "rotate"}
      <3>1. /\ req[o].session \in Sessions /\ Present(req[o].session)
            /\ req[o].session # q.fresh
        BY <1>1, <2>2 DEF Inv, Requested, Informed
      <3> QED
        BY <2>2, <3>1 DEF Inv, Requested, Informed, Stores, Present
    <2>3. CASE req'[o] = req[o] /\ req[o].step \notin {"resolve", "rotate"}
      BY <2>3 DEF Inv, Requested, Informed
    <2> QED
      BY <1>4, <2>1, <2>2, <2>3
  <1>7. ASSUME NEW o \in Requests PROVE (Unstored(req[o]))'
    <2>1. CASE req'[o] = Idle
      BY <2>1 DEF Unstored, Idle
    <2>2. CASE req'[o] # Idle
      <3>1. o # r /\ req'[o] = req[o] /\ req[o] \in Memories
        BY <1>4, <1>5, <2>2 DEF Inv, RowsTyped
      <3>2. Unstored(req[o]) /\ Apart(req[o], q) /\ Apart(q, req[o])
        BY <3>1 DEF Inv, Requested
      <3>3. req[o].fresh # None => req[o].fresh \in Sessions \ {q.fresh}
        BY <3>1, <3>2 DEF Apart, Memories
      <3>4. req[o].step = "create" => q.family # req[o].family
        <4>1. CASE q.step = "create"
          BY <3>2, <4>1 DEF Apart
        <4>2. CASE q.step = "rotate"
          BY <3>2, <4>2 DEF Unstored, Inv, Requested, Informed
        <4> QED
          BY <4>1, <4>2
      <3>5. ASSUME req[o].step = "create", NEW s \in Sessions
            PROVE  session'[s].family # req[o].family
        BY <3>2, <3>4, <3>5 DEF Unstored, Stores, NewSession
      <3> QED
        BY <3>1, <3>2, <3>3, <3>5 DEF Unstored, Stores, Present
    <2> QED
      BY <2>1, <2>2
  <1>8. \A r1, r2 \in Requests : r1 # r2 => Apart(req[r1], req[r2])'
    BY <1>4, ConstantsAssumption DEF Inv, RowsTyped, Requested, Apart, Idle, Memories
  <1> QED
    BY <1>3, <1>6, <1>7, <1>8 DEF Requested

LEMMA CreateSessionStores ==
  ASSUME Inv, NEW r \in Requests, CreateSession(r)
  PROVE  Stores(r)
  <1> DEFINE q == req[r]
  <1>1. /\ q \in Memories /\ q.fresh \in Sessions
        /\ q.family \in Families /\ q.user \in Users
    BY DEF Inv, RowsTyped, Requested, Informed, CreateSession
  <1>2. NewSession(q) \in SessionRows
    BY <1>1 DEF NewSession, SessionRows, Memories
  <1> QED
    BY <1>1, <1>2 DEF Inv, RowsTyped, CreateSession, Stores, Present

\* A login opens a family that no session is in.
LEMMA CreateSessionInv ==
  ASSUME Inv, NEW r \in Requests, CreateSession(r)
  PROVE  Inv'
  <1> DEFINE q == req[r]
  <1>1. Stores(r)
    BY CreateSessionStores
  <1>2. RowsTyped' /\ Requested'
    BY <1>1, StoreRequests DEF CreateSession, Accounts
  <1>3. /\ q.fresh \in Sessions /\ ~ Present(q.fresh) /\ q.family \in Families
        /\ \A s \in Sessions : session[s].family # q.family
        /\ session \in [Sessions -> SessionRows]
        /\ \A s \in Sessions : session[s].next # q.fresh
    BY ConstantsAssumption DEF Inv, RowsTyped, Requested, Informed, Unstored, CreateSession, Lineage
  <1>4. \A s \in Sessions : session'[s] = IF s = q.fresh THEN NewSession(q) ELSE session[s]
    BY <1>3 DEF CreateSession
  <1>5. OneLive'
    BY <1>3, <1>4 DEF Inv, OneLive, Live, NewSession
  <1>6. Lineage'
    <2> SUFFICES ASSUME NEW s \in Sessions, session'[s].next # None
                 PROVE  LET t == session'[s].next IN
                        /\ session'[s].state = "revoked"
                        /\ session'[t].state # "absent" /\ t # s
                        /\ session'[t].family = session'[s].family
                        /\ session'[t].user = session'[s].user
                        /\ session'[t].tenant = session'[s].tenant
                        /\ \A p \in Sessions : session'[p].next = t => p = s
      BY DEF Lineage, Present
    <2>1. s # q.fresh /\ session'[s] = session[s]
      BY <1>4 DEF NewSession
    <2>2. session[s].next \in Sessions \ {q.fresh}
      BY <1>3, <2>1 DEF SessionRows
    <2> QED
      BY <1>4, <2>1, <2>2 DEF Inv, Lineage, Present, NewSession
  <1> QED
    BY <1>2, <1>5, <1>6 DEF Inv

\* The rotation that goes through: its first disjunct.
Replaces(r) ==
    LET q == req[r] IN
    /\ q.step = "rotate"
    /\ Live(q.session)
    /\ session' = [session EXCEPT ![q.session].state = "revoked",
                                  ![q.session].next = q.fresh,
                                  ![q.fresh] = NewSession(q)]
    /\ Finish(r)
    /\ UNCHANGED Accounts

\* The rows after a rotation.
LEMMA ReplacesRows ==
  ASSUME Inv, NEW r \in Requests, Replaces(r)
  PROVE  LET q == req[r] IN
         /\ q \in Memories /\ q.fresh \in Sessions /\ q.session \in Sessions
         /\ q.family \in Families /\ q.user \in Users
         /\ ~ Present(q.fresh) /\ Live(q.session) /\ q.session # q.fresh
         /\ session[q.session].family = q.family
         /\ session[q.session].user = q.user
         /\ session[q.session].tenant = q.tenant
         /\ session[q.session].next = None
         /\ session' \in [Sessions -> SessionRows]
         /\ session'[q.fresh] = NewSession(q)
         /\ session'[q.session] = [session[q.session] EXCEPT !.state = "revoked",
                                                             !.next = q.fresh]
         /\ \A s \in Sessions \ {q.fresh, q.session} : session'[s] = session[s]
  <1> DEFINE q == req[r]
  <1>1. /\ q \in Memories /\ q.fresh \in Sessions /\ q.session \in Sessions
        /\ q.family \in Families /\ q.user \in Users
        /\ ~ Present(q.fresh) /\ Live(q.session)
        /\ session[q.session].family = q.family
        /\ session[q.session].user = q.user
        /\ session[q.session].tenant = q.tenant
    BY ConstantsAssumption DEF Inv, RowsTyped, Requested, Informed, Unstored, Replaces
  <1>2. q.session # q.fresh
    BY <1>1 DEF Live, Present
  <1>3. session[q.session].next = None
    BY <1>1 DEF Inv, Lineage, Live
  <1>4. NewSession(q) \in SessionRows
    BY <1>1 DEF NewSession, SessionRows, Memories
  <1>5. session \in [Sessions -> SessionRows]
    BY DEF Inv, RowsTyped
  <1>6. [session[q.session] EXCEPT !.state = "revoked", !.next = q.fresh] \in SessionRows
    BY <1>1, <1>5 DEF SessionRows
  <1>7. /\ session'[q.fresh] = NewSession(q)
        /\ session'[q.session] = [session[q.session] EXCEPT !.state = "revoked",
                                                            !.next = q.fresh]
        /\ \A s \in Sessions \ {q.fresh, q.session} : session'[s] = session[s]
        /\ session' = [s \in Sessions |-> session'[s]]
    BY <1>1, <1>2, <1>5 DEF Replaces
  <1>8. session' \in [Sessions -> SessionRows]
    BY <1>4, <1>5, <1>6, <1>7
  <1> QED
    BY <1>1, <1>2, <1>3, <1>7, <1>8

\* A rotation takes the live token of its family out before it puts one in.
LEMMA ReplacesInv ==
  ASSUME Inv, NEW r \in Requests, Replaces(r)
  PROVE  Inv'
  <1> DEFINE q == req[r]
             old == q.session
             new == q.fresh
  <1>1. /\ q \in Memories /\ new \in Sessions /\ old \in Sessions /\ old # new
        /\ ~ Present(new) /\ Live(old)
        /\ session[old].family = q.family
        /\ session[old].user = q.user
        /\ session[old].tenant = q.tenant
        /\ session[old].next = None
        /\ session' \in [Sessions -> SessionRows]
        /\ session'[new] = NewSession(q)
        /\ session'[old] = [session[old] EXCEPT !.state = "revoked", !.next = new]
        /\ \A s \in Sessions \ {new, old} : session'[s] = session[s]
    BY ReplacesRows
  <1>2. session[old] \in SessionRows
    BY <1>1 DEF Inv, RowsTyped
  <1>3. /\ session'[old].state = "revoked" /\ session'[old].next = new
        /\ session'[old].family = q.family
        /\ session'[old].user = q.user
        /\ session'[old].tenant = q.tenant
    BY <1>1, <1>2 DEF SessionRows
  <1>4. /\ session'[new].state = "live" /\ session'[new].next = None
        /\ session'[new].family = q.family
        /\ session'[new].user = q.user
        /\ session'[new].tenant = q.tenant
    BY <1>1 DEF NewSession
  <1>5. \A s \in Sessions : session[s].next # new
    BY <1>1, ConstantsAssumption DEF Inv, Lineage, Present
  <1> HIDE DEF q, old, new
  <1>6. Stores(r)
    BY <1>1, <1>3, <1>4 DEF Stores, Live, Present, Replaces, q, old, new
  <1>7. RowsTyped' /\ Requested'
    BY <1>6, StoreRequests DEF Replaces, Accounts
  <1>8. OneLive'
    <2> SUFFICES ASSUME NEW s \in Sessions, NEW t \in Sessions,
                        session'[s].state = "live", session'[t].state = "live",
                        session'[s].family = session'[t].family
                 PROVE  s = t
      BY DEF OneLive, Live
    <2>1. s # old /\ t # old
      BY <1>3
    <2>2. ASSUME NEW p \in Sessions \ {new, old}, session'[p].state = "live"
          PROVE  session'[p].family # q.family
      BY <1>1, <2>2 DEF Inv, OneLive, Live
    <2>3. CASE s = new \/ t = new
      BY <1>4, <2>1, <2>2, <2>3
    <2>4. CASE s # new /\ t # new
      BY <1>1, <2>1, <2>4 DEF Inv, OneLive, Live
    <2> QED
      BY <2>3, <2>4
  <1>9. Lineage'
    <2> SUFFICES ASSUME NEW s \in Sessions, session'[s].next # None
                 PROVE  LET t == session'[s].next IN
                        /\ session'[s].state = "revoked"
                        /\ session'[t].state # "absent" /\ t # s
                        /\ session'[t].family = session'[s].family
                        /\ session'[t].user = session'[s].user
                        /\ session'[t].tenant = session'[s].tenant
                        /\ \A p \in Sessions : session'[p].next = t => p = s
      BY DEF Lineage, Present
    <2>1. CASE s = old
      BY <1>1, <1>3, <1>4, <1>5, <2>1, ConstantsAssumption
    <2>2. CASE s = new
      BY <1>4, <2>2
    <2>3. CASE s \notin {old, new}
      <3> DEFINE t == session[s].next
      <3>1. session'[s] = session[s] /\ t \in Sessions /\ t # None
        BY <1>1, <2>3 DEF Inv, RowsTyped, SessionRows
      <3>2. /\ session[s].state = "revoked"
            /\ Present(t) /\ t # s /\ t # new
            /\ session[t].family = session[s].family
            /\ session[t].user = session[s].user
            /\ session[t].tenant = session[s].tenant
            /\ \A p \in Sessions : session[p].next = t => p = s
        BY <1>5, <3>1 DEF Inv, Lineage
      <3> HIDE DEF t
      <3>3. \A p \in Sessions \ {new, old} : session'[p] = session[p]
        BY <1>1
      <3>4. /\ session'[t].state # "absent"
            /\ session'[t].family = session[t].family
            /\ session'[t].user = session[t].user
            /\ session'[t].tenant = session[t].tenant
        <4>1. CASE t = old
          <5>1. /\ session[old].family = q.family
                /\ session[old].user = q.user
                /\ session[old].tenant = q.tenant
            BY <1>1
          <5> QED
            BY <1>3, <4>1, <5>1
        <4>2. CASE t # old
          BY <3>1, <3>2, <3>3, <4>2 DEF Present
        <4> QED
          BY <4>1, <4>2
      <3>5. ASSUME NEW p \in Sessions, session'[p].next = t PROVE p = s
        <4>1. p # old /\ p # new
          BY <1>3, <1>4, <3>1, <3>2, <3>5
        <4> QED
          BY <3>2, <3>3, <3>5, <4>1
      <3> QED
        BY <3>1, <3>2, <3>4, <3>5 DEF t
    <2> QED
      BY <2>1, <2>2, <2>3
  <1> QED
    BY <1>7, <1>8, <1>9 DEF Inv

-----------------------------------------------------------------------------
(* Every step preserves the invariant.                                     *)

LEMMA AccountsInv ==
  ASSUME Inv, UNCHANGED <<session, req>>, AccountsTyped
  PROVE  Inv'
  BY DEF Inv, RowsTyped, Requested, OneLive, Lineage, AccountsTyped, Informed, Unstored,
         Apart, Live, Present

LEMMA LoginInv ==
  ASSUME Inv, NEW r \in Requests, NEW u \in Users, NEW t \in Scopes, NEW s \in Sessions,
         NEW f \in Families, Login(r, u, t, s, f)
  PROVE  Inv'
  <1> DEFINE q == [Idle EXCEPT !.op = "login", !.step = "create", !.fresh = s,
                               !.family = f, !.user = u, !.tenant = t]
  <1>1. q \in Memories
    BY DEF Memories, Idle, Ops, Steps, Scopes
  <1>2. /\ q.step = "create" /\ q.fresh = s /\ q.family = f /\ q.user = u
        /\ Remember(r, q) /\ AccountsTyped /\ UNCHANGED session
    BY DEF Login, Idle, Accounts, AccountsTyped, Inv, RowsTyped
  <1> HIDE DEF q
  <1>3. Informed(q) /\ Unstored(q)
    BY <1>2 DEF Login, Informed, Unstored, FreshSession, FreshFamily
  <1>4. \A o \in Requests \ {r} : Apart(q, req[o]) /\ Apart(req[o], q)
    BY <1>2 DEF Login, Apart, FreshSession, FreshFamily
  <1> QED
    BY <1>1, <1>2, <1>3, <1>4, RememberInv

LEMMA ResolvePrincipalInv ==
  ASSUME Inv, NEW r \in Requests, NEW s \in Sessions, ResolvePrincipal(r, s)
  PROVE  Inv'
  <1> DEFINE q == [req[r] EXCEPT !.step = "rotate", !.fresh = s]
  <1>1. CASE Finish(r)
    BY <1>1, IdleRemembers, GoOnInv
    DEF ResolvePrincipal, Finish, Remember, Idle, Accounts
  <1>2. CASE Remember(r, q)
    <2>1. req[r] \in Memories
      BY DEF Inv, RowsTyped
    <2>2. /\ q \in Memories /\ q.step = "rotate" /\ q.fresh = s
          /\ q.session = req[r].session /\ q.family = req[r].family
          /\ q.user = req[r].user /\ q.tenant = req[r].tenant
      BY <2>1 DEF Memories, Steps
    <2>3. AccountsTyped /\ UNCHANGED session
      BY DEF ResolvePrincipal, Accounts, AccountsTyped, Inv, RowsTyped
    <2> HIDE DEF q
    <2>4. Informed(q)
      <3>1. Informed(req[r]) /\ req[r].step = "resolve"
        BY DEF Inv, Requested, ResolvePrincipal
      <3>2. /\ q.session \in Sessions /\ Present(q.session)
            /\ session[q.session].family = q.family
            /\ session[q.session].user = q.user
            /\ session[q.session].tenant = q.tenant
        BY <2>2, <3>1 DEF Informed
      <3>3. q.family \in Families /\ q.user \in Users
        BY <3>2 DEF Inv, RowsTyped, SessionRows
      <3> QED
        BY <2>2, <3>2, <3>3 DEF Informed
    <2>5. Unstored(q)
      BY <2>2 DEF ResolvePrincipal, Unstored, FreshSession
    <2>6. \A o \in Requests \ {r} : Apart(q, req[o]) /\ Apart(req[o], q)
      BY <2>2 DEF ResolvePrincipal, Apart, FreshSession
    <2> QED
      BY <1>2, <2>2, <2>3, <2>4, <2>5, <2>6, RememberInv
  <1> QED
    BY <1>1, <1>2 DEF ResolvePrincipal

LEMMA ReadSessionInv ==
  ASSUME Inv, NEW r \in Requests, ReadSession(r)
  PROVE  Inv'
  <1> DEFINE row == session[req[r].session]
             step == IF row.state = "live" /\ ~ row.expired THEN "resolve" ELSE "see"
             q == [req[r] EXCEPT !.step = step, !.family = row.family,
                                 !.user = row.user, !.tenant = row.tenant]
  <1>1. req[r] \in Memories /\ req[r].session \in Sessions /\ row \in SessionRows
    BY DEF Inv, RowsTyped, Requested, Informed, ReadSession
  <1>2. /\ q \in Memories /\ q.step = step /\ q.fresh = req[r].fresh
        /\ q.session = req[r].session /\ q.family = row.family
        /\ q.user = row.user /\ q.tenant = row.tenant
    BY <1>1 DEF Memories, Steps, SessionRows
  <1>3. Remember(r, q) /\ UNCHANGED <<session, member, open>>
    BY DEF ReadSession, Accounts
  <1>4. Informed(q) /\ q.step # "create"
    BY <1>1, <1>2 DEF Informed, Present
  <1> HIDE DEF q
  <1> QED
    BY <1>2, <1>3, <1>4, GoOnInv

LEMMA SuspendInv ==
  ASSUME Inv, NEW r \in Requests, NEW u \in Users, NEW t \in Tenants, Suspend(r, u, t)
  PROVE  Inv'
  <1> DEFINE q == [Idle EXCEPT !.op = "suspend", !.step = "see", !.user = u, !.tenant = t]
  <1>1. q \in Memories /\ q.step = "see" /\ q.fresh = None
    BY DEF Memories, Idle, Ops, Steps, Scopes
  <1>2. Remember(r, q) /\ AccountsTyped /\ UNCHANGED session
    BY DEF Suspend, AccountsTyped, Inv, RowsTyped
  <1> HIDE DEF q
  <1>3. Informed(q) /\ Unstored(q)
    BY <1>1 DEF Informed, Unstored
  <1>4. \A o \in Requests \ {r} : Apart(q, req[o]) /\ Apart(req[o], q)
    BY <1>1 DEF Apart
  <1> QED
    BY <1>1, <1>2, <1>3, <1>4, RememberInv

\* The steps that go on with what the request has drawn, if anything.
LEMMA OtherRequestsInv ==
  ASSUME Inv, NEW r \in Requests,
         \/ \E s \in Sessions : PresentToken(r, s) \/ LogoutAll(r, s)
         \/ Rotate(r) /\ GoTo(r, "see") /\ UNCHANGED session
         \/ See(r)
         \/ Crash(r)
  PROVE  Inv'
  <1> req \in [Requests -> Memories] /\ session \in [Sessions -> SessionRows]
    BY DEF Inv, RowsTyped
  <1>1. ASSUME NEW s \in Sessions, PresentToken(r, s) PROVE Inv'
    <2> DEFINE q == [Idle EXCEPT !.op = "refresh", !.step = "read", !.session = s]
    <2>1. q \in Memories /\ q.step = "read" /\ q.fresh = None /\ q.session = s
      BY DEF Memories, Idle, Ops, Steps, Scopes
    <2>2. Remember(r, q) /\ UNCHANGED <<session, member, open>>
      BY <1>1 DEF PresentToken, Accounts
    <2> HIDE DEF q
    <2> QED
      BY <2>1, <2>2, GoOnInv DEF Informed
  <1>2. ASSUME NEW s \in Sessions, LogoutAll(r, s) PROVE Inv'
    <2> DEFINE q == [Idle EXCEPT !.op = "logoutAll", !.step = "see", !.user = session[s].user]
    <2>1. q \in Memories /\ q.step = "see" /\ q.fresh = None
      BY DEF Memories, SessionRows, Idle, Ops, Steps, Scopes
    <2>2. Remember(r, q) /\ UNCHANGED <<session, member, open>>
      BY <1>2 DEF LogoutAll, Accounts
    <2> HIDE DEF q
    <2> QED
      BY <2>1, <2>2, GoOnInv DEF Informed
  <1>3. ASSUME Rotate(r), GoTo(r, "see"), UNCHANGED session PROVE Inv'
    <2> DEFINE q == [req[r] EXCEPT !.step = "see"]
    <2>1. q \in Memories /\ q.step = "see" /\ q.fresh = req[r].fresh
      BY DEF Memories, Steps
    <2>2. Remember(r, q) /\ UNCHANGED <<session, member, open>>
      BY <1>3 DEF Rotate, GoTo, Remember, Accounts
    <2> HIDE DEF q
    <2> QED
      BY <2>1, <2>2, GoOnInv DEF Informed
  <1>4. ASSUME See(r) PROVE Inv'
    <2> DEFINE q == [req[r] EXCEPT !.step = "sweep",
                                   !.targets = {s \in Sessions : Swept(req[r], s)}]
    <2>1. q \in Memories /\ q.step = "sweep" /\ q.fresh = req[r].fresh
      BY DEF Memories, Steps
    <2>2. Remember(r, q) /\ UNCHANGED <<session, member, open>>
      BY <1>4 DEF See, Accounts
    <2> HIDE DEF q
    <2> QED
      BY <2>1, <2>2, GoOnInv DEF Informed
  <1>5. ASSUME Crash(r) PROVE Inv'
    BY <1>5, IdleRemembers, GoOnInv DEF Crash, Finish, Remember, Idle, Accounts
  <1> QED
    BY <1>1, <1>2, <1>3, <1>4, <1>5

LEMMA DimmingInv ==
  ASSUME Inv,
         \/ \E s \in Sessions : Logout(s) \/ Expire(s)
         \/ \E r \in Requests : Sweep(r)
  PROVE  Inv'
  <1> session \in [Sessions -> SessionRows]
    BY DEF Inv, RowsTyped
  <1>1. ASSUME NEW S \in SUBSET Sessions, \A s \in S : Live(s), Revoke(S)
        PROVE  session' \in [Sessions -> SessionRows] /\ Dims
    <2>1. \A s \in Sessions :
             /\ [session[s] EXCEPT !.state = "revoked"] \in SessionRows
             /\ session'[s] = IF s \in S THEN [session[s] EXCEPT !.state = "revoked"]
                                         ELSE session[s]
      BY <1>1 DEF Revoke, SessionRows
    <2>2. session' \in [Sessions -> SessionRows]
      BY <1>1, <2>1 DEF Revoke
    <2>3. Dims
      <3> SUFFICES ASSUME NEW s \in Sessions
                   PROVE  /\ session'[s] \in SessionRows
                          /\ session'[s].family = session[s].family
                          /\ session'[s].user = session[s].user
                          /\ session'[s].tenant = session[s].tenant
                          /\ session'[s].next = session[s].next
                          /\ \/ session'[s].state = session[s].state
                             \/ Live(s) /\ session'[s].state = "revoked"
                          /\ ~ Present(s) => session'[s] = session[s]
        BY DEF Dims
      <3>1. session[s] \in SessionRows /\ session'[s] \in SessionRows
        BY <2>2
      <3>2. CASE s \in S
        <4>1. Live(s) /\ session'[s] = [session[s] EXCEPT !.state = "revoked"]
          BY <1>1, <2>1, <3>2
        <4> QED
          BY <3>1, <4>1 DEF SessionRows, Live, Present
      <3>3. CASE s \notin S
        BY <2>1, <3>1, <3>3
      <3> QED
        BY <3>2, <3>3
    <2> QED
      BY <2>2, <2>3
  <1>2. ASSUME NEW s \in Sessions, Logout(s) PROVE Inv'
    <2>1. session' \in [Sessions -> SessionRows] /\ Dims
      BY <1>1, <1>2 DEF Logout
    <2> QED
      BY <1>2, <2>1, DimInv DEF Logout
  <1>3. ASSUME NEW s \in Sessions, Expire(s) PROVE Inv'
    <2>1. [session[s] EXCEPT !.expired = TRUE] \in SessionRows
      BY DEF SessionRows
    <2>2. session' \in [Sessions -> SessionRows] /\ Dims
      BY <1>3, <2>1 DEF Expire, Dims, SessionRows, Present
    <2> QED
      BY <1>3, <2>2, DimInv DEF Expire
  <1>4. ASSUME NEW r \in Requests, Sweep(r) PROVE Inv'
    <2>1. {s \in req[r].targets : Live(s)} \in SUBSET Sessions
      BY DEF Inv, RowsTyped, Memories
    <2>2. session' \in [Sessions -> SessionRows] /\ Dims
      BY <1>1, <1>4, <2>1 DEF Sweep
    <2> QED
      BY <1>4, <2>2, DimInv DEF Sweep, Accounts
  <1> QED
    BY <1>2, <1>3, <1>4

LEMMA RotateCases ==
  ASSUME NEW r \in Requests, Rotate(r)
  PROVE  Replaces(r) \/ (Rotate(r) /\ GoTo(r, "see") /\ UNCHANGED session)
  BY DEF Rotate, Replaces

LEMMA NextInv == Inv /\ [Next]_vars => Inv'
  <1> SUFFICES ASSUME Inv, [Next]_vars PROVE Inv'
    OBVIOUS
  <1>1. ASSUME NEW r \in Requests, Serving(r) PROVE Inv'
    <2>1. ASSUME NEW u \in Users, NEW t \in Scopes, NEW s \in Sessions, NEW f \in Families,
                 Login(r, u, t, s, f)
          PROVE  Inv'
      BY <2>1, LoginInv
    <2>2. ASSUME Refreshing(r) PROVE Inv'
      BY <2>2, OtherRequestsInv, ResolvePrincipalInv, ReadSessionInv, RotateCases, ReplacesInv
      DEF Refreshing
    <2>3. ASSUME NEW u \in Users, NEW t \in Tenants, Suspend(r, u, t) PROVE Inv'
      BY <2>3, SuspendInv
    <2> QED
      BY <1>1, <2>1, <2>2, <2>3, CreateSessionInv, OtherRequestsInv, DimmingInv DEF Serving
  <1>2. ASSUME NEW s \in Sessions, Logout(s) \/ Expire(s) PROVE Inv'
    BY <1>2, DimmingInv
  <1>3. ASSUME NEW u \in Users, NEW t \in Tenants, Reactivate(u, t) PROVE Inv'
    BY <1>3, AccountsInv DEF Reactivate, AccountsTyped, Inv, RowsTyped
  <1>4. ASSUME NEW t \in Tenants, SuspendTenant(t) \/ ReactivateTenant(t) PROVE Inv'
    BY <1>4, AccountsInv DEF SuspendTenant, ReactivateTenant, AccountsTyped, Inv, RowsTyped
  <1>5. ASSUME NEW r \in Requests, Crash(r) PROVE Inv'
    BY <1>5, OtherRequestsInv
  <1>6. CASE UNCHANGED vars
    BY <1>6, AccountsInv DEF vars, AccountsTyped, Inv, RowsTyped
  <1> QED
    BY <1>1, <1>2, <1>3, <1>4, <1>5, <1>6 DEF Next, Step

LEMMA Invariance == Spec => []Inv
  BY InitInv, NextInv, PTL DEF Spec

\* The history is a truth value.
LEMMA HistoryTyped == Spec => [](disturbed \in BOOLEAN)
  <1>1. Init => disturbed \in BOOLEAN
    BY DEF Init
  <1>2. disturbed \in BOOLEAN /\ [Next]_vars => (disturbed \in BOOLEAN)'
    BY DEF Next, Watch, vars
  <1> QED
    BY <1>1, <1>2, PTL DEF Spec

\* Every session and every request stays well-formed.
THEOREM TypeCorrect == Spec => []TypeOK
  BY Invariance, HistoryTyped, PTL DEF Inv, TypeOK

\* No family of refresh tokens ever has two that can be used.
THEOREM OneLiveHolds == Spec => []OneLive
  BY Invariance, PTL DEF Inv

\* The tokens of every login form one line of succession.
THEOREM LineageHolds == Spec => []Lineage
  BY Invariance, PTL DEF Inv

-----------------------------------------------------------------------------
(* The service implements its token families.                              *)

\* The seat of a family is its live session, if it has one.
LEMMA SeatIs ==
  ASSUME OneLive, NEW f \in Families
  PROVE  /\ \A s \in Sessions : Live(s) /\ session[s].family = f => Seat(f) = s
         /\ (\A s \in Sessions : ~ (Live(s) /\ session[s].family = f)) => Seat(f) = None
         /\ Seat(f) # None =>
               Seat(f) \in Sessions /\ Live(Seat(f)) /\ session[Seat(f)].family = f
  BY DEF Seat, OneLive

\* What nobody sees of a family: expiry, requests and accounts.
LEMMA SameFamilies ==
  ASSUME \A s \in Sessions : session'[s].state = session[s].state
                             /\ session'[s].family = session[s].family
  PROVE  \A f \in Families : Seat(f)' = Seat(f) /\ Spent(f)' = Spent(f)
  <1> SUFFICES ASSUME NEW f \in Families
               PROVE  Seat(f)' = Seat(f) /\ Spent(f)' = Spent(f)
    OBVIOUS
  <1>1. Spent(f)' = Spent(f)
    BY DEF Spent
  <1>2. \A s \in Sessions : (session'[s].state = "live" /\ session'[s].family = f)
                            <=> (Live(s) /\ session[s].family = f)
    BY DEF Live
  <1>3. Seat(f)' = Seat(f)
    BY <1>2 DEF Seat, Live
  <1> QED
    BY <1>1, <1>3

LEMMA SameFamiliesStep ==
  ASSUME \A s \in Sessions : session'[s].state = session[s].state
                             /\ session'[s].family = session[s].family
  PROVE  UNCHANGED TokenFamily!familyVars
  BY SameFamilies DEF TokenFamily!familyVars

\* A session that has not been stored is unknown to the families.
LEMMA AbsentUnused ==
  ASSUME Inv, NEW s \in Sessions, ~ Present(s)
  PROVE  TokenFamily!Unused(s)
  <1> SUFFICES ASSUME NEW f \in Families PROVE s # Seat(f) /\ s \notin Spent(f)
    BY DEF TokenFamily!Unused
  <1>1. s # Seat(f)
    BY SeatIs, ConstantsAssumption DEF Inv, Live, Present
  <1> QED
    BY <1>1 DEF Spent, Present

LEMMA CreateSessionOpens ==
  ASSUME Inv, Inv', NEW r \in Requests, CreateSession(r)
  PROVE  TokenFamily!Next
  <1> DEFINE q == req[r]
  <1>0. PICK new \in Sessions, fam \in Families : new = q.fresh /\ fam = q.family
    BY DEF Inv, Requested, Informed, CreateSession
  <1>1. /\ new \in Sessions /\ ~ Present(new) /\ fam \in Families
        /\ \A s \in Sessions : session[s].family # fam
        /\ session \in [Sessions -> SessionRows]
    BY <1>0, ConstantsAssumption DEF Inv, RowsTyped, Requested, Unstored, CreateSession
  <1>2. /\ session'[new].state = "live" /\ session'[new].family = fam
        /\ \A s \in Sessions \ {new} : session'[s] = session[s]
    BY <1>0, <1>1 DEF CreateSession, NewSession
  <1>3. Seat(fam) = None /\ Spent(fam) = {}
    BY <1>1, SeatIs DEF Spent, Inv
  <1>4. Seat(fam)' = new
    <2>1. \A s \in Sessions : (session'[s].state = "live" /\ session'[s].family = fam)
                              <=> s = new
      BY <1>1, <1>2
    <2> QED
      BY <1>1, <2>1 DEF Seat, Live
  <1>5. ASSUME NEW f \in Families, f # fam PROVE Seat(f)' = Seat(f)
    <2>1. \A s \in Sessions : (session'[s].state = "live" /\ session'[s].family = f)
                              <=> (Live(s) /\ session[s].family = f)
      BY <1>1, <1>2, <1>5 DEF Live, Present
    <2> QED
      BY <2>1 DEF Seat, Live
  <1>6. ASSUME NEW f \in Families PROVE Spent(f)' = Spent(f)
    BY <1>1, <1>2 DEF Spent, Present
  <1>7. TokenFamily!Open(fam, new)
    <2>1. TokenFamily!Unused(new)
      BY <1>1, AbsentUnused
    <2>2. [f \in Families |-> Seat(f)'] = [[f \in Families |-> Seat(f)] EXCEPT ![fam] = new]
      BY <1>4, <1>5
    <2>3. [f \in Families |-> Spent(f)'] = [f \in Families |-> Spent(f)]
      BY <1>6
    <2> QED
      BY <1>1, <1>3, <2>1, <2>2, <2>3 DEF TokenFamily!Open
  <1> QED
    BY <1>1, <1>7 DEF TokenFamily!Next

LEMMA ReplacesPasses ==
  ASSUME Inv, Inv', NEW r \in Requests, Replaces(r)
  PROVE  TokenFamily!Next
  <1> DEFINE q == req[r]
  <1>0. PICK old \in Sessions, new \in Sessions, fam \in Families :
           old = q.session /\ new = q.fresh /\ fam = q.family
    BY ReplacesRows
  <1>1. /\ new \in Sessions /\ old \in Sessions /\ old # new /\ fam \in Families
        /\ ~ Present(new) /\ Live(old) /\ session[old].family = fam
        /\ session[old] \in SessionRows
        /\ session'[new] = NewSession(q)
        /\ session'[old] = [session[old] EXCEPT !.state = "revoked", !.next = new]
        /\ \A s \in Sessions \ {new, old} : session'[s] = session[s]
    BY <1>0, ReplacesRows DEF Inv, RowsTyped
  <1>2. /\ session'[new].state = "live" /\ session'[new].family = fam
        /\ session'[old].state = "revoked" /\ session'[old].family = fam
    BY <1>0, <1>1 DEF NewSession, SessionRows
  <1>3. Seat(fam) = old /\ old # None
    BY <1>1, SeatIs, ConstantsAssumption DEF Inv
  <1>4. Seat(fam)' = new
    <2>1. ASSUME NEW s \in Sessions, session'[s].state = "live", session'[s].family = fam
          PROVE  s = new
      BY <1>1, <1>2, <2>1 DEF Inv, OneLive, Live
    <2>2. \A s \in Sessions : (session'[s].state = "live" /\ session'[s].family = fam)
                              <=> s = new
      BY <1>1, <1>2, <2>1
    <2> QED
      BY <1>1, <2>2 DEF Seat, Live
  <1>5. ASSUME NEW f \in Families, f # fam PROVE Seat(f)' = Seat(f)
    <2>1. \A s \in Sessions : (session'[s].state = "live" /\ session'[s].family = f)
                              <=> (Live(s) /\ session[s].family = f)
      BY <1>1, <1>2, <1>5 DEF Live, Present
    <2> QED
      BY <2>1 DEF Seat, Live
  <1>6. ASSUME NEW f \in Families, f # fam PROVE Spent(f)' = Spent(f)
    BY <1>1, <1>2, <1>6 DEF Spent, Present
  <1>7. Spent(fam)' = Spent(fam) \cup {old}
    <2>1. ASSUME NEW s \in Sessions
          PROVE  (session'[s].state = "revoked" /\ session'[s].family = fam)
                 <=> (session[s].state = "revoked" /\ session[s].family = fam) \/ s = old
      BY <1>1, <1>2 DEF Live, Present
    <2> QED
      BY <1>1, <2>1 DEF Spent
  <1>8. TokenFamily!Pass(fam, new)
    <2>1. TokenFamily!Unused(new)
      BY <1>1, AbsentUnused
    <2>2. [f \in Families |-> Seat(f)'] = [[f \in Families |-> Seat(f)] EXCEPT ![fam] = new]
      BY <1>4, <1>5
    <2>3. [f \in Families |-> Spent(f)']
          = [[f \in Families |-> Spent(f)] EXCEPT ![fam] = @ \cup {old}]
      BY <1>1, <1>6, <1>7
    <2> QED
      BY <1>1, <1>3, <2>1, <2>2, <2>3 DEF TokenFamily!Pass
  <1> QED
    BY <1>1, <1>8 DEF TokenFamily!Next

\* Revoking live sessions closes the families they are in.
LEMMA RevokeCloses ==
  ASSUME Inv, Inv', NEW S \in SUBSET Sessions, \A s \in S : Live(s), Revoke(S)
  PROVE  TokenFamily!Next
  <1> DEFINE F == {f \in Families : \E s \in S : session[s].family = f}
  <1> session \in [Sessions -> SessionRows]
    BY DEF Inv, RowsTyped
  <1>1. \A s \in Sessions :
           /\ session'[s].state = IF s \in S THEN "revoked" ELSE session[s].state
           /\ session'[s].family = session[s].family
    BY DEF Revoke, SessionRows
  <1>2. ASSUME NEW f \in F PROVE Seat(f)' = None /\ Spent(f)' = Spent(f) \cup {Seat(f)}
                                 /\ Seat(f) # None
    <2>1. PICK s \in S : session[s].family = f
      OBVIOUS
    <2>2. Seat(f) = s /\ s # None
      BY <2>1, SeatIs, ConstantsAssumption DEF Inv
    <2>3. \A t \in Sessions : Live(t) /\ session[t].family = f => t = s
      BY <2>1 DEF Inv, OneLive
    <2>4. \A t \in Sessions : ~ (session'[t].state = "live" /\ session'[t].family = f)
      BY <1>1, <2>1, <2>3 DEF Live
    <2>5. Seat(f)' = None
      BY <2>4 DEF Seat, Live
    <2>6. Spent(f)' = Spent(f) \cup {s}
      BY <1>1, <2>1, <2>3 DEF Spent, Live
    <2> QED
      BY <2>2, <2>5, <2>6
  <1>3. ASSUME NEW f \in Families, f \notin F PROVE Seat(f)' = Seat(f) /\ Spent(f)' = Spent(f)
    <2>1. \A s \in Sessions : session[s].family = f => session'[s].state = session[s].state
      BY <1>1, <1>3
    <2>2. \A s \in Sessions : (session'[s].state = "live" /\ session'[s].family = f)
                              <=> (Live(s) /\ session[s].family = f)
      BY <1>1, <2>1 DEF Live
    <2>3. Seat(f)' = Seat(f)
      BY <2>2 DEF Seat, Live
    <2> QED
      BY <1>1, <2>1, <2>3 DEF Spent
  <1> HIDE DEF F
  <1>4. F \in SUBSET Families
    BY DEF F
  <1>5. TokenFamily!Close(F)
    BY <1>2, <1>3, <1>4 DEF TokenFamily!Close
  <1> QED
    BY <1>4, <1>5 DEF TokenFamily!Next

LEMMA RefinesStep ==
  ASSUME Inv, Inv', [Next]_vars
  PROVE  [TokenFamily!Next]_TokenFamily!familyVars
  <1> req \in [Requests -> Memories] /\ session \in [Sessions -> SessionRows]
    BY DEF Inv, RowsTyped
  <1>1. CASE UNCHANGED session
    BY <1>1, SameFamiliesStep
  <1>2. ASSUME NEW r \in Requests, CreateSession(r) PROVE TokenFamily!Next
    BY <1>2, CreateSessionOpens
  <1>3. ASSUME NEW r \in Requests, Replaces(r) PROVE TokenFamily!Next
    BY <1>3, ReplacesPasses
  <1>4. ASSUME NEW r \in Requests, Sweep(r) PROVE TokenFamily!Next
    <2>1. {s \in req[r].targets : Live(s)} \in SUBSET Sessions
      BY DEF Memories
    <2> QED
      BY <1>4, <2>1, RevokeCloses DEF Sweep
  <1>5. ASSUME NEW s \in Sessions, Logout(s) PROVE TokenFamily!Next
    BY <1>5, RevokeCloses DEF Logout
  <1>6. ASSUME NEW s \in Sessions, Expire(s) PROVE UNCHANGED TokenFamily!familyVars
    <2>1. \A t \in Sessions : session'[t].state = session[t].state
                              /\ session'[t].family = session[t].family
      BY <1>6 DEF Expire, SessionRows
    <2> QED
      BY <2>1, SameFamiliesStep
  <1>7. CASE Next
    <2>1. ASSUME NEW r \in Requests, Serving(r)
          PROVE  UNCHANGED session \/ CreateSession(r) \/ Replaces(r) \/ Sweep(r)
      BY <2>1, RotateCases
      DEF Serving, Refreshing, Login, PresentToken, ResolvePrincipal, ReadSession,
          LogoutAll, Suspend, See
    <2>2. \/ UNCHANGED session
          \/ \E r \in Requests : CreateSession(r) \/ Replaces(r) \/ Sweep(r)
          \/ \E s \in Sessions : Logout(s) \/ Expire(s)
      BY <1>7, <2>1 DEF Next, Step, Crash, Reactivate, SuspendTenant, ReactivateTenant
    <2> QED
      BY <2>2, <1>1, <1>2, <1>3, <1>4, <1>5, <1>6
  <1> QED
    BY <1>1, <1>7 DEF vars

LEMMA RefinesInit == Init => TokenFamily!Init
  <1> SUFFICES ASSUME Init
               PROVE  \A f \in Families : Seat(f) = None /\ Spent(f) = {}
    BY DEF TokenFamily!Init
  <1> QED
    BY DEF Init, Seat, Spent, Live, NoSession

\* AuthService implements the abstract token families: one good token at a
\* time, spent tokens never good again, a closed family never reopened.
THEOREM FamiliesImplemented == Spec => FamilySpec
  BY Invariance, RefinesInit, RefinesStep, PTL DEF Spec, FamilySpec, TokenFamily!Spec

-----------------------------------------------------------------------------
(* Until two requests overlap or one stops half-way.                       *)

\* The sessions of a table that the updateMany of a handler selects.
SweptIn(table, q, s) ==
    /\ table[s].state = "live"
    /\ IF q.op = "refresh" THEN table[s].family = q.family
       ELSE /\ table[s].user = q.user
            /\ q.op = "suspend" => table[s].tenant = q.tenant

\* A sweep has seen all that it is after.
Seen(table, q) ==
    q.step = "sweep" => \A s \in Sessions : SweptIn(table, q, s) => s \in q.targets

\* Who gets a session is a member of its tenant.
Admitted(members, q) ==
    q.step \in {"create", "rotate"} /\ q.tenant \in Tenants => <<q.user, q.tenant>> \in members

\* A suspension is on its way to its sweep.
Ending(q) == q.op = "suspend" => q.step \in {"see", "sweep"}

\* A session in a tenant is that of a member, or of one being suspended.
Covered(members, memory, row) ==
    row.tenant \in Tenants =>
        \/ <<row.user, row.tenant>> \in members
        \/ \E r \in Requests : /\ memory[r].op = "suspend"
                               /\ memory[r].user = row.user
                               /\ memory[r].tenant = row.tenant

AllCovered(table, members, memory) ==
    \A s \in Sessions : table[s].state = "live" => Covered(members, memory, table[s])

Alone == \A r, s \in Requests : r # s => req[r] = Idle \/ req[s] = Idle

Serial ==
    /\ Alone
    /\ \A r \in Requests : Seen(session, req[r]) /\ Admitted(member, req[r]) /\ Ending(req[r])
    /\ AllCovered(session, member, req)

SerialInv == Inv /\ (disturbed \/ Serial)

LEMMA IdleSerial ==
    Ending(Idle) /\ \A table : Seen(table, Idle) /\ Admitted(table, Idle)
  BY DEF Ending, Seen, Admitted, Idle

\* A request goes on without writing; a suspension is not forgotten.
LEMMA GoOnSerial ==
  ASSUME Inv, Serial, Alone', UNCHANGED <<session, member>>, NEW r \in Requests, NEW q,
         Remember(r, q), Seen(session, q), Admitted(member, q), Ending(q),
         req[r].op = "suspend" =>
            q.op = "suspend" /\ q.user = req[r].user /\ q.tenant = req[r].tenant
  PROVE  Serial'
  <1>1. \A o \in Requests : req'[o] = IF o = r THEN q ELSE req[o]
    BY DEF Inv, RowsTyped, Remember
  <1>2. \A o \in Requests : Seen(session', req'[o]) /\ Admitted(member', req'[o]) /\ Ending(req'[o])
    BY <1>1 DEF Serial
  <1>3. AllCovered(session', member', req')
    BY <1>1 DEF Serial, AllCovered, Covered
  <1> QED
    BY <1>2, <1>3 DEF Serial

\* Sessions that end, while every request waits or the one being served is done
\* with those it suspends.
LEMMA DimSerial ==
  ASSUME Inv, Serial, Alone', member \subseteq member', Dims,
         \/ UNCHANGED req
         \/ \E r \in Requests : /\ Finish(r)
                                /\ \A s \in Sessions : ~ SweptIn(session', req[r], s)
  PROVE  Serial'
  <1>1. \A s \in Sessions : session'[s].state = "live" =>
           /\ session[s].state = "live"
           /\ session'[s].family = session[s].family
           /\ session'[s].user = session[s].user
           /\ session'[s].tenant = session[s].tenant
    BY DEF Dims, Live
  <1>2. \A o \in Requests : req'[o] \in {req[o], Idle}
    BY DEF Inv, RowsTyped, Finish
  <1>3. ASSUME NEW o \in Requests
        PROVE  Seen(session', req'[o]) /\ Admitted(member', req'[o]) /\ Ending(req'[o])
    <2>1. Seen(session', req[o])
      BY <1>1 DEF Serial, Seen, SweptIn
    <2>2. Admitted(member', req[o]) /\ Ending(req[o])
      BY DEF Serial, Admitted
    <2> QED
      BY <1>2, <2>1, <2>2, IdleSerial
  <1>4. AllCovered(session', member', req')
    <2> SUFFICES ASSUME NEW s \in Sessions, session'[s].state = "live", session'[s].tenant \in Tenants,
                        <<session'[s].user, session'[s].tenant>> \notin member'
                 PROVE  \E o \in Requests : /\ req'[o].op = "suspend"
                                            /\ req'[o].user = session'[s].user
                                            /\ req'[o].tenant = session'[s].tenant
      BY DEF AllCovered, Covered
    <2>1. PICK o \in Requests : /\ req[o].op = "suspend"
                                /\ req[o].user = session'[s].user
                                /\ req[o].tenant = session'[s].tenant
      BY <1>1 DEF Serial, AllCovered, Covered
    <2>2. req'[o] = req[o]
      BY <2>1 DEF SweptIn, Finish, Inv, RowsTyped
    <2> QED
      BY <2>1, <2>2
  <1> QED
    BY <1>3, <1>4 DEF Serial

\* A session that is stored is that of a member.
LEMMA StoreSerial ==
  ASSUME Inv, Serial, Alone', UNCHANGED member, NEW r \in Requests,
         req[r].step \in {"create", "rotate"}, Finish(r),
         \A s \in Sessions : \/ session'[s] = NewSession(req[r])
                             \/ session'[s].state # "live"
                             \/ session'[s] = session[s]
  PROVE  Serial'
  <1>1. \A o \in Requests : req'[o] = Idle
    <2>1. req[r] # Idle
      BY DEF Idle
    <2>2. \A o \in Requests : req'[o] = IF o = r THEN Idle ELSE req[o]
      BY DEF Inv, RowsTyped, Finish
    <2> QED
      BY <2>1, <2>2 DEF Serial, Alone
  <1>2. \A o \in Requests : Seen(session', req'[o]) /\ Admitted(member', req'[o]) /\ Ending(req'[o])
    BY <1>1, IdleSerial
  <1>3. req[r].op # "suspend" /\ Admitted(member, req[r])
    BY DEF Serial, Ending
  <1>4. \A o \in Requests : req[o].op # "suspend"
    BY <1>3 DEF Serial, Alone, Idle
  <1>5. AllCovered(session', member', req')
    <2> SUFFICES ASSUME NEW s \in Sessions, session'[s].state = "live", session'[s].tenant \in Tenants
                 PROVE  <<session'[s].user, session'[s].tenant>> \in member
      BY DEF AllCovered, Covered
    <2>1. CASE session'[s] = NewSession(req[r])
      BY <1>3, <2>1 DEF Admitted, NewSession
    <2>2. CASE session'[s] = session[s]
      BY <1>4, <2>2 DEF Serial, AllCovered, Covered
    <2> QED
      BY <2>1, <2>2
  <1> QED
    BY <1>2, <1>5 DEF Serial

LEMMA SuspendSerial ==
  ASSUME Inv, Serial, Alone', NEW r \in Requests, NEW u \in Users, NEW t \in Tenants,
         Suspend(r, u, t)
  PROVE  Serial'
  <1> DEFINE q == [Idle EXCEPT !.op = "suspend", !.step = "see", !.user = u, !.tenant = t]
  <1>1. q.op = "suspend" /\ q.step = "see" /\ q.user = u /\ q.tenant = t
    BY DEF Idle
  <1>2. Remember(r, q) /\ session' = session /\ member' = member \ {<<u, t>>} /\ req[r] = Idle
    BY DEF Suspend
  <1> HIDE DEF q
  <1>3. \A o \in Requests : req'[o] = IF o = r THEN q ELSE req[o]
    BY <1>2 DEF Inv, RowsTyped, Remember
  <1>4. \A o \in Requests \ {r} : req'[o] = Idle
    BY <1>1, <1>3 DEF Alone, Idle
  <1>5. \A o \in Requests : req[o] = Idle
    BY <1>2, <1>3, <1>4
  <1>6. \A o \in Requests : Seen(session', req'[o]) /\ Admitted(member', req'[o]) /\ Ending(req'[o])
    BY <1>1, <1>3, <1>4, IdleSerial DEF Seen, Admitted, Ending
  <1>7. AllCovered(session', member', req')
    <2> SUFFICES ASSUME NEW s \in Sessions, session[s].state = "live", session[s].tenant \in Tenants,
                        <<session[s].user, session[s].tenant>> \notin member'
                 PROVE  \E o \in Requests : /\ req'[o].op = "suspend"
                                            /\ req'[o].user = session[s].user
                                            /\ req'[o].tenant = session[s].tenant
      BY <1>2 DEF AllCovered, Covered
    <2>1. <<session[s].user, session[s].tenant>> \in member
      BY <1>5 DEF Serial, AllCovered, Covered, Idle
    <2>2. session[s].user = u /\ session[s].tenant = t
      BY <1>2, <2>1
    <2> QED
      BY <1>1, <1>3, <2>2
  <1> QED
    BY <1>6, <1>7 DEF Serial

\* What a revocation leaves: sessions as they were, but for those of S.
LEMMA RevokeDims ==
  ASSUME Inv, NEW S \in SUBSET Sessions, \A s \in S : Live(s), Revoke(S)
  PROVE  Dims /\ \A s \in S : session'[s].state # "live"
  <1>1. session \in [Sessions -> SessionRows]
    BY DEF Inv, RowsTyped
  <1>2. \A s \in Sessions :
          session'[s] = IF s \in S THEN [session[s] EXCEPT !.state = "revoked"] ELSE session[s]
    BY DEF Revoke
  <1>3. ASSUME NEW s \in S
        PROVE  /\ session'[s] \in SessionRows /\ session'[s].state = "revoked"
               /\ session'[s].family = session[s].family
               /\ session'[s].user = session[s].user
               /\ session'[s].tenant = session[s].tenant
               /\ session'[s].next = session[s].next
    <2>1. session'[s] = [session[s] EXCEPT !.state = "revoked"] /\ session[s] \in SessionRows
      BY <1>1, <1>2
    <2> QED
      BY <2>1 DEF SessionRows
  <1>4. ASSUME NEW s \in Sessions \ S PROVE session'[s] = session[s] /\ session[s] \in SessionRows
    BY <1>1, <1>2
  <1> QED
    BY <1>3, <1>4 DEF Dims, Live, Present

\* A sweep leaves nothing that it is after.
LEMMA SweepEnds ==
  ASSUME Inv, Serial, NEW r \in Requests, Sweep(r)
  PROVE  Dims /\ \A s \in Sessions : ~ SweptIn(session', req[r], s)
  <1> DEFINE S == {s \in req[r].targets : Live(s)}
  <1>1. S \in SUBSET Sessions /\ (\A s \in S : Live(s)) /\ Revoke(S)
    BY DEF Sweep, Inv, RowsTyped, Memories
  <1> HIDE DEF S
  <1>2. Dims /\ \A s \in S : session'[s].state # "live"
    BY <1>1, RevokeDims
  <1>3. ASSUME NEW s \in Sessions, SweptIn(session', req[r], s) PROVE FALSE
    <2>1. SweptIn(session, req[r], s)
      BY <1>2, <1>3 DEF Dims, Live, SweptIn
    <2>2. s \in req[r].targets /\ Live(s)
      BY <2>1 DEF Serial, Seen, Sweep, SweptIn, Live
    <2> QED
      BY <1>2, <1>3, <2>2 DEF S, SweptIn
  <1> QED
    BY <1>2, <1>3

LEMMA LoginSerial ==
  ASSUME Inv, Serial, Alone', NEW r \in Requests, NEW u \in Users, NEW t \in Scopes,
         NEW s \in Sessions, NEW f \in Families, Login(r, u, t, s, f)
  PROVE  Serial'
  <1> DEFINE q == [Idle EXCEPT !.op = "login", !.step = "create", !.fresh = s,
                               !.family = f, !.user = u, !.tenant = t]
  <1>1. q.op = "login" /\ q.step = "create" /\ q.user = u /\ q.tenant = t
    BY DEF Idle
  <1>2. Remember(r, q) /\ UNCHANGED <<session, member>> /\ req[r] = Idle
    BY DEF Login, Accounts
  <1>3. t \in Tenants => <<u, t>> \in member
    BY ConstantsAssumption DEF Login, Available
  <1> HIDE DEF q
  <1>4. Seen(session, q) /\ Admitted(member, q) /\ Ending(q)
    BY <1>1, <1>3 DEF Seen, Admitted, Ending
  <1>5. req[r].op # "suspend"
    BY <1>2 DEF Idle
  <1> QED
    BY <1>2, <1>4, <1>5, GoOnSerial

\* A refresh on its way to its rotation.
LEMMA RefreshSerial ==
  ASSUME Inv, Serial, Alone', NEW r \in Requests,
         \/ \E s \in Sessions : PresentToken(r, s) \/ ResolvePrincipal(r, s)
         \/ ReadSession(r)
         \/ Rotate(r) /\ GoTo(r, "see") /\ UNCHANGED session
  PROVE  Serial'
  <1>1. Ending(req[r]) /\ req[r] \in Memories
    BY DEF Serial, Inv, RowsTyped
  <1>2. ASSUME NEW q, Remember(r, q), UNCHANGED <<session, member>>, req[r].op # "suspend",
               q.step # "sweep", Ending(q), Admitted(member, q)
        PROVE  Serial'
    <2>1. Seen(session, q)
      BY <1>2 DEF Seen
    <2> QED
      BY <1>2, <2>1, GoOnSerial
  <1>3. ASSUME NEW s \in Sessions, PresentToken(r, s) PROVE Serial'
    <2> DEFINE q == [Idle EXCEPT !.op = "refresh", !.step = "read", !.session = s]
    <2>1. q.op = "refresh" /\ q.step = "read"
      BY DEF Idle
    <2>2. Remember(r, q) /\ UNCHANGED <<session, member>> /\ req[r] = Idle
      BY <1>3 DEF PresentToken, Accounts
    <2> HIDE DEF q
    <2>3. req[r].op # "suspend"
      BY <2>2 DEF Idle
    <2> QED
      BY <1>2, <2>1, <2>2, <2>3 DEF Ending, Admitted
  <1>4. ASSUME NEW s \in Sessions, ResolvePrincipal(r, s) PROVE Serial'
    <2>1. req[r].step = "resolve" /\ req[r].op # "suspend" /\ UNCHANGED <<session, member>>
      BY <1>1, <1>4 DEF ResolvePrincipal, Accounts, Ending
    <2>2. CASE Finish(r)
      BY <1>2, <2>1, <2>2, IdleSerial DEF Finish, Remember, Idle
    <2>3. CASE Available(req[r].user, req[r].tenant)
      <3> DEFINE q == [req[r] EXCEPT !.step = "rotate", !.fresh = s]
      <3>1. Remember(r, q)
        BY <1>4, <2>3 DEF ResolvePrincipal
      <3>2. q.op = req[r].op /\ q.step = "rotate" /\ q.user = req[r].user /\ q.tenant = req[r].tenant
        BY <1>1 DEF Memories
      <3>3. req[r].tenant \in Tenants => <<req[r].user, req[r].tenant>> \in member
        BY <2>3, ConstantsAssumption DEF Available
      <3> HIDE DEF q
      <3> QED
        BY <1>2, <2>1, <3>1, <3>2, <3>3 DEF Ending, Admitted
    <2> QED
      BY <1>4, <2>2, <2>3 DEF ResolvePrincipal
  <1>5. ASSUME ReadSession(r) PROVE Serial'
    <2> DEFINE row == session[req[r].session]
               step == IF row.state = "live" /\ ~ row.expired THEN "resolve" ELSE "see"
               q == [req[r] EXCEPT !.step = step, !.family = row.family,
                                   !.user = row.user, !.tenant = row.tenant]
    <2>1. req[r].step = "read" /\ Remember(r, q) /\ UNCHANGED <<session, member>>
      BY <1>5 DEF ReadSession, Accounts
    <2>2. q.op = req[r].op /\ q.step \in {"resolve", "see"} /\ req[r].op # "suspend"
      BY <1>1, <2>1 DEF Memories, Ending
    <2> HIDE DEF q
    <2> QED
      BY <1>2, <2>1, <2>2 DEF Ending, Admitted
  <1>6. ASSUME Rotate(r), GoTo(r, "see"), UNCHANGED session PROVE Serial'
    <2> DEFINE q == [req[r] EXCEPT !.step = "see"]
    <2>1. req[r].step = "rotate" /\ Remember(r, q) /\ UNCHANGED <<session, member>>
      BY <1>6 DEF Rotate, GoTo, Remember, Accounts
    <2>2. q.op = req[r].op /\ q.step = "see" /\ req[r].op # "suspend"
      BY <1>1, <2>1 DEF Memories, Ending
    <2> HIDE DEF q
    <2> QED
      BY <1>2, <2>1, <2>2 DEF Ending, Admitted
  <1> QED
    BY <1>3, <1>4, <1>5, <1>6

LEMMA LogoutAllSerial ==
  ASSUME Inv, Serial, Alone', NEW r \in Requests, NEW s \in Sessions, LogoutAll(r, s)
  PROVE  Serial'
  <1> DEFINE q == [Idle EXCEPT !.op = "logoutAll", !.step = "see", !.user = session[s].user]
  <1>1. q.op = "logoutAll" /\ q.step = "see" /\ req[r].op # "suspend"
    BY DEF Idle, LogoutAll
  <1>2. Remember(r, q) /\ UNCHANGED <<session, member>>
    BY DEF LogoutAll, Accounts
  <1> HIDE DEF q
  <1> QED
    BY <1>1, <1>2, GoOnSerial DEF Seen, Admitted, Ending

LEMMA SeeSerial ==
  ASSUME Inv, Serial, Alone', NEW r \in Requests, See(r)
  PROVE  Serial'
  <1> DEFINE q == [req[r] EXCEPT !.step = "sweep",
                                 !.targets = {s \in Sessions : Swept(req[r], s)}]
  <1>1. req[r] \in Memories /\ Remember(r, q) /\ UNCHANGED <<session, member>>
    BY DEF See, Accounts, Inv, RowsTyped
  <1>2. /\ q.op = req[r].op /\ q.step = "sweep" /\ q.user = req[r].user
        /\ q.tenant = req[r].tenant /\ q.family = req[r].family
        /\ q.targets = {s \in Sessions : Swept(req[r], s)}
    BY <1>1 DEF Memories
  <1> HIDE DEF q
  <1>3. Seen(session, q)
    BY <1>2 DEF Seen, SweptIn, Swept, Live
  <1>4. Admitted(member, q) /\ Ending(q)
    BY <1>2 DEF Admitted, Ending
  <1> QED
    BY <1>1, <1>2, <1>3, <1>4, GoOnSerial

\* What happens around requests only ends sessions, or readmits members.
LEMMA AroundSerial ==
  ASSUME Inv, Serial, Alone',
         \/ \E s \in Sessions : Logout(s) \/ Expire(s)
         \/ \E u \in Users, t \in Tenants : Reactivate(u, t)
         \/ \E t \in Tenants : SuspendTenant(t) \/ ReactivateTenant(t)
         \/ UNCHANGED vars
  PROVE  Serial'
  <1>1. session \in [Sessions -> SessionRows]
    BY DEF Inv, RowsTyped
  <1>2. ASSUME NEW s \in Sessions, Logout(s) PROVE Serial'
    <2>1. Dims
      BY <1>2, RevokeDims DEF Logout
    <2> QED
      BY <1>2, <2>1, DimSerial DEF Logout
  <1>3. ASSUME NEW s \in Sessions, Expire(s) PROVE Serial'
    <2>1. \A o \in Sessions : session'[o] = IF o = s THEN [session[s] EXCEPT !.expired = TRUE]
                                            ELSE session[o]
      BY <1>1, <1>3 DEF Expire
    <2>2. Dims
      BY <1>1, <1>3, <2>1 DEF Dims, SessionRows, Expire, Present
    <2> QED
      BY <1>3, <2>2, DimSerial DEF Expire
  <1>4. session' = session => Dims
    BY <1>1 DEF Dims
  <1>5. ASSUME UNCHANGED <<session, req>>, member \subseteq member' PROVE Serial'
    BY <1>4, <1>5, DimSerial
  <1>6. (\E u \in Users, t \in Tenants : Reactivate(u, t)) => Serial'
    BY <1>5 DEF Reactivate
  <1>7. (\E t \in Tenants : SuspendTenant(t) \/ ReactivateTenant(t)) => Serial'
    BY <1>5 DEF SuspendTenant, ReactivateTenant
  <1>8. UNCHANGED vars => Serial'
    BY <1>5 DEF vars
  <1> QED
    BY <1>2, <1>3, <1>6, <1>7, <1>8

LEMMA SerialStep == SerialInv /\ [Next]_vars => SerialInv'
  <1> SUFFICES ASSUME SerialInv, [Next]_vars PROVE SerialInv'
    OBVIOUS
  <1>1. Inv'
    BY NextInv DEF SerialInv
  <1>2. ASSUME ~ disturbed' PROVE Serial'
    <2>1. CASE UNCHANGED vars
      <3>1. Serial /\ Inv /\ Alone'
        BY <1>2, <2>1 DEF vars, SerialInv, Serial, Alone
      <3> QED
        BY <2>1, <3>1, AroundSerial
    <2>2. CASE Next
      <3>1. Step /\ Watch
        BY <1>2, <2>2 DEF Next
      <3>2. ~ disturbed /\ Alone'
        BY <1>2, <3>1 DEF Watch, Busy, Alone
      <3>3. Inv /\ Serial /\ Alone'
        BY <3>2 DEF SerialInv
      <3>4. ASSUME NEW r \in Requests, CreateSession(r) PROVE Serial'
        <4>1. \A s \in Sessions : session'[s] = NewSession(req[r]) \/ session'[s] = session[s]
          BY <3>3, <3>4 DEF CreateSession, Inv, RowsTyped
        <4> QED
          BY <3>3, <3>4, <4>1, StoreSerial DEF CreateSession, Accounts
      <3>5. ASSUME NEW r \in Requests, Replaces(r) PROVE Serial'
        <4>1. /\ session'[req[r].fresh] = NewSession(req[r])
              /\ session'[req[r].session] = [session[req[r].session] EXCEPT !.state = "revoked",
                                                                            !.next = req[r].fresh]
              /\ \A s \in Sessions \ {req[r].fresh, req[r].session} : session'[s] = session[s]
              /\ req[r].session \in Sessions
          BY <3>3, <3>5, ReplacesRows
        <4>2. session[req[r].session] \in SessionRows
          BY <3>3, <4>1 DEF Inv, RowsTyped
        <4>3. session'[req[r].session].state = "revoked"
          BY <4>1, <4>2 DEF SessionRows
        <4> QED
          BY <3>3, <3>5, <4>1, <4>3, StoreSerial DEF Replaces, Accounts
      <3>6. ASSUME NEW r \in Requests, Sweep(r) PROVE Serial'
        <4>1. Dims /\ \A s \in Sessions : ~ SweptIn(session', req[r], s)
          BY <3>3, <3>6, SweepEnds
        <4> QED
          BY <3>3, <3>6, <4>1, DimSerial DEF Sweep, Accounts
      <3>7. ASSUME NEW r \in Requests, Serving(r) PROVE Serial'
        BY <3>3, <3>4, <3>5, <3>6, <3>7, LoginSerial, RefreshSerial, RotateCases, LogoutAllSerial,
           SuspendSerial, SeeSerial
           DEF Serving, Refreshing
      <3> QED
        BY <3>1, <3>3, <3>7, AroundSerial DEF Step
    <2> QED
      BY <2>1, <2>2
  <1> QED
    BY <1>1, <1>2 DEF SerialInv

LEMMA SerialInvariant == Spec => []SerialInv
  <1>1. Init => SerialInv
    <2> SUFFICES ASSUME Init PROVE SerialInv
      OBVIOUS
    <2>1. Alone /\ AllCovered(session, member, req)
      BY DEF Init, Alone, AllCovered, NoSession
    <2>2. \A r \in Requests : Seen(session, req[r]) /\ Admitted(member, req[r]) /\ Ending(req[r])
      BY IdleSerial DEF Init
    <2> QED
      BY <2>1, <2>2, InitInv DEF SerialInv, Serial
  <1> QED
    BY <1>1, SerialStep, PTL DEF Spec

\* Until requests overlap or stop half-way, no suspended member has a live
\* session while no request is under way (memberships.service.ts:186-190).
THEOREM SuspendedOutHolds == Spec => []SuspendedOut
  <1>1. SerialInv => SuspendedOut
    BY DEF SerialInv, Serial, AllCovered, Covered, SuspendedOut, Busy, Live, Idle
  <1> QED
    BY <1>1, SerialInvariant, PTL

\* Until then a replay ends its family and logout-all every session of its user
\* (auth.service.ts:126-131, 164-169 and 199-202).
THEOREM SweepsEndHolds == Spec => SweepsEnd
  <1> DEFINE Ends == disturbed \/ \A r \in Requests : EndsFamily(r) /\ EndsUser(r)
  <1>1. SerialInv => Ends
    <2> SUFFICES ASSUME SerialInv, ~ disturbed, NEW r \in Requests
                 PROVE  EndsFamily(r) /\ EndsUser(r)
      OBVIOUS
    <2>1. Inv /\ Serial
      BY DEF SerialInv
    <2>2. Sweep(r) => \A s \in Sessions : ~ SweptIn(session', req[r], s)
      BY <2>1, SweepEnds
    <2> QED
      BY <2>2 DEF EndsFamily, EndsUser, SweptIn
  <1>2. Spec => [][Ends]_vars
    <2> HIDE DEF Ends
    <2> QED
      BY <1>1, SerialInvariant, PTL
  <1> QED
    BY <1>2 DEF SweepsEnd
=============================================================================

------------------------------ MODULE Sessions ------------------------------
(***************************************************************************)
(* Refresh sessions: AuthService (auth/auth.service.ts), with the session  *)
(* revocation of MembershipsService.setStatus and the account status that  *)
(* both read.                                                              *)
(*                                                                         *)
(* A refresh token is the signed name of one RefreshSession row, so a      *)
(* session here is both; its hash always matches, since a session's id is  *)
(* signed once.  A handler is a row of req that moves through the steps of *)
(* the code, one database statement (or transaction) at a time; other      *)
(* requests run in between.  A sweep, the updateMany that revokes every    *)
(* live session of some kind, is two steps: See takes the snapshot a Read  *)
(* Committed statement works on, Sweep revokes those rows that are still   *)
(* live.  A row that commits in between is not in the snapshot.            *)
(***************************************************************************)
EXTENDS FiniteSets

CONSTANTS
    Requests,     \* slots for requests being served at the same time
    Sessions,     \* the identifiers randomUUID() draws for sessions
    Families,     \* the identifiers it draws for families
    Users,
    SuperAdmins,  \* the users with a platform role
    Tenants,
    None,         \* SQL NULL, and the tenant of a platform login
    CanCrash      \* whether a process may stop in the middle of a request

ASSUME ConstantsAssumption ==
    /\ SuperAdmins \subseteq Users
    /\ None \notin Sessions \cup Families \cup Users \cup Tenants
    /\ CanCrash \in BOOLEAN

VARIABLES
    session,  \* the RefreshSession rows
    member,   \* the active memberships: pairs of a user and a tenant
    open,     \* the active tenants
    req,      \* what each request being served remembers
    disturbed \* history: whether two requests were ever served at once, or one stopped

vars == <<session, member, open, req, disturbed>>

-----------------------------------------------------------------------------
Scopes == Tenants \cup {None}

NoSession == [state |-> "absent", family |-> None, user |-> None,
              tenant |-> None, expired |-> FALSE, next |-> None]

Idle == [op |-> "none", step |-> "idle", session |-> None, fresh |-> None,
         family |-> None, user |-> None, tenant |-> None, targets |-> {}]

SessionRows ==
    [state : {"absent", "live", "revoked"}, family : Families \cup {None},
     user : Users \cup {None}, tenant : Scopes, expired : BOOLEAN,
     next : Sessions \cup {None}]

Ops   == {"none", "login", "refresh", "logoutAll", "suspend"}
Steps == {"idle", "create", "read", "resolve", "rotate", "see", "sweep"}

Memories ==
    [op : Ops, step : Steps, session : Sessions \cup {None},
     fresh : Sessions \cup {None}, family : Families \cup {None},
     user : Users \cup {None}, tenant : Scopes, targets : SUBSET Sessions]

Init ==
    /\ session = [s \in Sessions |-> NoSession]
    /\ member = Users \X Tenants
    /\ open = Tenants
    /\ req = [r \in Requests |-> Idle]
    /\ disturbed = FALSE

-----------------------------------------------------------------------------
Live(s)    == session[s].state = "live"
Present(s) == session[s].state # "absent"

\* resolvePrincipal, and the same reads in login and in the JWT guard.
Available(u, t) == IF t = None THEN u \in SuperAdmins ELSE <<u, t>> \in member /\ t \in open

\* randomUUID() never draws an identifier twice.
FreshSession(s) == ~ Present(s) /\ \A r \in Requests : req[r].fresh # s
FreshFamily(f)  ==
    /\ \A s \in Sessions : session[s].family # f
    /\ \A r \in Requests : req[r].family # f

\* Wrong on purpose: the successor is not put in the family.
NewSessionLoose(q) == [state |-> "live", user |-> q.user, tenant |-> q.tenant,
                       family |-> IF q.op = "refresh" THEN None ELSE q.family,
                       expired |-> FALSE, next |-> None]

NewSession(q) == [state |-> "live", family |-> q.family, user |-> q.user,
                  tenant |-> q.tenant, expired |-> FALSE, next |-> None]

\* Wrong on purpose: a replay revokes only the replayed session.
SweptOne(q, s) == s = q.session

\* The sessions the updateMany of a handler selects.
Swept(q, s) ==
    /\ Live(s)
    /\ IF q.op = "refresh" THEN session[s].family = q.family
       ELSE /\ session[s].user = q.user
            /\ q.op = "suspend" => session[s].tenant = q.tenant

Revoke(S) ==
    session' = [s \in Sessions |->
                  IF s \in S THEN [session[s] EXCEPT !.state = "revoked"] ELSE session[s]]

Remember(r, q) == req' = [req EXCEPT ![r] = q]
GoTo(r, step)  == req' = [req EXCEPT ![r].step = step]
Finish(r)      == req' = [req EXCEPT ![r] = Idle]
Accounts       == <<member, open>>

-----------------------------------------------------------------------------
(* login: the account is checked, then the session of a new family stored. *)
Login(r, u, t, s, f) ==
    /\ req[r] = Idle
    /\ Available(u, t)
    /\ FreshSession(s) /\ FreshFamily(f)
    /\ Remember(r, [Idle EXCEPT !.op = "login", !.step = "create", !.fresh = s,
                                !.family = f, !.user = u, !.tenant = t])
    /\ UNCHANGED <<session, Accounts>>

CreateSession(r) ==
    /\ req[r].step = "create"
    /\ session' = [session EXCEPT ![req[r].fresh] = NewSession(req[r])]
    /\ Finish(r)
    /\ UNCHANGED Accounts

(* refresh: the token's signature and expiry, its row, the account, and    *)
(* then a transaction that revokes the row and inserts its successor.      *)
PresentToken(r, s) ==
    /\ req[r] = Idle
    /\ Present(s) /\ ~ session[s].expired
    /\ Remember(r, [Idle EXCEPT !.op = "refresh", !.step = "read", !.session = s])
    /\ UNCHANGED <<session, Accounts>>

\* A revoked session is a replay: the whole family is swept.
ReadSession(r) ==
    LET row == session[req[r].session]
        current == row.state = "live" /\ ~ row.expired
    IN  /\ req[r].step = "read"
        /\ Remember(r, [req[r] EXCEPT !.step = IF current THEN "resolve" ELSE "see",
                                      !.family = row.family, !.user = row.user,
                                      !.tenant = row.tenant])
        /\ UNCHANGED <<session, Accounts>>

ResolvePrincipal(r, s) ==
    /\ req[r].step = "resolve"
    /\ FreshSession(s)
    /\ IF Available(req[r].user, req[r].tenant)
       THEN Remember(r, [req[r] EXCEPT !.step = "rotate", !.fresh = s])
       ELSE Finish(r)
    /\ UNCHANGED <<session, Accounts>>

\* Wrong on purpose: the old session is revoked whatever its state is by now.
RotateAgain(r) ==
    LET q == req[r] IN
    /\ q.step = "rotate"
    /\ session' = [session EXCEPT ![q.session].state = "revoked",
                                  ![q.session].next = q.fresh,
                                  ![q.fresh] = NewSession(q)]
    /\ Finish(r)
    /\ UNCHANGED Accounts

\* The row is revoked only while it is live, so one of two rotations of it
\* goes through and the other takes it for a replay.
Rotate(r) ==
    LET q == req[r] IN
    /\ q.step = "rotate"
    /\ \/ /\ Live(q.session)
          /\ session' = [session EXCEPT ![q.session].state = "revoked",
                                        ![q.session].next = q.fresh,
                                        ![q.fresh] = NewSession(q)]
          /\ Finish(r)
       \/ /\ ~ Live(q.session)
          /\ GoTo(r, "see")
          /\ UNCHANGED session
    /\ UNCHANGED Accounts

-----------------------------------------------------------------------------
(* logout and logoutAll, with any access token of an available account:    *)
(* the JWT guard does not look at the session.                             *)

Logout(s) ==
    /\ Live(s) /\ Available(session[s].user, session[s].tenant)
    /\ Revoke({s})
    /\ UNCHANGED <<member, open, req>>

LogoutAll(r, s) ==
    /\ req[r] = Idle
    /\ Present(s) /\ Available(session[s].user, session[s].tenant)
    /\ Remember(r, [Idle EXCEPT !.op = "logoutAll", !.step = "see",
                                !.user = session[s].user])
    /\ UNCHANGED <<session, Accounts>>

(* setStatus of a membership, and of a tenant, which revokes nothing.      *)
\* Wrong on purpose: a membership's status revokes nothing either.
SuspendOnly(r, u, t) ==
    /\ req[r] = Idle
    /\ member' = member \ {<<u, t>>}
    /\ UNCHANGED <<session, open, req>>

Suspend(r, u, t) ==
    /\ req[r] = Idle
    /\ member' = member \ {<<u, t>>}
    /\ Remember(r, [Idle EXCEPT !.op = "suspend", !.step = "see",
                                !.user = u, !.tenant = t])
    /\ UNCHANGED <<session, open>>

Reactivate(u, t) ==
    /\ <<u, t>> \notin member
    /\ member' = member \cup {<<u, t>>}
    /\ UNCHANGED <<session, open, req>>

SuspendTenant(t) ==
    /\ t \in open
    /\ open' = open \ {t}
    /\ UNCHANGED <<session, member, req>>

ReactivateTenant(t) ==
    /\ t \notin open
    /\ open' = open \cup {t}
    /\ UNCHANGED <<session, member, req>>

-----------------------------------------------------------------------------
(* The sweeps of refresh, logoutAll and setStatus.                         *)
See(r) ==
    /\ req[r].step = "see"
    /\ Remember(r, [req[r] EXCEPT !.step = "sweep",
                                  !.targets = {s \in Sessions : Swept(req[r], s)}])
    /\ UNCHANGED <<session, Accounts>>

Sweep(r) ==
    /\ req[r].step = "sweep"
    /\ Revoke({s \in req[r].targets : Live(s)})
    /\ Finish(r)
    /\ UNCHANGED Accounts

(* Time, and a process that stops.                                         *)
\* Every token gets the same time to live, so the older ones expire first.
Expire(s) ==
    /\ Present(s) /\ ~ session[s].expired
    /\ \A p \in Sessions : session[p].next = s => session[p].expired
    /\ session' = [session EXCEPT ![s].expired = TRUE]
    /\ UNCHANGED <<member, open, req>>

Crash(r) ==
    /\ CanCrash
    /\ req[r] # Idle
    /\ Finish(r)
    /\ UNCHANGED <<session, Accounts>>

Refreshing(r) ==
    \/ \E s \in Sessions : PresentToken(r, s) \/ ResolvePrincipal(r, s)
    \/ ReadSession(r)
    \/ Rotate(r)

Serving(r) ==
    \/ \E u \in Users, t \in Scopes, s \in Sessions, f \in Families : Login(r, u, t, s, f)
    \/ CreateSession(r)
    \/ Refreshing(r)
    \/ \E s \in Sessions : LogoutAll(r, s)
    \/ \E u \in Users, t \in Tenants : Suspend(r, u, t)
    \/ See(r)
    \/ Sweep(r)

Step ==
    \/ \E r \in Requests : Serving(r)
    \/ \E s \in Sessions : Logout(s) \/ Expire(s)
    \/ \E u \in Users, t \in Tenants : Reactivate(u, t)
    \/ \E t \in Tenants : SuspendTenant(t) \/ ReactivateTenant(t)

Busy(r) == req[r] # Idle

\* The history only watches; no step depends on it.
Watch == disturbed' = (disturbed \/ \E r, s \in Requests : r # s /\ Busy(r)' /\ Busy(s)')

Next ==
    \/ Step /\ Watch
    \/ \E r \in Requests : Crash(r) /\ disturbed' = TRUE

Spec == Init /\ [][Next]_vars

-----------------------------------------------------------------------------
(* What holds however requests interleave and crash.                       *)

\* The rows and the requests are well-formed: a session that exists has a
\* user and a family, and one that does not has nothing.
RowsTyped ==
    /\ session \in [Sessions -> SessionRows]
    /\ member \subseteq Users \X Tenants
    /\ open \subseteq Tenants
    /\ req \in [Requests -> Memories]
    /\ \A s \in Sessions :
          IF Present(s) THEN session[s].family # None /\ session[s].user # None
                        ELSE session[s] = NoSession

TypeOK == RowsTyped /\ disturbed \in BOOLEAN

\* A family of refresh tokens has at most one that can still be used: no two
\* clients can hold good tokens of the same login, whatever they present,
\* repeat or race (auth.service.ts:144-163).
OneLive ==
    \A s, t \in Sessions :
        Live(s) /\ Live(t) /\ session[s].family = session[t].family => s = t

\* The tokens of a login form one line: a token is replaced only when it is
\* revoked, by one token of the same family, user and tenant, which no other
\* token was replaced by (auth.service.ts:145-161).
Lineage ==
    \A s \in Sessions : session[s].next # None =>
        LET t == session[s].next IN
        /\ session[s].state = "revoked"
        /\ Present(t) /\ t # s
        /\ session[t].family = session[s].family
        /\ session[t].user = session[s].user
        /\ session[t].tenant = session[s].tenant
        /\ \A p \in Sessions : session[p].next = t => p = s

\* The service implements a set of token families: once a logout, a
\* suspension or a replay has left a family without a good token, no refresh
\* that was under way opens it again (auth.service.ts:145-148).
Seat(f) ==
    IF \E s \in Sessions : Live(s) /\ session[s].family = f
    THEN CHOOSE s \in Sessions : Live(s) /\ session[s].family = f
    ELSE None

Spent(f) == {s \in Sessions : session[s].state = "revoked" /\ session[s].family = f}

TokenFamily == INSTANCE TokenFamilies WITH
    Tokens <- Sessions, NoToken <- None,
    seat <- [f \in Families |-> Seat(f)],
    spent <- [f \in Families |-> Spent(f)]

FamilySpec == TokenFamily!Spec

(* What holds until two requests overlap or one stops half-way.             *)

\* A sweep of this kind leaves none of the sessions it is after: those of the
\* replayed family, or those of the user who logs out everywhere.
EndsFamily(r) ==
    Sweep(r) /\ req[r].op = "refresh" =>
        \A s \in Sessions : session'[s].family = req[r].family => session'[s].state # "live"
EndsUser(r) ==
    Sweep(r) /\ req[r].op = "logoutAll" =>
        \A s \in Sessions : session'[s].user = req[r].user => session'[s].state # "live"

\* Detected reuse revokes what remains of the token family, and logout-all all
\* of the user's sessions, in every tenant (README.md:78,
\* auth.service.ts:126-131, 164-169 and 199-202).
SweepsEnd == [][disturbed \/ \A r \in Requests : EndsFamily(r) /\ EndsUser(r)]_vars

\* While no request is under way, no suspended member has a live session in
\* that tenant, however it came to be suspended and reactivated before
\* (memberships.service.ts:186-190); not after a crash, as the status and the
\* sessions are written by two statements outside a transaction.
SuspendedOut ==
    disturbed \/ (\E r \in Requests : Busy(r)) \/
        \A s \in Sessions : Live(s) /\ session[s].tenant \in Tenants =>
            <<session[s].user, session[s].tenant>> \in member

(* What overlapping requests break.                                        *)

\* The same two promises, however requests interleave.
ReuseAlwaysEnds  == [][\A r \in Requests : EndsFamily(r)]_vars
LogoutAlwaysEnds == [][\A r \in Requests : EndsUser(r)]_vars
=============================================================================

-------------------------------- MODULE Staff --------------------------------
(***************************************************************************)
(* The staff of one salon: MembershipsService (memberships.service.ts) and *)
(* the parts of ServiceProvidersService that give a member a provider      *)
(* profile (create and onboard, service-providers.service.ts).             *)
(*                                                                         *)
(* Each statement of a handler is a step, and others' steps come between:  *)
(* updateRole and setStatus read the membership, count the other owners    *)
(* and then write by id, with no transaction around the three.  The        *)
(* sessions that setStatus revokes after its write are in Sessions, and    *)
(* the invitation that onboard issues with the profile is in Invitations.  *)
(***************************************************************************)
CONSTANTS
    Members,   \* the people who are or may become staff, one membership each
    Requests,  \* slots for requests being served at the same time
    Founder    \* the owner that the salon is created with

ASSUME FounderAssumption == Founder \in Members

VARIABLES
    role,       \* the role of each membership, "none" when there is no membership
    suspended,  \* the members whose status is not ACTIVE
    profile,    \* the members with a row in service_provider_profiles
    req,        \* what each request being served remembers
    overlapped  \* history: whether two requests have ever been served at once

vars == <<role, suspended, profile, req, overlapped>>

-----------------------------------------------------------------------------
Roles == {"OWNER", "RECEPTIONIST", "PROVIDER"}

Ops == {"create", "updateRole", "suspend", "reactivate", "profile", "onboard"}

\* seen is the role that the handler read; to is the one it was asked for.
Memories ==
    [op : Ops, step : {"read", "count", "write"}, who : Members,
     to : Roles, seen : Roles \cup {"none"}]

Idle == [op |-> "none"]

\* The tenant is created with its owner, in one transaction.
Init ==
    /\ role = [m \in Members |-> IF m = Founder THEN "OWNER" ELSE "none"]
    /\ suspended = {}
    /\ profile = {}
    /\ req = [r \in Requests |-> Idle]
    /\ overlapped = FALSE

-----------------------------------------------------------------------------
Owns(m) == role[m] = "OWNER" /\ m \notin suspended

\* ensureAnotherOwner: some other active owner.
AnotherOwner(m) == \E o \in Members \ {m} : Owns(o)

\* Wrong on purpose: only a change of role needs another owner.
RemovesOwnerByRole(q) == q.seen = "OWNER" /\ q.op = "updateRole" /\ q.to # "OWNER"

\* Whether a handler that has read the role of a member asks for another owner.
RemovesOwner(q) ==
    /\ q.seen = "OWNER"
    /\ \/ q.op = "updateRole" /\ q.to # "OWNER"
       \/ q.op = "suspend"

Remember(r, q) == req' = [req EXCEPT ![r] = q]
Finish(r)      == req' = [req EXCEPT ![r] = Idle]
Staff          == <<role, suspended, profile>>

-----------------------------------------------------------------------------
(* Any active owner may ask for anything: the guards look at the caller's  *)
(* membership before the handler runs, and never again.                    *)
Ask(r, op, m, to) ==
    /\ req[r] = Idle
    /\ \E actor \in Members : Owns(actor)
    /\ op \in {"create", "updateRole"} \/ to = "PROVIDER"
    /\ Remember(r, [op |-> op, step |-> IF op = "create" THEN "write" ELSE "read",
                    who |-> m, to |-> to, seen |-> "none"])
    /\ UNCHANGED Staff

\* The read of the membership, and the early answers that follow from it.
Refused(q) ==
    \/ q.op = "profile" /\ role[q.who] # "PROVIDER"
    \/ q.op = "onboard" /\ \/ role[q.who] \in {"OWNER", "RECEPTIONIST"}
                           \/ q.who \in suspended \cup profile
    \/ q.op \notin {"profile", "onboard"} /\ role[q.who] = "none"

Read(r) ==
    LET q == [req[r] EXCEPT !.seen = role[req[r].who]] IN
    /\ req[r] # Idle /\ req[r].step = "read"
    /\ IF Refused(req[r])
       THEN Finish(r)
       ELSE Remember(r, [q EXCEPT !.step = IF RemovesOwner(q) THEN "count" ELSE "write"])
    /\ UNCHANGED Staff

Count(r) ==
    /\ req[r] # Idle /\ req[r].step = "count"
    /\ IF AnotherOwner(req[r].who)
       THEN Remember(r, [req[r] EXCEPT !.step = "write"])
       ELSE Finish(r)
    /\ UNCHANGED Staff

-----------------------------------------------------------------------------
(* The writes.  Each one is by the id of the membership, whatever has      *)
(* become of it; only unique constraints can still turn one away.          *)
Writing(r, op) == req[r] # Idle /\ req[r].step = "write" /\ req[r].op = op

UpdateRole(r) ==
    /\ Writing(r, "updateRole")
    /\ role' = [role EXCEPT ![req[r].who] = req[r].to]
    /\ Finish(r)
    /\ UNCHANGED <<suspended, profile>>

SetStatus(r) ==
    /\ \/ Writing(r, "suspend") /\ suspended' = suspended \cup {req[r].who}
       \/ Writing(r, "reactivate") /\ suspended' = suspended \ {req[r].who}
    /\ Finish(r)
    /\ UNCHANGED <<role, profile>>

\* Wrong on purpose: an upsert, which takes over the membership that is there.
CreateOver(r) ==
    /\ Writing(r, "create")
    /\ role' = [role EXCEPT ![req[r].who] = req[r].to]
    /\ Finish(r)
    /\ UNCHANGED <<suspended, profile>>

\* create: the membership is unique for a tenant and a user.
Create(r) ==
    LET m == req[r].who IN
    /\ Writing(r, "create")
    /\ role' = IF role[m] = "none" THEN [role EXCEPT ![m] = req[r].to] ELSE role
    /\ Finish(r)
    /\ UNCHANGED <<suspended, profile>>

\* create of a provider: a membership has at most one profile.
CreateProfile(r) ==
    /\ Writing(r, "profile")
    /\ profile' = profile \cup {req[r].who}
    /\ Finish(r)
    /\ UNCHANGED <<role, suspended>>

\* onboard: the transaction inserts the membership it did not find, then
\* the profile, or neither when a unique constraint is in the way.
Onboard(r) ==
    LET m == req[r].who
        conflict == \/ req[r].seen = "none" /\ role[m] # "none"
                    \/ m \in profile
    IN  /\ Writing(r, "onboard")
        /\ IF conflict
           THEN UNCHANGED Staff
           ELSE /\ role' = IF req[r].seen = "none" THEN [role EXCEPT ![m] = "PROVIDER"] ELSE role
                /\ profile' = profile \cup {m}
                /\ UNCHANGED suspended
        /\ Finish(r)

Serving(r) ==
    \/ \E op \in Ops, m \in Members, to \in Roles : Ask(r, op, m, to)
    \/ Read(r)
    \/ Count(r)
    \/ UpdateRole(r)
    \/ SetStatus(r)
    \/ Create(r)
    \/ CreateProfile(r)
    \/ Onboard(r)

Busy(r) == req[r] # Idle

\* The history only watches; no step depends on it.
Watch == overlapped' = (overlapped \/ \E r, s \in Requests : r # s /\ Busy(r)' /\ Busy(s)')

Next == (\E r \in Requests : Serving(r)) /\ Watch

Spec == Init /\ [][Next]_vars

-----------------------------------------------------------------------------
(* What holds however requests interleave.                                 *)

\* Memberships and requests are well-formed, and nobody is suspended or has a
\* profile who is not a member.
TypeOK ==
    /\ role \in [Members -> Roles \cup {"none"}]
    /\ suspended \cup profile \subseteq {m \in Members : role[m] # "none"}
    /\ req \in [Requests -> Memories \cup {Idle}]
    /\ overlapped \in BOOLEAN

\* However additions of one person race, the membership that came first keeps
\* its role until somebody changes roles: memberships never come and go, and
\* no create or onboard takes one over (memberships.service.ts:105-116,
\* service-providers.service.ts:148-156).
RoleKept ==
    [][\A m \in Members : role[m] # "none" /\ role'[m] # role[m] =>
          \E r \in Requests : UpdateRole(r) /\ req[r].who = m]_vars

(* What holds as long as requests have been served one at a time.          *)

\* "A tenant must retain at least one active Salon Owner"
\* (memberships.service.ts:268): broken when two requests overlap.
SomeOwner == \E m \in Members : Owns(m)

\* A salon never loses its last active owner, who is the only one who could
\* appoint the next (memberships.service.ts:152-153, 179-180 and 258-269).
ActiveOwner == overlapped \/ SomeOwner

(* What the documentation says.                                            *)

\* The membership of a provider profile is a SERVICE_PROVIDER membership
\* (docs/service-provider-domain.md:75).
ProfileOnProvider == \A m \in profile : role[m] = "PROVIDER"
=============================================================================

----------------------------- MODULE Invitations -----------------------------
(***************************************************************************)
(* Invitations of service providers: InvitationsService                    *)
(* (invitations.service.ts) and the operations of ServiceProvidersService  *)
(* that issue, resend, redirect and cancel them.                           *)
(*                                                                         *)
(* Every operation is one transaction under Read Committed: it reads, then *)
(* writes rows by id or by a where clause that each statement evaluates    *)
(* again.  Read is the first half, remembering what the code keeps in its  *)
(* variables; the commit is the second.  A transaction that a constraint,  *)
(* a count, a deadlock or a fault turns away is Abort.  Mail is sent after *)
(* the commit and may fail or never happen.                                *)
(***************************************************************************)
EXTENDS FiniteSets

CONSTANTS
    Invites,   \* the AccountInvitation rows, each with its token
    Seats,     \* the memberships of providers
    Users,     \* the people: an email address is a user
    TenantOf,  \* the salon of each membership
    Requests,  \* slots for requests being served at the same time
    NULL

ASSUME NullAssumption ==
    NULL \notin Invites \cup Seats \cup Users \cup {"OWN"} /\ "OWN" \notin Invites

VARIABLES
    account,   \* the status of each user, "absent" without a row
    password,  \* where a user's password comes from, NULL without one
    holder,    \* the user of each membership, NULL without a row
    standing,  \* what memberships.service has made of each membership
    profile,   \* the memberships with a provider profile
    inv,       \* the invitation rows
    mailed,    \* the invitations whose token has been sent
    req,        \* what each request being served remembers
    overlapped  \* history: whether two requests have ever been served at once

vars == <<account, password, holder, standing, profile, inv, mailed, req, overlapped>>

-----------------------------------------------------------------------------
NoInvite == [seat |-> NULL, user |-> NULL, used |-> FALSE, revoked |-> FALSE,
             expired |-> FALSE, key |-> FALSE]

Rows == [seat : Seats \cup {NULL}, user : Users \cup {NULL}, used : BOOLEAN,
         revoked : BOOLEAN, expired : BOOLEAN, key : BOOLEAN]

Idle == [op |-> "none", step |-> "idle", invite |-> NULL, seat |-> NULL,
         user |-> NULL, new |-> FALSE, member |-> FALSE, outstanding |-> {}]

\* new: the code saw no row for the user (or, in accept, no password), so it
\* writes one.  member: it saw the membership that it gives a profile to.
\* outstanding: the open invitations of the seat when it read.
Memories ==
    [op : {"none", "onboard", "resend", "managed", "email", "cancel", "accept", "mail"},
     step : {"idle", "commit", "mail"}, invite : Invites \cup {NULL},
     seat : Seats \cup {NULL}, user : Users \cup {NULL}, new : BOOLEAN,
     member : BOOLEAN, outstanding : SUBSET Invites]

\* "OWN" is a password that came with the account (memberships or tenants), or
\* from accepting the invitation of a salon that is not modelled.
Passwords == Invites \cup {NULL, "OWN"}

Init ==
    /\ account \in [Users -> {"absent", "ACTIVE"}]
    /\ password = [u \in Users |-> IF account[u] = "ACTIVE" THEN "OWN" ELSE NULL]
    /\ holder = [s \in Seats |-> NULL]
    /\ standing = [s \in Seats |-> "PROVIDER"]
    /\ profile = {}
    /\ inv = [i \in Invites |-> NoInvite]
    /\ mailed = {}
    /\ req = [r \in Requests |-> Idle]
    /\ overlapped = FALSE

-----------------------------------------------------------------------------
Issued(i) == inv[i].seat # NULL
Open(i)   == Issued(i) /\ ~ inv[i].used /\ ~ inv[i].revoked

OpenOf(s) == {i \in Invites : Open(i) /\ inv[i].seat = s}

SeatsOf(u, t) == {s \in Seats : holder[s] = u /\ TenantOf[s] = t}

\* assertEligible.  A user's status is always ACTIVE or INVITED here.
Eligible(i) == Open(i) /\ ~ inv[i].expired /\ standing[inv[i].seat] = "PROVIDER"

\* Wrong on purpose: an accepted invitation can be resent or redirected.
ActionableUsed(i) ==
    Issued(i) /\ ~ inv[i].revoked /\ standing[inv[i].seat] # "OTHER" /\ inv[i].seat \in profile

\* managedInvitation and assertInvitationActionable, which lets an expired
\* invitation be resent or redirected.
Actionable(i) ==
    Open(i) /\ standing[inv[i].seat] # "OTHER" /\ inv[i].seat \in profile

Remember(r, q) == req' = [req EXCEPT ![r] = q]
Finish(r)      == req' = [req EXCEPT ![r] = Idle]
Tables         == <<account, password, holder, standing, profile, inv, mailed>>

\* The rows that an updateMany of the open invitations of a seat reaches: all
\* that were open when the code read and still are, and of the later ones
\* those that committed before the statement took its snapshot.
Reached(q, S) ==
    /\ q.outstanding \cap OpenOf(q.seat) \subseteq S
    /\ S \subseteq OpenOf(q.seat)

Revoked(S) == [i \in Invites |->
                 IF i \in S THEN [inv[i] EXCEPT !.revoked = TRUE, !.key = FALSE] ELSE inv[i]]

\* Wrong on purpose: the outstanding invitations stay open, and no unique
\* key is in the way.
IssueMore(r, s, u, S, i) ==
    /\ ~ Issued(i)
    /\ inv' = [inv EXCEPT ![i] = [NoInvite EXCEPT !.seat = s, !.user = u, !.key = TRUE]]
    /\ Remember(r, [Idle EXCEPT !.op = "mail", !.step = "mail", !.invite = i])

\* issue: the outstanding invitations S are revoked and a new one is
\* inserted, unless an invitation of the seat that is not in S has the key.
Issue(r, s, u, S, i) ==
    /\ ~ Issued(i)
    /\ \A o \in Invites \ S : ~ (inv[o].key /\ inv[o].seat = s)
    /\ inv' = [Revoked(S) EXCEPT ![i] = [NoInvite EXCEPT !.seat = s, !.user = u, !.key = TRUE]]
    /\ Remember(r, [Idle EXCEPT !.op = "mail", !.step = "mail", !.invite = i])

Begin(r, q) == req[r] = Idle /\ Remember(r, [q EXCEPT !.step = "commit"]) /\ UNCHANGED Tables

Committing(r, op) == req[r].step = "commit" /\ req[r].op = op

-----------------------------------------------------------------------------
(* onboard: a person of any kind gets a membership and a profile at once,  *)
(* or a profile for the provider membership they have.                     *)
ReadOnboard(r, u, s) ==
    /\ IF SeatsOf(u, TenantOf[s]) = {}
       THEN holder[s] = NULL
       ELSE holder[s] = u /\ s \notin profile /\ standing[s] = "PROVIDER"
    /\ Begin(r, [Idle EXCEPT !.op = "onboard", !.user = u, !.seat = s,
                             !.new = account[u] = "absent", !.member = holder[s] = u,
                             !.outstanding = OpenOf(s)])

\* The email, the tenant and user, and the membership of a profile are unique.
CommitOnboard(r) ==
    LET q == req[r] IN
    /\ Committing(r, "onboard")
    /\ q.new => account[q.user] = "absent"
    /\ ~ q.member => holder[q.seat] = NULL /\ SeatsOf(q.user, TenantOf[q.seat]) = {}
    /\ q.seat \notin profile
    /\ account' = IF q.new THEN [account EXCEPT ![q.user] = "INVITED"] ELSE account
    /\ holder' = [holder EXCEPT ![q.seat] = q.user]
    /\ profile' = profile \cup {q.seat}
    /\ \E S \in SUBSET Invites, i \in Invites :
          Reached(q, S) /\ Issue(r, q.seat, q.user, S, i)
    /\ UNCHANGED <<password, standing, mailed>>

(* resendInvitation, by the profile, for an account not yet active.        *)
ReadResend(r, s) ==
    /\ s \in profile
    /\ ~ (password[holder[s]] # NULL /\ account[holder[s]] = "ACTIVE")
    /\ Begin(r, [Idle EXCEPT !.op = "resend", !.seat = s, !.user = holder[s],
                             !.outstanding = OpenOf(s)])

(* resendManagedInvitation, by the invitation.                             *)
ReadManaged(r, i) ==
    /\ Actionable(i)
    /\ Begin(r, [Idle EXCEPT !.op = "managed", !.seat = inv[i].seat, !.user = inv[i].user,
                             !.outstanding = OpenOf(inv[i].seat)])

CommitResend(r) ==
    LET q == req[r] IN
    /\ Committing(r, "resend") \/ Committing(r, "managed")
    /\ \E S \in SUBSET Invites, i \in Invites :
          Reached(q, S) /\ Issue(r, q.seat, q.user, S, i)
    /\ UNCHANGED <<account, password, holder, standing, profile, mailed>>

-----------------------------------------------------------------------------
(* updateInvitationEmail: the membership moves to the user of another      *)
(* address, who must not be a member of the salon.                         *)
ReadEmail(r, i, u) ==
    /\ Actionable(i)
    /\ u # inv[i].user
    /\ SeatsOf(u, TenantOf[inv[i].seat]) = {}
    /\ Begin(r, [Idle EXCEPT !.op = "email", !.invite = i, !.seat = inv[i].seat, !.user = u,
                             !.new = account[u] = "absent",
                             !.outstanding = OpenOf(inv[i].seat)])

\* Wrong on purpose: the membership stays with the user it had.
CommitEmailInPlace(r) ==
    LET q == req[r] IN
    /\ Committing(r, "email")
    /\ account' = IF q.new THEN [account EXCEPT ![q.user] = "INVITED"] ELSE account
    /\ \E S \in SUBSET Invites, i \in Invites :
          Reached(q, S) /\ Issue(r, q.seat, q.user, S, i)
    /\ UNCHANGED <<password, holder, standing, profile, mailed>>

CommitEmail(r) ==
    LET q == req[r] IN
    /\ Committing(r, "email")
    /\ q.new => account[q.user] = "absent"
    /\ SeatsOf(q.user, TenantOf[q.seat]) \subseteq {q.seat}
    /\ account' = IF q.new THEN [account EXCEPT ![q.user] = "INVITED"] ELSE account
    /\ holder' = [holder EXCEPT ![q.seat] = q.user]
    /\ \E S \in SUBSET Invites, i \in Invites :
          Reached(q, S) /\ Issue(r, q.seat, q.user, S, i)
    /\ UNCHANGED <<password, standing, profile, mailed>>

(* cancelInvitation.                                                       *)
ReadCancel(r, i) ==
    /\ Actionable(i) /\ ~ inv[i].expired
    /\ Begin(r, [Idle EXCEPT !.op = "cancel", !.invite = i])

\* Wrong on purpose: the unique key stays with the cancelled invitation.
CommitCancelKey(r) ==
    /\ Committing(r, "cancel")
    /\ Open(req[r].invite)
    /\ inv' = [inv EXCEPT ![req[r].invite].revoked = TRUE]
    /\ Finish(r)
    /\ UNCHANGED <<account, password, holder, standing, profile, mailed>>

\* Wrong on purpose: cancelled whatever has become of it since the read.
CommitCancelLate(r) ==
    /\ Committing(r, "cancel")
    /\ inv' = Revoked({req[r].invite})
    /\ Finish(r)
    /\ UNCHANGED <<account, password, holder, standing, profile, mailed>>

CommitCancel(r) ==
    /\ Committing(r, "cancel")
    /\ Open(req[r].invite)
    /\ inv' = Revoked({req[r].invite})
    /\ Finish(r)
    /\ UNCHANGED <<account, password, holder, standing, profile, mailed>>

-----------------------------------------------------------------------------
(* accept, with a token that was mailed.                                   *)
ReadAccept(r, i) ==
    /\ i \in mailed /\ Eligible(i)
    /\ Begin(r, [Idle EXCEPT !.op = "accept", !.invite = i, !.seat = inv[i].seat,
                             !.user = inv[i].user, !.new = password[inv[i].user] = NULL,
                             !.outstanding = OpenOf(inv[i].seat) \ {i}])

\* Wrong on purpose: the account of the new password stays INVITED.
AcceptPasswordOnly(r, S) ==
    LET q == req[r]
        row == [inv[q.invite] EXCEPT !.used = TRUE, !.key = FALSE]
    IN  /\ password' = IF q.new THEN [password EXCEPT ![q.user] = q.invite] ELSE password
        /\ inv' = [Revoked(S) EXCEPT ![q.invite] = row]
        /\ Finish(r)
        /\ UNCHANGED <<account, holder, standing, profile, mailed>>

Accept(r, S) ==
    LET q == req[r]
        row == [inv[q.invite] EXCEPT !.used = TRUE, !.key = FALSE]
    IN  /\ password' = IF q.new THEN [password EXCEPT ![q.user] = q.invite] ELSE password
        /\ account' = [account EXCEPT ![q.user] = "ACTIVE"]
        /\ inv' = [Revoked(S) EXCEPT ![q.invite] = row]
        /\ Finish(r)
        /\ UNCHANGED <<holder, standing, profile, mailed>>

\* Wrong on purpose: the password is set whether or not there was one.
CommitAcceptReset(r) ==
    /\ Committing(r, "accept")
    /\ Open(req[r].invite)
    /\ password' = [password EXCEPT ![req[r].user] = req[r].invite]
    /\ account' = [account EXCEPT ![req[r].user] = "ACTIVE"]
    /\ inv' = [inv EXCEPT ![req[r].invite].used = TRUE, ![req[r].invite].key = FALSE]
    /\ Finish(r)
    /\ UNCHANGED <<holder, standing, profile, mailed>>

\* Expiry is compared with the time of the read; the membership is not
\* looked at again.
CommitAccept(r) ==
    LET q == req[r] IN
    /\ Committing(r, "accept")
    /\ Open(q.invite)
    /\ \E S \in SUBSET (Invites \ {q.invite}) : Reached(q, S) /\ Accept(r, S)

-----------------------------------------------------------------------------
(* deliver, after the commit.                                              *)
Mail(r) ==
    /\ req[r].step = "mail"
    /\ mailed' = mailed \cup {req[r].invite}
    /\ Finish(r)
    /\ UNCHANGED <<account, password, holder, standing, profile, inv>>

\* A transaction that is rolled back, or a mail that fails.
Abort(r) ==
    /\ req[r] # Idle
    /\ Finish(r)
    /\ UNCHANGED Tables

(* Around it: time, and MembershipsService.                                *)
Expire(i) ==
    /\ Issued(i) /\ ~ inv[i].expired
    /\ inv' = [inv EXCEPT ![i].expired = TRUE]
    /\ UNCHANGED <<account, password, holder, standing, profile, mailed, req>>

\* create, for the role SERVICE_PROVIDER: an account it makes is active.
Join(s, u) ==
    /\ holder[s] = NULL
    /\ SeatsOf(u, TenantOf[s]) = {}
    /\ holder' = [holder EXCEPT ![s] = u]
    /\ account' = [account EXCEPT ![u] = IF @ = "absent" THEN "ACTIVE" ELSE @]
    /\ password' = [password EXCEPT ![u] = IF account[u] = "absent" THEN "OWN" ELSE @]
    /\ UNCHANGED <<standing, profile, inv, mailed, req>>

\* updateRole and setStatus.
SetStanding(s, st) ==
    /\ holder[s] # NULL /\ standing[s] # st
    /\ standing' = [standing EXCEPT ![s] = st]
    /\ UNCHANGED <<account, password, holder, profile, inv, mailed, req>>

\* What a salon that is not among the seats' does to a person all salons know:
\* it onboards somebody new, or gives who has none a password.
OnboardElsewhere(u) ==
    /\ account[u] = "absent"
    /\ account' = [account EXCEPT ![u] = "INVITED"]
    /\ UNCHANGED <<password, holder, standing, profile, inv, mailed, req>>

ActivateElsewhere(u) ==
    /\ account[u] = "INVITED" /\ password[u] = NULL
    /\ account' = [account EXCEPT ![u] = "ACTIVE"]
    /\ password' = [password EXCEPT ![u] = "OWN"]
    /\ UNCHANGED <<holder, standing, profile, inv, mailed, req>>

Managing(r) ==
    \/ \E u \in Users, s \in Seats : ReadOnboard(r, u, s)
    \/ CommitOnboard(r)
    \/ \E s \in Seats : ReadResend(r, s)
    \/ \E i \in Invites : ReadManaged(r, i)
    \/ CommitResend(r)
    \/ \E i \in Invites, u \in Users : ReadEmail(r, i, u)
    \/ CommitEmail(r)
    \/ \E i \in Invites : ReadCancel(r, i)
    \/ CommitCancel(r)

Step ==
    \/ \E r \in Requests :
          \/ Managing(r)
          \/ \E i \in Invites : ReadAccept(r, i)
          \/ CommitAccept(r)
          \/ Mail(r)
          \/ Abort(r)
    \/ \E i \in Invites : Expire(i)
    \/ \E s \in Seats, u \in Users : Join(s, u)
    \/ \E s \in Seats, st \in {"PROVIDER", "SUSPENDED", "OTHER"} : SetStanding(s, st)

\* Mail is sent after the transaction, and no request waits for it.
InTransaction(r) == req[r].step = "commit"

\* The history only watches; no step depends on it.
Watch ==
    overlapped' = (overlapped \/ \E r, s \in Requests :
                                    r # s /\ InTransaction(r)' /\ InTransaction(s)')

Next ==
    \/ Step /\ Watch
    \/ /\ \E u \in Users : OnboardElsewhere(u) \/ ActivateElsewhere(u)
       /\ overlapped' = (overlapped \/ \E r \in Requests : InTransaction(r))

Spec == Init /\ [][Next]_vars

-----------------------------------------------------------------------------
(* What holds however transactions interleave, abort and lose mail.        *)

\* The tables and requests are well-formed; a user is active exactly when
\* there is a password to sign in with.
TypeOK ==
    /\ account \in [Users -> {"absent", "INVITED", "ACTIVE"}]
    /\ password \in [Users -> Passwords]
    /\ holder \in [Seats -> Users \cup {NULL}]
    /\ standing \in [Seats -> {"PROVIDER", "SUSPENDED", "OTHER"}]
    /\ profile \subseteq {s \in Seats : holder[s] # NULL}
    /\ inv \in [Invites -> Rows]
    /\ mailed \subseteq {i \in Invites : Issued(i)}
    /\ req \in [Requests -> Memories]
    /\ overlapped \in BOOLEAN
    /\ \A u \in Users : account[u] = "ACTIVE" <=> password[u] # NULL

\* At most one invitation of a membership can still be accepted, whatever
\* issues, resends and redirections race (invitations.service.ts:54-68).
OneOutstanding ==
    \A i, j \in Invites : Open(i) /\ Open(j) /\ inv[i].seat = inv[j].seat => i = j

\* The unique key is with the open invitation and nowhere else: a key left
\* on a closed one would make every later issue for the membership fail
\* (invitations.service.ts:56, 68, 167 and 177).
KeyIffOpen == \A i \in Invites : inv[i].key <=> Open(i)

\* Whether an invitation was accepted or revoked is decided once: an
\* acceptance is not cancelled, nor a cancelled invitation accepted, by a
\* request that read it before (service-providers.service.ts:424-432).  A token
\* is single-use (README.md:177): it sets a password when it is accepted, for
\* the user it was issued to, and one that is refused leaves none, although it
\* had already written it (invitations.service.ts:149-169).
DecidedOnce ==
    [][/\ \A i \in Invites : inv[i].used \/ inv[i].revoked =>
             inv'[i].used = inv[i].used /\ inv'[i].revoked = inv[i].revoked
       /\ \A u \in Users, i \in Invites : password'[u] = i /\ password[u] # i =>
             inv'[i].used /\ ~ inv[i].used /\ inv[i].user = u]_vars

\* A membership whose invitation has been accepted is not moved to another
\* address: "Invitation has already been accepted"
\* (service-providers.service.ts:466-470).  Broken when transactions overlap.
HolderAccepted ==
    \A i \in Invites : inv[i].used => holder[inv[i].seat] = inv[i].user

(* What holds as long as transactions have not overlapped.                 *)

\* A membership whose invitation has been accepted stays with the one who
\* accepted it (service-providers.service.ts:344-413 and 466-470).
AcceptedStays == overlapped \/ HolderAccepted

\* The invitation that can be accepted is addressed to the user who holds
\* the membership (service-providers.service.ts:392-402).
OpenForHolder ==
    overlapped \/ \A i \in Invites : Open(i) => holder[inv[i].seat] = inv[i].user

\* No acceptance replaces a password that a user already has, in whatever
\* salon it was set (invitations.service.ts:149-164).
PasswordKept ==
    [][overlapped \/ \A u \in Users : password[u] # NULL => password'[u] = password[u]]_vars
=============================================================================

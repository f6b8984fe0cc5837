-------------------------- MODULE Invitations_proofs --------------------------
(***************************************************************************)
(* Proofs about Invitations, for every number of invitations, memberships, *)
(* people, salons and requests.                                            *)
(***************************************************************************)
EXTENDS Invitations, TLAPS

-----------------------------------------------------------------------------
(* The inductive invariants.                                               *)

\* Rows that have not been inserted are blank.
Blank == \A i \in Invites : ~ Issued(i) => inv[i] = NoInvite

\* An invitation is for a membership with a profile and a person with an account.
Placed ==
    \A i \in Invites : Issued(i) =>
        /\ inv[i].seat \in profile
        /\ inv[i].user \in Users /\ account[inv[i].user] # "absent"

HoldersKnown == \A s \in Seats : holder[s] # NULL => account[holder[s]] # "absent"

\* What a request remembers of the rows it read, as far as nobody can undo it.
Facts(q) ==
    /\ q.step = "commit" /\ q.op \in {"onboard", "resend", "managed", "email"} =>
         q.seat \in Seats /\ q.user \in Users /\ (q.new \/ account[q.user] # "absent")
    /\ q.step = "commit" /\ q.op \in {"resend", "managed"} => account[q.user] # "absent"
    /\ q.step = "commit" /\ q.op \in {"resend", "managed", "email"} => q.seat \in profile
    /\ q.step = "commit" /\ q.op \in {"cancel", "accept"} => q.invite \in Invites /\ Issued(q.invite)
    /\ q.step = "commit" /\ q.op = "accept" =>
         /\ q.seat = inv[q.invite].seat /\ q.user = inv[q.invite].user
         /\ q.new \/ password[q.user] # NULL
    /\ q.step = "mail" => q.invite \in Invites /\ Issued(q.invite)

Remembered == \A r \in Requests : Facts(req[r])

TypeInv == TypeOK /\ Blank /\ Placed /\ HoldersKnown /\ Remembered

KeyInv == TypeInv /\ KeyIffOpen /\ OneOutstanding

\* What holds until transactions overlap.
Alone == \A r, o \in Requests : InTransaction(r) /\ InTransaction(o) => r = o

\* An invitation that is open or accepted is for the holder of its membership,
\* who has a password once it is accepted; and then no other is open.
Settled ==
    /\ \A i \in Invites : Open(i) \/ inv[i].used => holder[inv[i].seat] = inv[i].user
    /\ \A i \in Invites : inv[i].used => password[inv[i].user] # NULL
    /\ \A i, j \in Invites : inv[i].used /\ Open(j) => inv[i].seat # inv[j].seat

\* What a request has read is still so.
Current(q) ==
    /\ q.step = "commit" /\ q.op \in {"resend", "managed", "email"} =>
         \A i \in Invites : inv[i].used => inv[i].seat # q.seat
    /\ q.step = "commit" /\ q.op \in {"resend", "managed"} => q.user = holder[q.seat]
    /\ q.step = "commit" /\ q.op = "accept" /\ q.new => password[q.user] = NULL

Serial == overlapped \/ (Alone /\ Settled /\ \A r \in Requests : Current(req[r]))

SerialInv == KeyInv /\ Serial

-----------------------------------------------------------------------------
(* Steps.                                                                  *)

\* One step, with the parameters of each action named.
LEMMA NextCases ==
  ASSUME NEW ACTION P, Next,
         ASSUME NEW r \in Requests, NEW u \in Users, NEW s \in Seats, ReadOnboard(r, u, s) PROVE P,
         ASSUME NEW r \in Requests, CommitOnboard(r) PROVE P,
         ASSUME NEW r \in Requests, NEW s \in Seats, ReadResend(r, s) PROVE P,
         ASSUME NEW r \in Requests, NEW i \in Invites, ReadManaged(r, i) PROVE P,
         ASSUME NEW r \in Requests, CommitResend(r) PROVE P,
         ASSUME NEW r \in Requests, NEW i \in Invites, NEW u \in Users, ReadEmail(r, i, u) PROVE P,
         ASSUME NEW r \in Requests, CommitEmail(r) PROVE P,
         ASSUME NEW r \in Requests, NEW i \in Invites, ReadCancel(r, i) PROVE P,
         ASSUME NEW r \in Requests, CommitCancel(r) PROVE P,
         ASSUME NEW r \in Requests, NEW i \in Invites, ReadAccept(r, i) PROVE P,
         ASSUME NEW r \in Requests, CommitAccept(r) PROVE P,
         ASSUME NEW r \in Requests, Mail(r) PROVE P,
         ASSUME NEW r \in Requests, Abort(r) PROVE P,
         ASSUME NEW i \in Invites, Expire(i) PROVE P,
         ASSUME NEW s \in Seats, NEW u \in Users, Join(s, u) PROVE P,
         ASSUME NEW s \in Seats, NEW st \in {"PROVIDER", "SUSPENDED", "OTHER"},
                SetStanding(s, st) PROVE P,
         ASSUME NEW u \in Users, OnboardElsewhere(u) PROVE P,
         ASSUME NEW u \in Users, ActivateElsewhere(u) PROVE P
  PROVE  P
  BY DEF Next, Step, Managing

\* What a new invitation makes of the rows.
RowsIssued(s, u, S, i) ==
    /\ inv' \in [Invites -> Rows]
    /\ inv'[i].seat = s /\ inv'[i].user = u /\ inv'[i].key
    /\ ~ inv'[i].used /\ ~ inv'[i].revoked
    /\ ~ Issued(i)
    /\ \A o \in Invites \ {i} :
          /\ inv'[o].seat = inv[o].seat /\ inv'[o].user = inv[o].user
          /\ inv'[o].used = inv[o].used
          /\ o \in S => inv'[o].revoked /\ ~ inv'[o].key
          /\ o \notin S => inv'[o] = inv[o]
    /\ \A o \in Invites \ S : inv[o].seat = s => ~ inv[o].key

LEMMA IssueRows ==
  ASSUME TypeOK, NEW r \in Requests, NEW s \in Seats, NEW u \in Users,
         NEW S \in SUBSET Invites, NEW i \in Invites, Issue(r, s, u, S, i)
  PROVE  RowsIssued(s, u, S, i)
  <1>1. inv \in [Invites -> Rows]
    BY DEF TypeOK
  <1> DEFINE new == [NoInvite EXCEPT !.seat = s, !.user = u, !.key = TRUE]
  <1>2. /\ new \in Rows /\ new.seat = s /\ new.user = u /\ new.key
        /\ ~ new.used /\ ~ new.revoked
    BY DEF NoInvite, Rows
  <1> HIDE DEF new
  <1>3. inv' = [Revoked(S) EXCEPT ![i] = new]
    BY DEF Issue, new
  <1>4. \A o \in Invites :
           LET x == [inv[o] EXCEPT !.revoked = TRUE, !.key = FALSE] IN
           /\ x \in Rows /\ x.seat = inv[o].seat /\ x.user = inv[o].user
           /\ x.used = inv[o].used /\ x.revoked /\ ~ x.key
    BY <1>1 DEF Rows
  <1>5. inv' = [o \in Invites |-> IF o = i THEN new ELSE Revoked(S)[o]]
    BY <1>3 DEF Revoked
  <1>6. \A o \in Invites \ {i} :
           inv'[o] = IF o \in S THEN [inv[o] EXCEPT !.revoked = TRUE, !.key = FALSE] ELSE inv[o]
    BY <1>5 DEF Revoked
  <1>7. inv'[i] = new
    BY <1>5
  <1>8. \A o \in Invites : inv'[o] \in Rows
    BY <1>1, <1>2, <1>4, <1>6, <1>7
  <1>9. inv' \in [Invites -> Rows]
    BY <1>5, <1>8
  <1>10. ~ Issued(i) /\ \A o \in Invites \ S : ~ (inv[o].key /\ inv[o].seat = s)
    BY DEF Issue
  <1> QED
    BY <1>1, <1>2, <1>4, <1>6, <1>7, <1>9, <1>10 DEF RowsIssued

\* What an acceptance and a cancellation make of the rows.
RowsAccepted(i, S) ==
    /\ inv' \in [Invites -> Rows]
    /\ inv'[i].seat = inv[i].seat /\ inv'[i].user = inv[i].user
    /\ inv'[i].revoked = inv[i].revoked /\ inv'[i].used /\ ~ inv'[i].key
    /\ \A o \in Invites \ {i} :
          /\ inv'[o].seat = inv[o].seat /\ inv'[o].user = inv[o].user
          /\ inv'[o].used = inv[o].used
          /\ o \in S => inv'[o].revoked /\ ~ inv'[o].key
          /\ o \notin S => inv'[o] = inv[o]

RowsCancelled(i) ==
    /\ inv' \in [Invites -> Rows]
    /\ inv'[i].seat = inv[i].seat /\ inv'[i].user = inv[i].user
    /\ inv'[i].used = inv[i].used /\ inv'[i].revoked /\ ~ inv'[i].key
    /\ \A o \in Invites \ {i} : inv'[o] = inv[o]

LEMMA AcceptRows ==
  ASSUME TypeOK, NEW r \in Requests, req[r].invite \in Invites, NEW S \in SUBSET Invites,
         Accept(r, S)
  PROVE  RowsAccepted(req[r].invite, S)
  <1>1. inv \in [Invites -> Rows]
    BY DEF TypeOK
  <1> DEFINE i == req[r].invite
             row == [inv[i] EXCEPT !.used = TRUE, !.key = FALSE]
  <1>2. /\ row \in Rows /\ row.seat = inv[i].seat /\ row.user = inv[i].user
        /\ row.revoked = inv[i].revoked /\ row.used /\ ~ row.key
    BY <1>1 DEF Rows
  <1>3. inv' = [Revoked(S) EXCEPT ![i] = row]
    BY DEF Accept
  <1> HIDE DEF row
  <1>4. \A o \in Invites :
           LET x == [inv[o] EXCEPT !.revoked = TRUE, !.key = FALSE] IN
           /\ x \in Rows /\ x.seat = inv[o].seat /\ x.user = inv[o].user
           /\ x.used = inv[o].used /\ x.revoked /\ ~ x.key
    BY <1>1 DEF Rows
  <1>5. inv' = [o \in Invites |-> IF o = i THEN row ELSE Revoked(S)[o]]
    BY <1>3 DEF Revoked
  <1>6. \A o \in Invites \ {i} :
           inv'[o] = IF o \in S THEN [inv[o] EXCEPT !.revoked = TRUE, !.key = FALSE] ELSE inv[o]
    BY <1>5 DEF Revoked
  <1>7. inv'[i] = row
    BY <1>5
  <1>8. \A o \in Invites : inv'[o] \in Rows
    BY <1>1, <1>2, <1>4, <1>6, <1>7
  <1>9. inv' \in [Invites -> Rows]
    BY <1>5, <1>8
  <1> QED
    BY <1>1, <1>2, <1>4, <1>6, <1>7, <1>9 DEF RowsAccepted

LEMMA CancelRows ==
  ASSUME TypeOK, NEW r \in Requests, req[r].invite \in Invites, CommitCancel(r)
  PROVE  RowsCancelled(req[r].invite)
  <1>1. inv \in [Invites -> Rows]
    BY DEF TypeOK
  <1>2. \A o \in Invites :
           LET x == [inv[o] EXCEPT !.revoked = TRUE, !.key = FALSE] IN
           /\ x \in Rows /\ x.seat = inv[o].seat /\ x.user = inv[o].user
           /\ x.used = inv[o].used /\ x.revoked /\ ~ x.key
    BY <1>1 DEF Rows
  <1>3. \A o \in Invites :
           inv'[o] = IF o = req[r].invite THEN [inv[o] EXCEPT !.revoked = TRUE, !.key = FALSE]
                     ELSE inv[o]
    BY DEF CommitCancel, Revoked
  <1>4. inv' = [o \in Invites |-> inv'[o]]
    BY DEF CommitCancel, Revoked
  <1> QED
    BY <1>1, <1>2, <1>3, <1>4 DEF RowsCancelled

-----------------------------------------------------------------------------
(* Type correctness.                                                       *)

\* Nothing is taken back: invitations are not readdressed, and memberships,
\* profiles, accounts and passwords stay.
Grows ==
    /\ \A i \in Invites : Issued(i) =>
          Issued(i)' /\ inv'[i].seat = inv[i].seat /\ inv'[i].user = inv[i].user
    /\ profile \subseteq profile'
    /\ \A s \in Seats : holder[s] # NULL => holder'[s] # NULL
    /\ \A u \in Users : account[u] # "absent" => account'[u] # "absent"
    /\ \A u \in Users : password[u] # NULL => password'[u] # NULL

TablesOK ==
    /\ account \in [Users -> {"absent", "INVITED", "ACTIVE"}]
    /\ password \in [Users -> Passwords]
    /\ holder \in [Seats -> Users \cup {NULL}]
    /\ standing \in [Seats -> {"PROVIDER", "SUSPENDED", "OTHER"}]
    /\ profile \subseteq {s \in Seats : holder[s] # NULL}
    /\ inv \in [Invites -> Rows]
    /\ mailed \subseteq {i \in Invites : Issued(i)}
    /\ overlapped \in BOOLEAN
    /\ \A u \in Users : account[u] = "ACTIVE" <=> password[u] # NULL

\* The step of one request: the others remember what they did.
LEMMA Served ==
  ASSUME TypeInv, Grows, NEW r \in Requests,
         req' = [req EXCEPT ![r] = req'[r]], req'[r] \in Memories, Facts(req[r])'
  PROVE  (req \in [Requests -> Memories] /\ Remembered)'
  <1>1. req \in [Requests -> Memories] /\ Remembered /\ Placed
    BY DEF TypeInv, TypeOK
  <1>2. \A o \in Requests \ {r} : req'[o] = req[o]
    BY <1>1
  <1>3. ASSUME NEW o \in Requests, o # r PROVE Facts(req[o])'
    <2>1. req'[o] = req[o] /\ Facts(req[o])
      BY <1>1, <1>2, <1>3 DEF Remembered
    <2>2. \A i \in Invites : Issued(i) => inv[i].user \in Users
      BY <1>1 DEF Placed
    <2> QED
      BY <2>1, <2>2 DEF Facts, Grows
  <1> QED
    BY <1>1, <1>3 DEF Remembered

LEMMA IdleFacts == Idle \in Memories /\ Facts(Idle)
  BY DEF Idle, Memories, Facts

\* A step that only reads, or that is undone.
LEMMA ReadStep ==
  ASSUME TypeInv, UNCHANGED Tables, overlapped' \in BOOLEAN, NEW r \in Requests,
         req' = [req EXCEPT ![r] = req'[r]], req'[r] \in Memories, Facts(req[r])'
  PROVE  TypeInv'
  <1>1. TablesOK' /\ Blank' /\ Placed' /\ HoldersKnown'
    BY DEF TypeInv, TypeOK, TablesOK, Blank, Placed, HoldersKnown, Issued, Tables
  <1>2. Grows
    BY DEF Grows, Tables, Issued
  <1> QED
    BY <1>1, <1>2, Served DEF TypeInv, TypeOK, TablesOK

\* The memory of a request that ends.
LEMMA FinishFacts ==
  ASSUME TypeInv, NEW r \in Requests, Finish(r)
  PROVE  req' = [req EXCEPT ![r] = req'[r]] /\ req'[r] \in Memories /\ Facts(req[r])'
         /\ req'[r] = Idle
  <1>1. req' = [req EXCEPT ![r] = Idle] /\ req'[r] = Idle
    BY DEF Finish, TypeInv, TypeOK
  <1>2. req'[r] \in Memories
    BY <1>1, IdleFacts
  <1>3. Facts(req[r])'
    BY <1>1 DEF Facts, Idle
  <1> QED
    BY <1>1, <1>2, <1>3

\* A new invitation, whatever else its transaction writes.
LEMMA IssueStep ==
  ASSUME TypeInv, NEW r \in Requests, NEW s \in Seats, NEW u \in Users,
         NEW S \in SUBSET Invites, NEW i \in Invites, Issue(r, s, u, S, i),
         \A o \in S : Open(o),
         s \in profile', profile \subseteq profile', account'[u] # "absent",
         account' \in [Users -> {"absent", "INVITED", "ACTIVE"}],
         \A x \in Users : account[x] # "absent" => account'[x] # "absent",
         \A x \in Users : account'[x] = "ACTIVE" <=> account[x] = "ACTIVE",
         holder' \in [Seats -> Users \cup {NULL}],
         \A x \in Seats : holder[x] # NULL => holder'[x] # NULL,
         \A x \in Seats : holder'[x] # NULL => account'[holder'[x]] # "absent",
         profile' \subseteq {x \in Seats : holder'[x] # NULL},
         UNCHANGED <<password, standing, mailed>>, overlapped' \in BOOLEAN
  PROVE  TypeInv' /\ Grows
  <1>1. /\ inv' \in [Invites -> Rows]
        /\ inv'[i].seat = s /\ inv'[i].user = u /\ ~ Issued(i)
        /\ ~ inv'[i].used /\ ~ inv'[i].revoked
        /\ \A o \in Invites \ {i} :
              /\ inv'[o].seat = inv[o].seat /\ inv'[o].user = inv[o].user
              /\ o \notin S => inv'[o] = inv[o]
    <2>1. RowsIssued(s, u, S, i)
      BY IssueRows DEF TypeInv
    <2> QED
      BY <2>1 DEF RowsIssued
  <1>2. s # NULL /\ u # NULL
    BY NullAssumption
  <1>3. Issued(i)' /\ \A o \in Invites \ {i} : Issued(o)' <=> Issued(o)
    BY <1>1, <1>2 DEF Issued
  <1>4. Grows
    BY <1>1, <1>3 DEF Grows
  <1>5. TablesOK'
    BY <1>1, <1>3 DEF TablesOK, TypeInv, TypeOK
  <1>6. \A o \in Invites \ {i} : ~ Issued(o) => inv'[o] = inv[o]
    BY <1>1 DEF Open
  <1>7. Blank'
    BY <1>1, <1>3, <1>6 DEF Blank, TypeInv
  <1>8. Placed'
    BY <1>1, <1>3 DEF Placed, TypeInv
  <1>9. HoldersKnown'
    BY DEF HoldersKnown
  <1>10. req' = [req EXCEPT ![r] = req'[r]] /\ req'[r] \in Memories /\ Facts(req[r])'
    <2>1. req'[r] = [Idle EXCEPT !.op = "mail", !.step = "mail", !.invite = i]
      BY DEF Issue, Remember, TypeInv, TypeOK
    <2>2. req'[r] \in Memories /\ req'[r].step = "mail" /\ req'[r].invite = i
      BY <2>1 DEF Idle, Memories
    <2>3. Facts(req[r])'
      BY <1>3, <2>2 DEF Facts
    <2> QED
      BY <2>1, <2>2, <2>3 DEF Issue, Remember
  <1> QED
    BY <1>4, <1>5, <1>7, <1>8, <1>9, <1>10, Served DEF TypeInv, TypeOK, TablesOK

\* What a request begins with is what it has read.
LEMMA BeginStep ==
  ASSUME TypeInv, overlapped' \in BOOLEAN, NEW r \in Requests, UNCHANGED Tables,
         req' = [req EXCEPT ![r] = req'[r]], req'[r] \in Memories, Facts(req[r])'
  PROVE  TypeInv' /\ Grows
  <1>1. Grows
    BY DEF Grows, Tables, Issued
  <1> QED
    BY <1>1, ReadStep

LEMMA ReadOnboardStep ==
  ASSUME TypeInv, overlapped' \in BOOLEAN, NEW r \in Requests, NEW u \in Users, NEW s \in Seats,
         ReadOnboard(r, u, s)
  PROVE  TypeInv' /\ Grows
  <1> DEFINE q == [Idle EXCEPT !.op = "onboard", !.user = u, !.seat = s,
                               !.new = account[u] = "absent", !.member = holder[s] = u,
                               !.outstanding = OpenOf(s), !.step = "commit"]
  <1>1. req' = [req EXCEPT ![r] = q] /\ req'[r] = q /\ UNCHANGED Tables
    BY DEF ReadOnboard, Begin, Remember, TypeInv, TypeOK
  <1>2. /\ q \in Memories /\ q.op = "onboard" /\ q.step = "commit"
        /\ q.seat = s /\ q.user = u /\ q.new = (account[u] = "absent")
    BY DEF Idle, Memories, OpenOf
  <1> HIDE DEF q
  <1>3. UNCHANGED <<account, password, holder, standing, profile, inv, mailed>>
    BY <1>1 DEF Tables
  <1>4. Facts(req[r])'
    BY <1>1, <1>2, <1>3 DEF Facts
  <1> QED
    BY <1>1, <1>2, <1>4, BeginStep

LEMMA ReadResendStep ==
  ASSUME TypeInv, overlapped' \in BOOLEAN, NEW r \in Requests, NEW s \in Seats, ReadResend(r, s)
  PROVE  TypeInv' /\ Grows
  <1> DEFINE q == [Idle EXCEPT !.op = "resend", !.seat = s, !.user = holder[s],
                               !.outstanding = OpenOf(s), !.step = "commit"]
  <1>1. req' = [req EXCEPT ![r] = q] /\ req'[r] = q /\ UNCHANGED Tables /\ s \in profile
    BY DEF ReadResend, Begin, Remember, TypeInv, TypeOK
  <1>2. holder[s] \in Users /\ account[holder[s]] # "absent"
    BY <1>1 DEF TypeInv, TypeOK, HoldersKnown
  <1>3. /\ q \in Memories /\ q.op = "resend" /\ q.step = "commit"
        /\ q.seat = s /\ q.user = holder[s] /\ q.new = FALSE
    BY <1>2 DEF Idle, Memories, OpenOf
  <1> HIDE DEF q
  <1>4. UNCHANGED <<account, password, holder, standing, profile, inv, mailed>>
    BY <1>1 DEF Tables
  <1>5. Facts(req[r])'
    BY <1>1, <1>2, <1>3, <1>4 DEF Facts
  <1> QED
    BY <1>1, <1>3, <1>5, BeginStep

LEMMA ReadManagedStep ==
  ASSUME TypeInv, overlapped' \in BOOLEAN, NEW r \in Requests, NEW i \in Invites, ReadManaged(r, i)
  PROVE  TypeInv' /\ Grows
  <1> DEFINE q == [Idle EXCEPT !.op = "managed", !.seat = inv[i].seat, !.user = inv[i].user,
                               !.outstanding = OpenOf(inv[i].seat), !.step = "commit"]
  <1>1. req' = [req EXCEPT ![r] = q] /\ req'[r] = q /\ UNCHANGED Tables /\ Issued(i)
    BY DEF ReadManaged, Actionable, Open, Begin, Remember, TypeInv, TypeOK
  <1>2. /\ inv[i].seat \in profile /\ inv[i].seat \in Seats
        /\ inv[i].user \in Users /\ account[inv[i].user] # "absent"
    BY <1>1 DEF TypeInv, TypeOK, Placed
  <1>3. /\ q \in Memories /\ q.op = "managed" /\ q.step = "commit"
        /\ q.seat = inv[i].seat /\ q.user = inv[i].user /\ q.new = FALSE
    BY <1>2 DEF Idle, Memories, OpenOf
  <1> HIDE DEF q
  <1>4. UNCHANGED <<account, password, holder, standing, profile, inv, mailed>>
    BY <1>1 DEF Tables
  <1>5. Facts(req[r])'
    BY <1>1, <1>2, <1>3, <1>4 DEF Facts
  <1> QED
    BY <1>1, <1>3, <1>5, BeginStep

LEMMA ReadEmailStep ==
  ASSUME TypeInv, overlapped' \in BOOLEAN, NEW r \in Requests, NEW i \in Invites, NEW u \in Users,
         ReadEmail(r, i, u)
  PROVE  TypeInv' /\ Grows
  <1> DEFINE q == [Idle EXCEPT !.op = "email", !.invite = i, !.seat = inv[i].seat, !.user = u,
                               !.new = account[u] = "absent",
                               !.outstanding = OpenOf(inv[i].seat), !.step = "commit"]
  <1>1. req' = [req EXCEPT ![r] = q] /\ req'[r] = q /\ UNCHANGED Tables /\ Issued(i)
    BY DEF ReadEmail, Actionable, Open, Begin, Remember, TypeInv, TypeOK
  <1>2. inv[i].seat \in profile /\ inv[i].seat \in Seats
    BY <1>1 DEF TypeInv, TypeOK, Placed
  <1>3. /\ q \in Memories /\ q.op = "email" /\ q.step = "commit"
        /\ q.seat = inv[i].seat /\ q.user = u /\ q.new = (account[u] = "absent")
    BY <1>2 DEF Idle, Memories, OpenOf
  <1> HIDE DEF q
  <1>4. UNCHANGED <<account, password, holder, standing, profile, inv, mailed>>
    BY <1>1 DEF Tables
  <1>5. Facts(req[r])'
    <2>1. req'[r].new \/ account'[req'[r].user] # "absent"
      BY <1>1, <1>3, <1>4
    <2> QED
      BY <1>1, <1>2, <1>3, <1>4, <2>1 DEF Facts
  <1> QED
    BY <1>1, <1>3, <1>5, BeginStep

LEMMA ReadCancelStep ==
  ASSUME TypeInv, overlapped' \in BOOLEAN, NEW r \in Requests, NEW i \in Invites, ReadCancel(r, i)
  PROVE  TypeInv' /\ Grows
  <1> DEFINE q == [Idle EXCEPT !.op = "cancel", !.invite = i, !.step = "commit"]
  <1>1. req' = [req EXCEPT ![r] = q] /\ req'[r] = q /\ UNCHANGED Tables /\ Issued(i)
    BY DEF ReadCancel, Actionable, Open, Begin, Remember, TypeInv, TypeOK
  <1>2. q \in Memories /\ q.op = "cancel" /\ q.step = "commit" /\ q.invite = i
    BY DEF Idle, Memories
  <1> HIDE DEF q
  <1>3. Issued(i)'
    BY <1>1 DEF Tables, Issued
  <1>4. Facts(req[r])'
    BY <1>1, <1>2, <1>3 DEF Facts
  <1> QED
    BY <1>1, <1>2, <1>4, BeginStep

LEMMA ReadAcceptStep ==
  ASSUME TypeInv, overlapped' \in BOOLEAN, NEW r \in Requests, NEW i \in Invites, ReadAccept(r, i)
  PROVE  TypeInv' /\ Grows
  <1> DEFINE q == [Idle EXCEPT !.op = "accept", !.invite = i, !.seat = inv[i].seat,
                               !.user = inv[i].user, !.new = password[inv[i].user] = NULL,
                               !.outstanding = OpenOf(inv[i].seat) \ {i}, !.step = "commit"]
  <1>1. req' = [req EXCEPT ![r] = q] /\ req'[r] = q /\ UNCHANGED Tables /\ Issued(i)
    BY DEF ReadAccept, Eligible, Open, Begin, Remember, TypeInv, TypeOK
  <1>2. inv[i].seat \in Seats /\ inv[i].user \in Users
    BY <1>1 DEF TypeInv, TypeOK, Placed
  <1>3. /\ q \in Memories /\ q.op = "accept" /\ q.step = "commit" /\ q.invite = i
        /\ q.seat = inv[i].seat /\ q.user = inv[i].user
        /\ q.new = (password[inv[i].user] = NULL)
    BY <1>2 DEF Idle, Memories, OpenOf
  <1> HIDE DEF q
  <1>4. UNCHANGED <<account, password, holder, standing, profile, inv, mailed>> /\ Issued(i)'
    BY <1>1 DEF Tables, Issued
  <1>5. Facts(req[r])'
    BY <1>1, <1>2, <1>3, <1>4 DEF Facts
  <1> QED
    BY <1>1, <1>3, <1>5, BeginStep

LEMMA CommitOnboardStep ==
  ASSUME TypeInv, overlapped' \in BOOLEAN, NEW r \in Requests, CommitOnboard(r)
  PROVE  TypeInv' /\ Grows
  <1> DEFINE s == req[r].seat
             u == req[r].user
  <1>1. s \in Seats /\ u \in Users /\ (req[r].new \/ account[u] # "absent")
    BY DEF CommitOnboard, Committing, TypeInv, Remembered, Facts
  <1>2. PICK S \in SUBSET Invites, i \in Invites : Reached(req[r], S) /\ Issue(r, s, u, S, i)
    BY DEF CommitOnboard
  <1>3. \A o \in S : Open(o)
    BY <1>2 DEF Reached, OpenOf
  <1>4. /\ account' = IF req[r].new THEN [account EXCEPT ![u] = "INVITED"] ELSE account
        /\ req[r].new => account[u] = "absent"
        /\ holder' = [holder EXCEPT ![s] = u] /\ profile' = profile \cup {s}
        /\ UNCHANGED <<password, standing, mailed>>
    BY DEF CommitOnboard
  <1> HIDE DEF s, u
  <1>5. /\ account \in [Users -> {"absent", "INVITED", "ACTIVE"}]
        /\ holder \in [Seats -> Users \cup {NULL}]
        /\ profile \subseteq {x \in Seats : holder[x] # NULL}
        /\ HoldersKnown
    BY DEF TypeInv, TypeOK
  <1>6. u # NULL
    BY <1>1, NullAssumption
  <1>7. account' \in [Users -> {"absent", "INVITED", "ACTIVE"}] /\ account'[u] # "absent"
    BY <1>1, <1>4, <1>5
  <1>8. \A x \in Users : /\ account[x] # "absent" => account'[x] # "absent"
                         /\ account'[x] = "ACTIVE" <=> account[x] = "ACTIVE"
    BY <1>1, <1>4, <1>5
  <1>9. /\ holder' \in [Seats -> Users \cup {NULL}] /\ holder'[s] = u
        /\ \A x \in Seats \ {s} : holder'[x] = holder[x]
    BY <1>1, <1>4, <1>5
  <1>10. \A x \in Seats : holder'[x] # NULL => account'[holder'[x]] # "absent"
    BY <1>5, <1>7, <1>8, <1>9 DEF HoldersKnown
  <1>11. /\ s \in profile' /\ profile \subseteq profile'
         /\ profile' \subseteq {x \in Seats : holder'[x] # NULL}
         /\ \A x \in Seats : holder[x] # NULL => holder'[x] # NULL
    BY <1>1, <1>4, <1>5, <1>6, <1>9
  <1> QED
    BY <1>1, <1>2, <1>3, <1>4, <1>7, <1>8, <1>9, <1>10, <1>11, IssueStep

LEMMA CommitResendStep ==
  ASSUME TypeInv, overlapped' \in BOOLEAN, NEW r \in Requests, CommitResend(r)
  PROVE  TypeInv' /\ Grows
  <1> DEFINE s == req[r].seat
             u == req[r].user
  <1>1. s \in Seats /\ u \in Users /\ account[u] # "absent" /\ s \in profile
    BY DEF CommitResend, Committing, TypeInv, Remembered, Facts
  <1>2. PICK S \in SUBSET Invites, i \in Invites : Reached(req[r], S) /\ Issue(r, s, u, S, i)
    BY DEF CommitResend
  <1>3. \A o \in S : Open(o)
    BY <1>2 DEF Reached, OpenOf
  <1>4. UNCHANGED <<account, password, holder, standing, profile, mailed>>
    BY DEF CommitResend
  <1> HIDE DEF s, u
  <1>5. /\ account \in [Users -> {"absent", "INVITED", "ACTIVE"}]
        /\ holder \in [Seats -> Users \cup {NULL}]
        /\ profile \subseteq {x \in Seats : holder[x] # NULL}
        /\ HoldersKnown
    BY DEF TypeInv, TypeOK
  <1> QED
    BY <1>1, <1>2, <1>3, <1>4, <1>5, IssueStep DEF HoldersKnown

LEMMA CommitEmailStep ==
  ASSUME TypeInv, overlapped' \in BOOLEAN, NEW r \in Requests, CommitEmail(r)
  PROVE  TypeInv' /\ Grows
  <1> DEFINE s == req[r].seat
             u == req[r].user
  <1>1. s \in Seats /\ u \in Users /\ (req[r].new \/ account[u] # "absent") /\ s \in profile
    BY DEF CommitEmail, Committing, TypeInv, Remembered, Facts
  <1>2. PICK S \in SUBSET Invites, i \in Invites : Reached(req[r], S) /\ Issue(r, s, u, S, i)
    BY DEF CommitEmail
  <1>3. \A o \in S : Open(o)
    BY <1>2 DEF Reached, OpenOf
  <1>4. /\ account' = IF req[r].new THEN [account EXCEPT ![u] = "INVITED"] ELSE account
        /\ req[r].new => account[u] = "absent"
        /\ holder' = [holder EXCEPT ![s] = u]
        /\ UNCHANGED <<password, standing, profile, mailed>>
    BY DEF CommitEmail
  <1> HIDE DEF s, u
  <1>5. /\ account \in [Users -> {"absent", "INVITED", "ACTIVE"}]
        /\ holder \in [Seats -> Users \cup {NULL}]
        /\ profile \subseteq {x \in Seats : holder[x] # NULL}
        /\ HoldersKnown
    BY DEF TypeInv, TypeOK
  <1>6. u # NULL
    BY <1>1, NullAssumption
  <1>7. account' \in [Users -> {"absent", "INVITED", "ACTIVE"}] /\ account'[u] # "absent"
    BY <1>1, <1>4, <1>5
  <1>8. \A x \in Users : /\ account[x] # "absent" => account'[x] # "absent"
                         /\ account'[x] = "ACTIVE" <=> account[x] = "ACTIVE"
    BY <1>1, <1>4, <1>5
  <1>9. /\ holder' \in [Seats -> Users \cup {NULL}] /\ holder'[s] = u
        /\ \A x \in Seats \ {s} : holder'[x] = holder[x]
    BY <1>1, <1>4, <1>5
  <1>10. \A x \in Seats : holder'[x] # NULL => account'[holder'[x]] # "absent"
    BY <1>5, <1>7, <1>8, <1>9 DEF HoldersKnown
  <1>11. /\ s \in profile' /\ profile \subseteq profile'
         /\ profile' \subseteq {x \in Seats : holder'[x] # NULL}
         /\ \A x \in Seats : holder[x] # NULL => holder'[x] # NULL
    BY <1>1, <1>4, <1>5, <1>6, <1>9
  <1> QED
    BY <1>1, <1>2, <1>3, <1>4, <1>7, <1>8, <1>9, <1>10, <1>11, IssueStep

\* A step after which every invitation is for whom it was, and which ends a
\* request or serves none.
LEMMA SameRows ==
  ASSUME TypeInv, overlapped' \in BOOLEAN,
         inv' \in [Invites -> Rows],
         \A o \in Invites : inv'[o].seat = inv[o].seat /\ inv'[o].user = inv[o].user,
         \A o \in Invites : ~ Issued(o) => inv'[o] = inv[o],
         mailed' \subseteq {o \in Invites : Issued(o)},
         account' \in [Users -> {"absent", "INVITED", "ACTIVE"}],
         password' \in [Users -> Passwords],
         \A x \in Users : account'[x] = "ACTIVE" <=> password'[x] # NULL,
         \A x \in Users : account[x] # "absent" => account'[x] # "absent",
         \A x \in Users : password[x] # NULL => password'[x] # NULL,
         holder' \in [Seats -> Users \cup {NULL}],
         \A x \in Seats : holder[x] # NULL => holder'[x] # NULL,
         \A x \in Seats : holder'[x] # NULL => account'[holder'[x]] # "absent",
         standing' \in [Seats -> {"PROVIDER", "SUSPENDED", "OTHER"}],
         profile' = profile,
         req' = req \/ \E r \in Requests : Finish(r)
  PROVE  TypeInv' /\ Grows
  <1>1. \A o \in Invites : Issued(o)' <=> Issued(o)
    BY DEF Issued
  <1>2. Grows
    BY <1>1 DEF Grows
  <1>3. TablesOK'
    BY <1>1 DEF TablesOK, TypeInv, TypeOK
  <1>4. Blank' /\ Placed' /\ HoldersKnown'
    BY <1>1 DEF Blank, Placed, HoldersKnown, TypeInv
  <1>5. (req \in [Requests -> Memories] /\ Remembered)'
    <2>1. CASE req' = req
      <3> SUFFICES ASSUME NEW r \in Requests PROVE Facts(req[r])'
        BY <2>1 DEF Remembered, TypeInv, TypeOK
      <3>1. req' = [req EXCEPT ![r] = req'[r]] /\ req'[r] = req[r] /\ req[r] \in Memories
            /\ Facts(req[r])
        BY <2>1 DEF Remembered, TypeInv, TypeOK
      <3>2. \A o \in Invites : Issued(o) => inv[o].user \in Users
        BY DEF Placed, TypeInv
      <3> QED
        BY <1>2, <3>1, <3>2 DEF Facts, Grows
    <2>2. ASSUME NEW r \in Requests, Finish(r) PROVE (req \in [Requests -> Memories] /\ Remembered)'
      BY <1>2, <2>2, FinishFacts, Served
    <2> QED
      BY <2>1, <2>2
  <1> QED
    BY <1>2, <1>3, <1>4, <1>5 DEF TypeInv, TypeOK, TablesOK

LEMMA CommitCancelStep ==
  ASSUME TypeInv, overlapped' \in BOOLEAN, NEW r \in Requests, CommitCancel(r)
  PROVE  TypeInv' /\ Grows
  <1>1. req[r].invite \in Invites /\ Issued(req[r].invite)
    BY DEF CommitCancel, Committing, TypeInv, Remembered, Facts
  <1>2. RowsCancelled(req[r].invite)
    BY <1>1, CancelRows DEF TypeInv
  <1>3. Finish(r) /\ UNCHANGED <<account, password, holder, standing, profile, mailed>>
    BY DEF CommitCancel
  <1>4. /\ inv' \in [Invites -> Rows]
        /\ \A o \in Invites : inv'[o].seat = inv[o].seat /\ inv'[o].user = inv[o].user
        /\ \A o \in Invites : ~ Issued(o) => inv'[o] = inv[o]
    BY <1>1, <1>2 DEF RowsCancelled
  <1> QED
    BY <1>3, <1>4, SameRows DEF TypeInv, TypeOK, HoldersKnown

LEMMA CommitAcceptStep ==
  ASSUME TypeInv, overlapped' \in BOOLEAN, NEW r \in Requests, CommitAccept(r)
  PROVE  TypeInv' /\ Grows
  <1> DEFINE i == req[r].invite
             u == req[r].user
  <1>1. /\ i \in Invites /\ Issued(i) /\ u = inv[i].user
        /\ req[r].new \/ password[u] # NULL
    BY DEF CommitAccept, Committing, TypeInv, Remembered, Facts
  <1>2. u \in Users
    BY <1>1 DEF TypeInv, Placed
  <1>3. PICK S \in SUBSET (Invites \ {i}) : Reached(req[r], S) /\ Accept(r, S)
    BY DEF CommitAccept
  <1>4. \A o \in S : Issued(o)
    BY <1>3 DEF Reached, OpenOf, Open
  <1>5. RowsAccepted(i, S)
    <2>1. S \in SUBSET Invites
      OBVIOUS
    <2> QED
      BY <1>1, <1>3, <2>1, AcceptRows DEF TypeInv
  <1>6. /\ password' = IF req[r].new THEN [password EXCEPT ![u] = i] ELSE password
        /\ account' = [account EXCEPT ![u] = "ACTIVE"]
        /\ Finish(r) /\ UNCHANGED <<holder, standing, profile, mailed>>
    BY <1>3 DEF Accept
  <1> HIDE DEF i, u
  <1>7. /\ account \in [Users -> {"absent", "INVITED", "ACTIVE"}]
        /\ password \in [Users -> Passwords]
        /\ \A x \in Users : account[x] = "ACTIVE" <=> password[x] # NULL
        /\ holder \in [Seats -> Users \cup {NULL}] /\ HoldersKnown
    BY DEF TypeInv, TypeOK
  <1>8. /\ inv' \in [Invites -> Rows]
        /\ \A o \in Invites : inv'[o].seat = inv[o].seat /\ inv'[o].user = inv[o].user
        /\ \A o \in Invites : ~ Issued(o) => inv'[o] = inv[o]
    BY <1>1, <1>4, <1>5 DEF RowsAccepted
  <1>9. i # NULL /\ i \in Passwords
    BY <1>1, NullAssumption DEF Passwords
  <1>10. /\ account' \in [Users -> {"absent", "INVITED", "ACTIVE"}]
         /\ \A x \in Users : account[x] # "absent" => account'[x] # "absent"
    BY <1>2, <1>6, <1>7
  <1>11. /\ password' \in [Users -> Passwords]
         /\ \A x \in Users : password[x] # NULL => password'[x] # NULL
    BY <1>2, <1>6, <1>7, <1>9
  <1>12. \A x \in Users : account'[x] = "ACTIVE" <=> password'[x] # NULL
    BY <1>1, <1>2, <1>6, <1>7, <1>9
  <1>13. \A x \in Seats : holder'[x] # NULL => account'[holder'[x]] # "absent"
    BY <1>6, <1>7, <1>10 DEF HoldersKnown
  <1>14. /\ holder' \in [Seats -> Users \cup {NULL}] /\ holder' = holder /\ profile' = profile
         /\ standing' \in [Seats -> {"PROVIDER", "SUSPENDED", "OTHER"}]
         /\ mailed' \subseteq {o \in Invites : Issued(o)}
    BY <1>6 DEF TypeInv, TypeOK
  <1> QED
    BY <1>6, <1>8, <1>10, <1>11, <1>12, <1>13, <1>14, SameRows

LEMMA MailStep ==
  ASSUME TypeInv, overlapped' \in BOOLEAN, NEW r \in Requests, Mail(r)
  PROVE  TypeInv' /\ Grows
  <1>1. req[r].invite \in Invites /\ Issued(req[r].invite)
    BY DEF Mail, TypeInv, Remembered, Facts
  <1>2. /\ mailed' = mailed \cup {req[r].invite}
        /\ Finish(r) /\ UNCHANGED <<account, password, holder, standing, profile, inv>>
    BY DEF Mail
  <1> QED
    BY <1>1, <1>2, SameRows DEF TypeInv, TypeOK, HoldersKnown

LEMMA AbortStep ==
  ASSUME TypeInv, overlapped' \in BOOLEAN, NEW r \in Requests, Abort(r)
  PROVE  TypeInv' /\ Grows
  <1>1. Finish(r) /\ UNCHANGED <<account, password, holder, standing, profile, inv, mailed>>
    BY DEF Abort, Tables
  <1> QED
    BY <1>1, SameRows DEF TypeInv, TypeOK, HoldersKnown

LEMMA ExpireStep ==
  ASSUME TypeInv, overlapped' \in BOOLEAN, NEW i \in Invites, Expire(i)
  PROVE  TypeInv' /\ Grows
  <1>1. inv \in [Invites -> Rows]
    BY DEF TypeInv, TypeOK
  <1>2. /\ inv' = [inv EXCEPT ![i].expired = TRUE] /\ Issued(i)
        /\ UNCHANGED <<account, password, holder, standing, profile, mailed, req>>
    BY DEF Expire
  <1>3. /\ inv' \in [Invites -> Rows]
        /\ \A o \in Invites : inv'[o].seat = inv[o].seat /\ inv'[o].user = inv[o].user
        /\ \A o \in Invites : ~ Issued(o) => inv'[o] = inv[o]
    BY <1>1, <1>2 DEF Rows
  <1> QED
    BY <1>2, <1>3, SameRows DEF TypeInv, TypeOK, HoldersKnown

LEMMA JoinStep ==
  ASSUME TypeInv, overlapped' \in BOOLEAN, NEW s \in Seats, NEW u \in Users, Join(s, u)
  PROVE  TypeInv' /\ Grows
  <1>1. /\ account \in [Users -> {"absent", "INVITED", "ACTIVE"}]
        /\ password \in [Users -> Passwords]
        /\ \A x \in Users : account[x] = "ACTIVE" <=> password[x] # NULL
        /\ holder \in [Seats -> Users \cup {NULL}] /\ HoldersKnown
    BY DEF TypeInv, TypeOK
  <1>2. /\ holder' = [holder EXCEPT ![s] = u]
        /\ account' = [account EXCEPT ![u] = IF @ = "absent" THEN "ACTIVE" ELSE @]
        /\ password' = [password EXCEPT ![u] = IF account[u] = "absent" THEN "OWN" ELSE @]
        /\ UNCHANGED <<standing, profile, inv, mailed, req>>
    BY DEF Join
  <1>3. u # NULL /\ "OWN" # NULL /\ "OWN" \in Passwords
    BY NullAssumption DEF Passwords
  <1>4. /\ account' \in [Users -> {"absent", "INVITED", "ACTIVE"}] /\ account'[u] # "absent"
        /\ \A x \in Users : account[x] # "absent" => account'[x] # "absent"
    BY <1>1, <1>2
  <1>5. /\ password' \in [Users -> Passwords]
        /\ \A x \in Users : password[x] # NULL => password'[x] # NULL
    BY <1>1, <1>2, <1>3
  <1>6. \A x \in Users : account'[x] = "ACTIVE" <=> password'[x] # NULL
    BY <1>1, <1>2, <1>3
  <1>7. /\ holder' \in [Seats -> Users \cup {NULL}] /\ holder'[s] = u
        /\ \A x \in Seats \ {s} : holder'[x] = holder[x]
    BY <1>1, <1>2
  <1>8. /\ \A x \in Seats : holder[x] # NULL => holder'[x] # NULL
        /\ \A x \in Seats : holder'[x] # NULL => account'[holder'[x]] # "absent"
    BY <1>1, <1>3, <1>4, <1>7 DEF HoldersKnown
  <1> QED
    BY <1>2, <1>4, <1>5, <1>6, <1>7, <1>8, SameRows DEF TypeInv, TypeOK

LEMMA SetStandingStep ==
  ASSUME TypeInv, overlapped' \in BOOLEAN, NEW s \in Seats,
         NEW st \in {"PROVIDER", "SUSPENDED", "OTHER"}, SetStanding(s, st)
  PROVE  TypeInv' /\ Grows
  <1>1. standing' \in [Seats -> {"PROVIDER", "SUSPENDED", "OTHER"}]
    BY DEF SetStanding, TypeInv, TypeOK
  <1>2. UNCHANGED <<account, password, holder, profile, inv, mailed, req>>
    BY DEF SetStanding
  <1> QED
    BY <1>1, <1>2, SameRows DEF TypeInv, TypeOK, HoldersKnown

LEMMA ElsewhereStep ==
  ASSUME TypeInv, overlapped' \in BOOLEAN, NEW u \in Users,
         OnboardElsewhere(u) \/ ActivateElsewhere(u)
  PROVE  TypeInv' /\ Grows
  <1>1. /\ account \in [Users -> {"absent", "INVITED", "ACTIVE"}]
        /\ password \in [Users -> Passwords]
        /\ \A x \in Users : account[x] = "ACTIVE" <=> password[x] # NULL
        /\ holder \in [Seats -> Users \cup {NULL}] /\ HoldersKnown
    BY DEF TypeInv, TypeOK
  <1>2. /\ \/ /\ account[u] = "absent" /\ account' = [account EXCEPT ![u] = "INVITED"]
              /\ password' = password
           \/ /\ account[u] = "INVITED" /\ account' = [account EXCEPT ![u] = "ACTIVE"]
              /\ password' = [password EXCEPT ![u] = "OWN"]
        /\ UNCHANGED <<holder, standing, profile, inv, mailed, req>>
    BY DEF OnboardElsewhere, ActivateElsewhere
  <1>3. "OWN" # NULL /\ "OWN" \in Passwords
    BY NullAssumption DEF Passwords
  <1>4. /\ account' \in [Users -> {"absent", "INVITED", "ACTIVE"}]
        /\ \A x \in Users : account[x] # "absent" => account'[x] # "absent"
    BY <1>1, <1>2
  <1>5. /\ password' \in [Users -> Passwords]
        /\ \A x \in Users : password[x] # NULL => password'[x] # NULL
    BY <1>1, <1>2, <1>3
  <1>6. \A x \in Users : account'[x] = "ACTIVE" <=> password'[x] # NULL
    BY <1>1, <1>2, <1>3
  <1>7. \A x \in Seats : holder'[x] # NULL => account'[holder'[x]] # "absent"
    BY <1>1, <1>2, <1>4 DEF HoldersKnown
  <1> QED
    BY <1>2, <1>4, <1>5, <1>6, <1>7, SameRows DEF TypeInv, TypeOK

LEMMA TypeStep == TypeInv /\ Next => TypeInv' /\ Grows
  <1> SUFFICES ASSUME TypeInv, Next PROVE TypeInv' /\ Grows
    OBVIOUS
  <1>1. overlapped' \in BOOLEAN
    BY DEF Next, Watch, TypeInv, TypeOK
  <1> QED
    BY <1>1, NextCases, ReadOnboardStep, CommitOnboardStep, ReadResendStep, ReadManagedStep,
       CommitResendStep, ReadEmailStep, CommitEmailStep, ReadCancelStep, CommitCancelStep,
       ReadAcceptStep, CommitAcceptStep, MailStep, AbortStep, ExpireStep, JoinStep,
       SetStandingStep, ElsewhereStep

LEMMA TypeStutter == TypeInv /\ UNCHANGED vars => TypeInv'
  BY DEF vars, TypeInv, TypeOK, Blank, Placed, HoldersKnown, Remembered, Facts, Issued

LEMMA TypeInit == Init => TypeInv
  <1> SUFFICES ASSUME Init PROVE TypeInv
    OBVIOUS
  <1>1. \A r \in Requests : req[r] \in Memories /\ Facts(req[r])
    BY IdleFacts DEF Init
  <1>2. \A i \in Invites : inv[i] = NoInvite /\ ~ Issued(i)
    BY DEF Init, Issued, NoInvite
  <1>3. NoInvite \in Rows
    BY DEF NoInvite, Rows
  <1>4. "OWN" # NULL /\ "OWN" \in Passwords /\ NULL \in Passwords
    BY NullAssumption DEF Passwords
  <1>5. inv \in [Invites -> Rows] /\ req \in [Requests -> Memories]
    BY <1>1, <1>3 DEF Init
  <1>6. /\ account \in [Users -> {"absent", "INVITED", "ACTIVE"}]
        /\ password \in [Users -> Passwords]
        /\ \A u \in Users : account[u] = "ACTIVE" <=> password[u] # NULL
    BY <1>4 DEF Init
  <1>7. TypeOK
    BY <1>5, <1>6 DEF Init, TypeOK
  <1> QED
    BY <1>1, <1>2, <1>7 DEF Init, TypeInv, Blank, Placed, HoldersKnown, Remembered

LEMMA TypeInvariant == Spec => []TypeInv
  BY TypeInit, TypeStep, TypeStutter, PTL DEF Spec

\* Accounts, memberships, invitations and requests stay well-formed, and a user
\* is active exactly when there is a password (invitations.service.ts:149-164,
\* memberships.service.ts:86-134, service-providers.service.ts:82-222).
THEOREM TypeCorrect == Spec => []TypeOK
  <1>1. TypeInv => TypeOK
    BY DEF TypeInv
  <1> QED
    BY <1>1, TypeInvariant, PTL

-----------------------------------------------------------------------------
(* The unique key.                                                         *)

\* Steps that leave the rows alone, but for their expiry.
RowsKept ==
    \A i \in Invites : /\ inv'[i].seat = inv[i].seat /\ inv'[i].user = inv[i].user
                       /\ inv'[i].used = inv[i].used /\ inv'[i].revoked = inv[i].revoked
                       /\ inv'[i].key = inv[i].key

LEMMA KeyKept ==
  ASSUME KeyInv, TypeInv', RowsKept
  PROVE  KeyInv'
  BY DEF RowsKept, KeyInv, KeyIffOpen, OneOutstanding, Open, Issued

\* The new invitation gets the key because no open one of its membership is left.
LEMMA KeyIssued ==
  ASSUME KeyInv, TypeInv', NEW r \in Requests, NEW s \in Seats, NEW u \in Users,
         NEW S \in SUBSET Invites, NEW i \in Invites, Issue(r, s, u, S, i)
  PROVE  KeyInv'
  <1>1. RowsIssued(s, u, S, i)
    BY IssueRows DEF KeyInv, TypeInv
  <1>2. s # NULL
    BY NullAssumption
  <1>3. Open(i)'
    BY <1>1, <1>2 DEF RowsIssued, Open, Issued
  <1>4. \A o \in Invites \ {i} : Open(o)' <=> Open(o) /\ o \notin S
    BY <1>1 DEF RowsIssued, Open, Issued
  <1>5. \A o \in Invites \ {i} : inv'[o].key <=> Open(o)'
    BY <1>1, <1>4 DEF RowsIssued, KeyInv, KeyIffOpen
  <1>6. \A o \in Invites \ {i} : Open(o)' => inv'[o].seat # s
    BY <1>1, <1>4 DEF RowsIssued, KeyInv, KeyIffOpen
  <1>7. KeyIffOpen'
    BY <1>1, <1>3, <1>5 DEF RowsIssued, KeyIffOpen
  <1>8. \A o, p \in Invites \ {i} : Open(o)' /\ Open(p)' /\ inv'[o].seat = inv'[p].seat => o = p
    BY <1>1, <1>4 DEF RowsIssued, KeyInv, OneOutstanding
  <1>9. OneOutstanding'
    BY <1>1, <1>6, <1>8 DEF RowsIssued, OneOutstanding
  <1> QED
    BY <1>7, <1>9 DEF KeyInv

\* Steps that close invitations.
LEMMA KeyClosed ==
  ASSUME KeyInv, TypeInv', NEW i \in Invites, NEW S \in SUBSET Invites,
         RowsAccepted(i, S) \/ RowsCancelled(i)
  PROVE  KeyInv'
  <1>1. \A o \in Invites : inv'[o].seat = inv[o].seat
    BY DEF RowsAccepted, RowsCancelled
  <1>2. \A o \in Invites : Open(o)' => Open(o) /\ inv'[o] = inv[o]
    BY <1>1 DEF RowsAccepted, RowsCancelled, Open, Issued
  <1>3. \A o \in Invites : ~ Open(o)' => ~ inv'[o].key \/ (inv'[o] = inv[o] /\ ~ Open(o))
    BY DEF RowsAccepted, RowsCancelled, Open, Issued
  <1>4. KeyIffOpen'
    BY <1>2, <1>3 DEF KeyInv, KeyIffOpen
  <1>5. OneOutstanding'
    BY <1>1, <1>2 DEF KeyInv, OneOutstanding
  <1> QED
    BY <1>4, <1>5 DEF KeyInv

\* What a commit does to the rows.
LEMMA CommitRows ==
  ASSUME TypeInv, NEW r \in Requests
  PROVE  /\ CommitOnboard(r) \/ CommitResend(r) \/ CommitEmail(r) =>
              /\ req[r].seat \in Seats /\ req[r].user \in Users
              /\ \E S \in SUBSET Invites, i \in Invites :
                    /\ Reached(req[r], S)
                    /\ Issue(r, req[r].seat, req[r].user, S, i)
                    /\ RowsIssued(req[r].seat, req[r].user, S, i)
         /\ CommitCancel(r) => req[r].invite \in Invites /\ RowsCancelled(req[r].invite)
         /\ CommitAccept(r) =>
              /\ req[r].invite \in Invites
              /\ \E S \in SUBSET (Invites \ {req[r].invite}) :
                    Reached(req[r], S) /\ Accept(r, S) /\ RowsAccepted(req[r].invite, S)
  <1>1. TypeOK
    BY DEF TypeInv
  <1>2. ASSUME CommitOnboard(r) \/ CommitResend(r) \/ CommitEmail(r)
        PROVE  /\ req[r].seat \in Seats /\ req[r].user \in Users
               /\ \E S \in SUBSET Invites, i \in Invites :
                    /\ Reached(req[r], S)
                    /\ Issue(r, req[r].seat, req[r].user, S, i)
                    /\ RowsIssued(req[r].seat, req[r].user, S, i)
    <2>1. req[r].seat \in Seats /\ req[r].user \in Users
      BY <1>2 DEF CommitOnboard, CommitResend, CommitEmail, Committing, TypeInv, Remembered, Facts
    <2>2. PICK S \in SUBSET Invites, i \in Invites :
             Reached(req[r], S) /\ Issue(r, req[r].seat, req[r].user, S, i)
      BY <1>2 DEF CommitOnboard, CommitResend, CommitEmail
    <2>3. RowsIssued(req[r].seat, req[r].user, S, i)
      BY <1>1, <2>1, <2>2, IssueRows
    <2> QED
      BY <2>1, <2>2, <2>3
  <1>3. ASSUME CommitCancel(r) PROVE req[r].invite \in Invites /\ RowsCancelled(req[r].invite)
    <2>1. req[r].invite \in Invites
      BY <1>3 DEF CommitCancel, Committing, TypeInv, Remembered, Facts
    <2> QED
      BY <1>1, <1>3, <2>1, CancelRows
  <1>4. ASSUME CommitAccept(r)
        PROVE  /\ req[r].invite \in Invites
               /\ \E S \in SUBSET (Invites \ {req[r].invite}) :
                    Reached(req[r], S) /\ Accept(r, S) /\ RowsAccepted(req[r].invite, S)
    <2>1. req[r].invite \in Invites
      BY <1>4 DEF CommitAccept, Committing, TypeInv, Remembered, Facts
    <2>2. PICK S \in SUBSET (Invites \ {req[r].invite}) : Reached(req[r], S) /\ Accept(r, S)
      BY <1>4 DEF CommitAccept
    <2>3. S \in SUBSET Invites
      OBVIOUS
    <2>4. RowsAccepted(req[r].invite, S)
      BY <1>1, <2>1, <2>2, <2>3, AcceptRows
    <2> QED
      BY <2>1, <2>2, <2>4
  <1> QED
    BY <1>2, <1>3, <1>4

\* Every step leaves the rows alone, or is one of the five commits.
LEMMA RowCases ==
  TypeInv /\ Next =>
     \/ RowsKept
     \/ \E r \in Requests : \/ CommitOnboard(r) \/ CommitResend(r) \/ CommitEmail(r)
                            \/ CommitCancel(r) \/ CommitAccept(r)
  <1> SUFFICES ASSUME TypeInv, Next
               PROVE  \/ RowsKept
                      \/ \E r \in Requests : \/ CommitOnboard(r) \/ CommitResend(r) \/ CommitEmail(r)
                                             \/ CommitCancel(r) \/ CommitAccept(r)
    OBVIOUS
  <1>1. inv' = inv => RowsKept
    BY DEF RowsKept
  <1>2. ASSUME NEW i \in Invites, Expire(i) PROVE RowsKept
    BY <1>2 DEF Expire, TypeInv, TypeOK, Rows, RowsKept
  <1>3. \A r \in Requests : \A q : Begin(r, q) => inv' = inv
    BY DEF Begin, Tables
  <1>4. \A r \in Requests, s \in Seats, u \in Users : ReadOnboard(r, u, s) => inv' = inv
    BY <1>3 DEF ReadOnboard
  <1>5. \A r \in Requests, s \in Seats : ReadResend(r, s) => inv' = inv
    BY <1>3 DEF ReadResend
  <1>6. \A r \in Requests, i \in Invites :
           ReadManaged(r, i) \/ ReadCancel(r, i) \/ ReadAccept(r, i) => inv' = inv
    BY <1>3 DEF ReadManaged, ReadCancel, ReadAccept
  <1>7. \A r \in Requests, i \in Invites, u \in Users : ReadEmail(r, i, u) => inv' = inv
    BY <1>3 DEF ReadEmail
  <1>8. \A r \in Requests : Mail(r) \/ Abort(r) => inv' = inv
    BY DEF Mail, Abort, Tables
  <1>9. \A s \in Seats, u \in Users : Join(s, u) => inv' = inv
    BY DEF Join
  <1>10. \A s \in Seats, st \in {"PROVIDER", "SUSPENDED", "OTHER"} : SetStanding(s, st) => inv' = inv
    BY DEF SetStanding
  <1>11. \A u \in Users : OnboardElsewhere(u) \/ ActivateElsewhere(u) => inv' = inv
    BY DEF OnboardElsewhere, ActivateElsewhere
  <1> QED
    BY <1>1, <1>2, <1>4, <1>5, <1>6, <1>7, <1>8, <1>9, <1>10, <1>11 DEF Next, Step, Managing

LEMMA KeyStep == KeyInv /\ [Next]_vars => KeyInv'
  <1> SUFFICES ASSUME KeyInv, [Next]_vars PROVE KeyInv'
    OBVIOUS
  <1>1. CASE UNCHANGED vars
    <2>1. RowsKept
      BY <1>1 DEF RowsKept, vars
    <2>2. TypeInv'
      BY <1>1, TypeStutter DEF KeyInv
    <2> QED
      BY <2>1, <2>2, KeyKept
  <1>2. CASE Next
    <2>1. TypeInv /\ TypeInv'
      BY <1>2, TypeStep DEF KeyInv
    <2>2. CASE RowsKept
      BY <2>1, <2>2, KeyKept
    <2>3. ASSUME NEW r \in Requests, CommitOnboard(r) \/ CommitResend(r) \/ CommitEmail(r)
          PROVE  KeyInv'
      <3>1. req[r].seat \in Seats /\ req[r].user \in Users
        BY <2>1, <2>3, CommitRows
      <3>2. PICK S \in SUBSET Invites, i \in Invites : Issue(r, req[r].seat, req[r].user, S, i)
        BY <2>1, <2>3, CommitRows
      <3> QED
        BY <2>1, <3>1, <3>2, KeyIssued
    <2>4. ASSUME NEW r \in Requests, CommitCancel(r) PROVE KeyInv'
      <3>1. req[r].invite \in Invites /\ RowsCancelled(req[r].invite)
        BY <2>1, <2>4, CommitRows
      <3>2. {} \in SUBSET Invites
        OBVIOUS
      <3> QED
        BY <2>1, <3>1, <3>2, KeyClosed
    <2>5. ASSUME NEW r \in Requests, CommitAccept(r) PROVE KeyInv'
      <3>1. req[r].invite \in Invites
        BY <2>1, <2>5, CommitRows
      <3>2. PICK S \in SUBSET (Invites \ {req[r].invite}) : RowsAccepted(req[r].invite, S)
        BY <2>1, <2>5, CommitRows
      <3>3. S \in SUBSET Invites
        OBVIOUS
      <3> QED
        BY <2>1, <3>1, <3>2, <3>3, KeyClosed
    <2> QED
      BY <1>2, <2>1, <2>2, <2>3, <2>4, <2>5, RowCases
  <1> QED
    BY <1>1, <1>2

LEMMA KeyInvariant == Spec => []KeyInv
  <1>1. Init => KeyInv
    <2> SUFFICES ASSUME Init PROVE KeyInv
      OBVIOUS
    <2>1. \A i \in Invites : ~ Open(i) /\ ~ inv[i].key
      BY DEF Init, NoInvite, Open, Issued
    <2> QED
      BY <2>1, TypeInit DEF KeyInv, KeyIffOpen, OneOutstanding
  <1> QED
    BY <1>1, KeyStep, PTL DEF Spec

\* The unique key is with the open invitation and nowhere else, so that a later
\* issue never meets a key that was left behind (invitations.service.ts:56-68,
\* 167 and 177).
THEOREM KeyIffOpenHolds == Spec => []KeyIffOpen
  <1>1. KeyInv => KeyIffOpen
    BY DEF KeyInv
  <1> QED
    BY <1>1, KeyInvariant, PTL

\* At most one invitation of a membership can be accepted, whatever issues,
\* resends and redirections race (invitations.service.ts:54-68).
THEOREM OneOutstandingHolds == Spec => []OneOutstanding
  <1>1. KeyInv => OneOutstanding
    BY DEF KeyInv
  <1> QED
    BY <1>1, KeyInvariant, PTL

-----------------------------------------------------------------------------
(* What is decided once.                                                   *)

\* A password is set by an acceptance, or comes from elsewhere.
OwnPassword(u) ==
    /\ password' = [password EXCEPT ![u] = "OWN"]
    /\ account[u] = "absent" \/ ActivateElsewhere(u)

LEMMA PasswordCases ==
  TypeInv /\ Next =>
     \/ password' = password
     \/ \E u \in Users : OwnPassword(u)
     \/ \E r \in Requests : CommitAccept(r)
  <1> SUFFICES ASSUME TypeInv, Next
               PROVE  \/ password' = password
                      \/ \E u \in Users : OwnPassword(u)
                      \/ \E r \in Requests : CommitAccept(r)
    OBVIOUS
  <1> DEFINE Goal == \/ password' = password
                     \/ \E u \in Users : OwnPassword(u)
                     \/ \E r \in Requests : CommitAccept(r)
  <1>1. password' = password => Goal
    OBVIOUS
  <1>2. \A r \in Requests : CommitAccept(r) => Goal
    OBVIOUS
  <1>3. \A u \in Users : OwnPassword(u) => Goal
    OBVIOUS
  <1> HIDE DEF Goal
  <1>4. \A r \in Requests : \A q : Begin(r, q) => Goal
    BY <1>1 DEF Begin, Tables
  <1>5. \A r \in Requests, u \in Users, s \in Seats : ReadOnboard(r, u, s) => Goal
    BY <1>4 DEF ReadOnboard
  <1>6. \A r \in Requests, s \in Seats : ReadResend(r, s) => Goal
    BY <1>4 DEF ReadResend
  <1>7. \A r \in Requests, i \in Invites :
           ReadManaged(r, i) \/ ReadCancel(r, i) \/ ReadAccept(r, i) => Goal
    BY <1>4 DEF ReadManaged, ReadCancel, ReadAccept
  <1>8. \A r \in Requests, i \in Invites, u \in Users : ReadEmail(r, i, u) => Goal
    BY <1>4 DEF ReadEmail
  <1>9. ASSUME NEW r \in Requests,
               \/ CommitOnboard(r) \/ CommitResend(r) \/ CommitEmail(r)
               \/ CommitCancel(r) \/ Mail(r) \/ Abort(r)
        PROVE  Goal
    BY <1>1, <1>9 DEF CommitOnboard, CommitResend, CommitEmail, CommitCancel, Mail, Abort, Tables
  <1>10. \A i \in Invites : Expire(i) => Goal
    BY <1>1 DEF Expire
  <1>11. ASSUME NEW s \in Seats, NEW u \in Users, Join(s, u) PROVE Goal
    <2>1. password' = password \/ OwnPassword(u)
      BY <1>11 DEF Join, OwnPassword, TypeInv, TypeOK
    <2> QED
      BY <1>1, <1>3, <2>1
  <1>12. \A s \in Seats, st \in {"PROVIDER", "SUSPENDED", "OTHER"} : SetStanding(s, st) => Goal
    BY <1>1 DEF SetStanding
  <1>13. \A u \in Users : OnboardElsewhere(u) => Goal
    BY <1>1 DEF OnboardElsewhere
  <1>14. \A u \in Users : ActivateElsewhere(u) => Goal
    BY <1>3 DEF ActivateElsewhere, OwnPassword
  <1>15. Goal
    BY <1>2, <1>5, <1>6, <1>7, <1>8, <1>9, <1>10, <1>11, <1>12, <1>13, <1>14
    DEF Next, Step, Managing
  <1> QED
    BY <1>15 DEF Goal

\* The rows of decided invitations are out of reach.
LEMMA DecidedKept ==
  ASSUME TypeInv, Next, NEW i \in Invites, inv[i].used \/ inv[i].revoked
  PROVE  inv'[i].used = inv[i].used /\ inv'[i].revoked = inv[i].revoked
  <1>1. CASE RowsKept
    BY <1>1 DEF RowsKept
  <1>2. ASSUME NEW r \in Requests, CommitOnboard(r) \/ CommitResend(r) \/ CommitEmail(r)
        PROVE  inv'[i] = inv[i]
    <2>1. PICK S \in SUBSET Invites, n \in Invites :
             Reached(req[r], S) /\ RowsIssued(req[r].seat, req[r].user, S, n)
      BY <1>2, CommitRows
    <2>2. i \notin S
      BY <2>1 DEF Reached, OpenOf, Open
    <2>3. ~ Issued(n) /\ inv[n] = NoInvite
      BY <2>1 DEF RowsIssued, TypeInv, Blank
    <2>4. i # n
      BY <2>3 DEF NoInvite
    <2> QED
      BY <2>1, <2>2, <2>4 DEF RowsIssued
  <1>3. ASSUME NEW r \in Requests, CommitCancel(r) PROVE inv'[i] = inv[i]
    <2>1. req[r].invite \in Invites /\ RowsCancelled(req[r].invite)
      BY <1>3, CommitRows
    <2>2. i # req[r].invite
      BY <1>3 DEF CommitCancel, Open
    <2> QED
      BY <2>1, <2>2 DEF RowsCancelled
  <1>4. ASSUME NEW r \in Requests, CommitAccept(r) PROVE inv'[i] = inv[i]
    <2>1. PICK S \in SUBSET (Invites \ {req[r].invite}) :
             Reached(req[r], S) /\ RowsAccepted(req[r].invite, S)
      BY <1>4, CommitRows
    <2>2. i # req[r].invite /\ i \notin S
      BY <1>4, <2>1 DEF CommitAccept, Reached, OpenOf, Open
    <2> QED
      BY <2>1, <2>2 DEF RowsAccepted
  <1> QED
    BY <1>1, <1>2, <1>3, <1>4, RowCases

\* What an acceptance does to passwords.
LEMMA AcceptPassword ==
  ASSUME TypeInv, NEW r \in Requests, CommitAccept(r)
  PROVE  LET i == req[r].invite
             u == req[r].user
         IN  /\ i \in Invites /\ Open(i) /\ u \in Users /\ u = inv[i].user
             /\ inv'[i].used /\ i # NULL
             /\ req[r].new \/ password[u] # NULL
             /\ password' = IF req[r].new THEN [password EXCEPT ![u] = i] ELSE password
  <1> DEFINE i == req[r].invite
             u == req[r].user
  <1>1. /\ i \in Invites /\ Issued(i) /\ u = inv[i].user
        /\ req[r].new \/ password[u] # NULL
    BY DEF CommitAccept, Committing, TypeInv, Remembered, Facts
  <1>2. u \in Users
    BY <1>1 DEF TypeInv, Placed
  <1>3. PICK S \in SUBSET (Invites \ {i}) : Accept(r, S) /\ RowsAccepted(i, S)
    BY CommitRows
  <1>4. inv'[i].used
    BY <1>3 DEF RowsAccepted
  <1>5. password' = IF req[r].new THEN [password EXCEPT ![u] = i] ELSE password
    BY <1>3 DEF Accept
  <1>6. Open(i)
    BY DEF CommitAccept
  <1>7. i # NULL
    BY <1>1, NullAssumption
  <1> QED
    BY <1>1, <1>2, <1>4, <1>5, <1>6, <1>7

\* Whether an invitation was accepted or revoked is decided once, and a token
\* that sets a password is used up by it, and is the user's own, whatever
\* cancellations and acceptances race (service-providers.service.ts:424-432,
\* invitations.service.ts:149-169).
THEOREM DecidedOnceHolds == Spec => DecidedOnce
  <1> DEFINE Decided ==
        /\ \A i \in Invites : inv[i].used \/ inv[i].revoked =>
              inv'[i].used = inv[i].used /\ inv'[i].revoked = inv[i].revoked
        /\ \A u \in Users, i \in Invites : password'[u] = i /\ password[u] # i =>
              inv'[i].used /\ ~ inv[i].used /\ inv[i].user = u
  <1>1. TypeInv /\ [Next]_vars => [Decided]_vars
    <2> SUFFICES ASSUME TypeInv, Next PROVE Decided
      OBVIOUS
    <2>1. ASSUME NEW u \in Users, NEW i \in Invites, password'[u] = i, password[u] # i
          PROVE  inv'[i].used /\ ~ inv[i].used /\ inv[i].user = u
      <3>1. password \in [Users -> Passwords]
        BY DEF TypeInv, TypeOK
      <3>2. ~ \E v \in Users : OwnPassword(v)
        BY <2>1, <3>1, NullAssumption DEF OwnPassword
      <3>3. PICK r \in Requests : CommitAccept(r)
        BY <2>1, <3>2, PasswordCases
      <3>4. /\ req[r].user \in Users /\ Open(req[r].invite) /\ inv'[req[r].invite].used
            /\ req[r].user = inv[req[r].invite].user
            /\ password' = IF req[r].new THEN [password EXCEPT ![req[r].user] = req[r].invite]
                           ELSE password
        BY <3>3, AcceptPassword
      <3>5. u = req[r].user /\ i = req[r].invite
        BY <2>1, <3>1, <3>4
      <3> QED
        BY <3>4, <3>5 DEF Open
    <2> QED
      BY <2>1, DecidedKept
  <1>2. Spec => [][Decided]_vars
    <2>1. Spec => [][Next]_vars
      BY DEF Spec
    <2> HIDE DEF Decided
    <2> QED
      BY <1>1, <2>1, TypeInvariant, PTL
  <1> QED
    BY <1>2 DEF DecidedOnce

-----------------------------------------------------------------------------
(* Until transactions overlap.                                             *)

\* Used, revoked and open invitations have been issued.
LEMMA UsedIssued ==
  ASSUME TypeInv, NEW i \in Invites, Open(i) \/ inv[i].used
  PROVE  Issued(i)
  BY DEF TypeInv, Blank, Open, NoInvite

LEMMA AloneAfter ==
  ASSUME TypeInv, Next, ~ overlapped'
  PROVE  /\ ~ overlapped
         /\ Step => Alone'
         /\ ~ Step => /\ \A r \in Requests : ~ InTransaction(r)
                      /\ \E u \in Users : OnboardElsewhere(u) \/ ActivateElsewhere(u)
  <1>1. \/ Step /\ overlapped' = (overlapped \/ \E r, s \in Requests :
                                    r # s /\ InTransaction(r)' /\ InTransaction(s)')
        \/ /\ \E u \in Users : OnboardElsewhere(u) \/ ActivateElsewhere(u)
           /\ overlapped' = (overlapped \/ \E r \in Requests : InTransaction(r))
    BY DEF Next, Watch
  <1>2. CASE /\ Step
             /\ overlapped' = (overlapped \/ \E r, s \in Requests :
                                    r # s /\ InTransaction(r)' /\ InTransaction(s)')
    BY <1>2 DEF Alone, InTransaction
  <1>3. CASE /\ \E u \in Users : OnboardElsewhere(u) \/ ActivateElsewhere(u)
             /\ overlapped' = (overlapped \/ \E r \in Requests : InTransaction(r))
    <2>1. ~ overlapped /\ \A r \in Requests : ~ InTransaction(r)
      BY <1>3
    <2>2. req' = req
      BY <1>3 DEF OnboardElsewhere, ActivateElsewhere
    <2>3. Alone'
      BY <2>1, <2>2 DEF Alone, InTransaction
    <2> QED
      BY <1>3, <2>1, <2>3
  <1> QED
    BY <1>1, <1>2, <1>3

\* Before a commit one request is in a transaction, and after it none.
LEMMA NobodyAfter ==
  ASSUME TypeInv, Alone, NEW r \in Requests, InTransaction(r),
         req' = [req EXCEPT ![r] = req'[r]], req'[r].step # "commit"
  PROVE  Alone' /\ \A o \in Requests : Current(req[o])'
  <1>1. \A o \in Requests \ {r} : req'[o] = req[o] /\ ~ InTransaction(o)
    BY DEF Alone, TypeInv, TypeOK
  <1>2. \A o \in Requests : req'[o].step # "commit"
    BY <1>1 DEF InTransaction
  <1> QED
    BY <1>2 DEF Alone, InTransaction, Current

\* After a read, the one who has read is alone in a transaction.
LEMMA ReaderCurrent ==
  ASSUME TypeInv, Alone', Settled, UNCHANGED Tables, NEW r \in Requests, req'[r].step = "commit",
         Current(req[r])'
  PROVE  Settled' /\ \A o \in Requests : Current(req[o])'
  <1>1. Settled'
    BY DEF Settled, Tables, Open, Issued
  <1>2. \A o \in Requests \ {r} : req'[o].step # "commit"
    BY DEF Alone, InTransaction
  <1>3. \A o \in Requests \ {r} : Current(req[o])'
    BY <1>2 DEF Current
  <1> QED
    BY <1>1, <1>3

\* Steps that move no membership that has a profile, and change no password of
\* a known account.
LEMMA Untouched ==
  ASSUME TypeInv, Settled, \A r \in Requests : Current(req[r]),
         RowsKept,
         \A s \in profile : holder'[s] = holder[s],
         \A u \in Users : account[u] # "absent" => password'[u] = password[u],
         \A r \in Requests : req'[r] = req[r] \/ req'[r] = Idle
  PROVE  Settled' /\ \A r \in Requests : Current(req[r])'
  <1>1. \A i \in Invites : /\ Open(i)' <=> Open(i)
                           /\ inv'[i].seat = inv[i].seat /\ inv'[i].user = inv[i].user
                           /\ inv'[i].used = inv[i].used
    BY DEF RowsKept, Open, Issued
  <1>2. \A i \in Invites : Open(i) \/ inv[i].used =>
           /\ inv[i].seat \in profile
           /\ inv[i].user \in Users /\ account[inv[i].user] # "absent"
    BY UsedIssued DEF TypeInv, Placed
  <1>3. Settled'
    BY <1>1, <1>2 DEF Settled
  <1>4. ASSUME NEW r \in Requests, req'[r] = Idle PROVE Current(req[r])'
    BY <1>4 DEF Current, Idle
  <1>5. ASSUME NEW r \in Requests, req'[r] = req[r] PROVE Current(req[r])'
    <2> DEFINE q == req[r]
    <2>1. Facts(q) /\ Current(q) /\ q \in Memories
      BY DEF TypeInv, TypeOK, Remembered
    <2>2. q.step = "commit" /\ q.op \in {"resend", "managed", "email"} =>
             q.seat \in profile /\ holder'[q.seat] = holder[q.seat]
      BY <2>1 DEF Facts
    <2>3. q.step = "commit" /\ q.op = "accept" => q.user \in Users /\ account[q.user] # "absent"
      BY <2>1 DEF Facts, TypeInv, Placed
    <2> QED
      BY <1>1, <1>5, <2>1, <2>2, <2>3 DEF Current
  <1> QED
    BY <1>3, <1>4, <1>5

LEMMA ReadOnboardSerial ==
  ASSUME TypeInv, Alone', Settled, NEW r \in Requests, NEW u \in Users, NEW s \in Seats,
         ReadOnboard(r, u, s)
  PROVE  Settled' /\ \A o \in Requests : Current(req[o])'
  <1> DEFINE q == [Idle EXCEPT !.op = "onboard", !.user = u, !.seat = s,
                               !.new = account[u] = "absent", !.member = holder[s] = u,
                               !.outstanding = OpenOf(s), !.step = "commit"]
  <1>1. req'[r] = q /\ UNCHANGED Tables
    BY DEF ReadOnboard, Begin, Remember, TypeInv, TypeOK
  <1>2. q.op = "onboard" /\ q.step = "commit"
    BY DEF Idle
  <1> HIDE DEF q
  <1>3. Current(req[r])'
    BY <1>1, <1>2 DEF Current
  <1> QED
    BY <1>1, <1>2, <1>3, ReaderCurrent

LEMMA ReadResendSerial ==
  ASSUME TypeInv, Alone', Settled, NEW r \in Requests, NEW s \in Seats, ReadResend(r, s)
  PROVE  Settled' /\ \A o \in Requests : Current(req[o])'
  <1> DEFINE q == [Idle EXCEPT !.op = "resend", !.seat = s, !.user = holder[s],
                               !.outstanding = OpenOf(s), !.step = "commit"]
  <1>1. /\ req'[r] = q /\ UNCHANGED Tables
        /\ ~ (password[holder[s]] # NULL /\ account[holder[s]] = "ACTIVE")
    BY DEF ReadResend, Begin, Remember, TypeInv, TypeOK
  <1>2. q.op = "resend" /\ q.step = "commit" /\ q.seat = s /\ q.user = holder[s]
    BY DEF Idle
  <1> HIDE DEF q
  <1>3. \A i \in Invites : inv[i].used => inv[i].seat # s
    <2> SUFFICES ASSUME NEW i \in Invites, inv[i].used, inv[i].seat = s PROVE FALSE
      OBVIOUS
    <2>1. inv[i].user \in Users /\ holder[s] = inv[i].user /\ password[inv[i].user] # NULL
      BY UsedIssued DEF TypeInv, Placed, Settled
    <2> QED
      BY <1>1, <2>1 DEF TypeInv, TypeOK
  <1>4. UNCHANGED <<holder, inv>>
    BY <1>1 DEF Tables
  <1>5. Current(req[r])'
    BY <1>1, <1>2, <1>3, <1>4 DEF Current
  <1> QED
    BY <1>1, <1>2, <1>5, ReaderCurrent

LEMMA ReadManagedSerial ==
  ASSUME TypeInv, Alone', Settled, NEW r \in Requests, NEW i \in Invites, ReadManaged(r, i)
  PROVE  Settled' /\ \A o \in Requests : Current(req[o])'
  <1> DEFINE q == [Idle EXCEPT !.op = "managed", !.seat = inv[i].seat, !.user = inv[i].user,
                               !.outstanding = OpenOf(inv[i].seat), !.step = "commit"]
  <1>1. req'[r] = q /\ UNCHANGED Tables /\ Open(i)
    BY DEF ReadManaged, Actionable, Begin, Remember, TypeInv, TypeOK
  <1>2. q.op = "managed" /\ q.step = "commit" /\ q.seat = inv[i].seat /\ q.user = inv[i].user
    BY DEF Idle
  <1> HIDE DEF q
  <1>3. /\ \A j \in Invites : inv[j].used => inv[j].seat # inv[i].seat
        /\ inv[i].user = holder[inv[i].seat]
    BY <1>1 DEF Settled
  <1>4. UNCHANGED <<holder, inv>>
    BY <1>1 DEF Tables
  <1>5. Current(req[r])'
    BY <1>1, <1>2, <1>3, <1>4 DEF Current
  <1> QED
    BY <1>1, <1>2, <1>5, ReaderCurrent

LEMMA ReadEmailSerial ==
  ASSUME TypeInv, Alone', Settled, NEW r \in Requests, NEW i \in Invites, NEW u \in Users,
         ReadEmail(r, i, u)
  PROVE  Settled' /\ \A o \in Requests : Current(req[o])'
  <1> DEFINE q == [Idle EXCEPT !.op = "email", !.invite = i, !.seat = inv[i].seat, !.user = u,
                               !.new = account[u] = "absent",
                               !.outstanding = OpenOf(inv[i].seat), !.step = "commit"]
  <1>1. req'[r] = q /\ UNCHANGED Tables /\ Open(i)
    BY DEF ReadEmail, Actionable, Begin, Remember, TypeInv, TypeOK
  <1>2. q.op = "email" /\ q.step = "commit" /\ q.seat = inv[i].seat
    BY DEF Idle
  <1> HIDE DEF q
  <1>3. \A j \in Invites : inv[j].used => inv[j].seat # inv[i].seat
    BY <1>1 DEF Settled
  <1>4. UNCHANGED <<holder, inv>>
    BY <1>1 DEF Tables
  <1>5. Current(req[r])'
    BY <1>1, <1>2, <1>3, <1>4 DEF Current
  <1> QED
    BY <1>1, <1>2, <1>5, ReaderCurrent

LEMMA ReadCancelSerial ==
  ASSUME TypeInv, Alone', Settled, NEW r \in Requests, NEW i \in Invites, ReadCancel(r, i)
  PROVE  Settled' /\ \A o \in Requests : Current(req[o])'
  <1> DEFINE q == [Idle EXCEPT !.op = "cancel", !.invite = i, !.step = "commit"]
  <1>1. req'[r] = q /\ UNCHANGED Tables
    BY DEF ReadCancel, Begin, Remember, TypeInv, TypeOK
  <1>2. q.op = "cancel" /\ q.step = "commit"
    BY DEF Idle
  <1> HIDE DEF q
  <1>3. Current(req[r])'
    BY <1>1, <1>2 DEF Current
  <1> QED
    BY <1>1, <1>2, <1>3, ReaderCurrent

LEMMA ReadAcceptSerial ==
  ASSUME TypeInv, Alone', Settled, NEW r \in Requests, NEW i \in Invites, ReadAccept(r, i)
  PROVE  Settled' /\ \A o \in Requests : Current(req[o])'
  <1> DEFINE q == [Idle EXCEPT !.op = "accept", !.invite = i, !.seat = inv[i].seat,
                               !.user = inv[i].user, !.new = password[inv[i].user] = NULL,
                               !.outstanding = OpenOf(inv[i].seat) \ {i}, !.step = "commit"]
  <1>1. req'[r] = q /\ UNCHANGED Tables
    BY DEF ReadAccept, Begin, Remember, TypeInv, TypeOK
  <1>2. /\ q.op = "accept" /\ q.step = "commit" /\ q.user = inv[i].user
        /\ q.new = (password[inv[i].user] = NULL)
    BY DEF Idle
  <1> HIDE DEF q
  <1>3. password' = password
    BY <1>1 DEF Tables
  <1>4. Current(req[r])'
    BY <1>1, <1>2, <1>3 DEF Current
  <1> QED
    BY <1>1, <1>2, <1>4, ReaderCurrent

\* A new invitation of a membership in which none was accepted, for the user
\* whom its transaction leaves as the holder.
LEMMA IssueSerial ==
  ASSUME KeyInv, Settled, NEW s \in Seats, NEW u \in Users, NEW S \in SUBSET Invites,
         NEW n \in Invites, RowsIssued(s, u, S, n),
         \A i \in Invites : inv[i].used => inv[i].seat # s,
         holder' = [holder EXCEPT ![s] = u], password' = password
  PROVE  Settled'
  <1>1. TypeInv /\ KeyIffOpen /\ holder \in [Seats -> Users \cup {NULL}]
    BY DEF KeyInv, TypeInv, TypeOK
  <1>2. holder'[s] = u /\ \A x \in Seats \ {s} : holder'[x] = holder[x]
    BY <1>1
  <1>3. \A i \in Invites \ {n} :
           /\ inv'[i].seat = inv[i].seat /\ inv'[i].user = inv[i].user
           /\ inv'[i].used = inv[i].used
    BY DEF RowsIssued
  <1>4. inv'[n].seat = s /\ inv'[n].user = u /\ ~ inv'[n].used
    BY DEF RowsIssued
  <1>5. \A i \in Invites \ {n} : Open(i)' => Open(i) /\ inv[i].seat # s
    BY <1>1 DEF RowsIssued, Open, Issued, KeyIffOpen
  <1>6. \A i \in Invites : Open(i) \/ inv[i].used => inv[i].seat \in Seats
    BY <1>1, UsedIssued DEF TypeInv, TypeOK, Placed
  <1>7. ASSUME NEW i \in Invites, Open(i)' \/ inv'[i].used PROVE holder'[inv'[i].seat] = inv'[i].user
    BY <1>2, <1>3, <1>4, <1>5, <1>6, <1>7 DEF Settled
  <1>8. ASSUME NEW i \in Invites, inv'[i].used PROVE password'[inv'[i].user] # NULL
    BY <1>3, <1>4, <1>8 DEF Settled
  <1>9. ASSUME NEW i \in Invites, NEW j \in Invites, inv'[i].used, Open(j)'
        PROVE  inv'[i].seat # inv'[j].seat
    BY <1>3, <1>4, <1>5, <1>9 DEF Settled
  <1> QED
    BY <1>7, <1>8, <1>9 DEF Settled

\* What onboard, the resends and a redirection find when they commit.
LEMMA IssuingSerial ==
  ASSUME KeyInv, Alone, Settled, \A o \in Requests : Current(req[o]), NEW r \in Requests,
         CommitOnboard(r) \/ CommitResend(r) \/ CommitEmail(r)
  PROVE  Alone' /\ Settled' /\ \A o \in Requests : Current(req[o])'
  <1> DEFINE q == req[r]
  <1>1. TypeInv
    BY DEF KeyInv
  <1>2. q.seat \in Seats /\ q.user \in Users
    BY <1>1, CommitRows
  <1>3. PICK S \in SUBSET Invites, n \in Invites :
           Issue(r, q.seat, q.user, S, n) /\ RowsIssued(q.seat, q.user, S, n)
    BY <1>1, CommitRows
  <1>4. Facts(q) /\ Current(q) /\ q.step = "commit" /\ holder \in [Seats -> Users \cup {NULL}]
    BY <1>1 DEF TypeInv, TypeOK, Remembered, CommitOnboard, CommitResend, CommitEmail, Committing
  <1>5. \A i \in Invites : inv[i].used => inv[i].seat \in profile
    BY <1>1, UsedIssued DEF TypeInv, Placed
  <1>6. \A i \in Invites : inv[i].used => inv[i].seat # q.seat
    <2>1. CASE CommitOnboard(r)
      BY <1>5, <2>1 DEF CommitOnboard
    <2>2. CASE CommitResend(r) \/ CommitEmail(r)
      BY <1>4, <2>2 DEF Current, CommitResend, CommitEmail, Committing
    <2> QED
      BY <2>1, <2>2
  <1>7. holder' = [holder EXCEPT ![q.seat] = q.user]
    <2>1. CASE CommitOnboard(r) \/ CommitEmail(r)
      BY <2>1 DEF CommitOnboard, CommitEmail
    <2>2. CASE CommitResend(r)
      <3>1. q.user = holder[q.seat] /\ holder' = holder
        BY <1>4, <2>2 DEF Current, CommitResend, Committing
      <3> QED
        BY <1>2, <1>4, <3>1
    <2> QED
      BY <2>1, <2>2
  <1>8. password' = password
    BY DEF CommitOnboard, CommitResend, CommitEmail
  <1>9. Settled'
    BY <1>2, <1>3, <1>6, <1>7, <1>8, IssueSerial
  <1>10. req' = [req EXCEPT ![r] = req'[r]] /\ req'[r].step # "commit"
    <2>1. req' = [req EXCEPT ![r] = [Idle EXCEPT !.op = "mail", !.step = "mail", !.invite = n]]
      BY <1>3 DEF Issue, Remember
    <2>2. req'[r] = [Idle EXCEPT !.op = "mail", !.step = "mail", !.invite = n]
      BY <1>1, <2>1 DEF TypeInv, TypeOK
    <2>3. req'[r].step = "mail"
      BY <2>2 DEF Idle
    <2> QED
      BY <2>1, <2>2, <2>3
  <1> QED
    BY <1>1, <1>4, <1>9, <1>10, NobodyAfter DEF InTransaction

LEMMA FinishNobody ==
  ASSUME TypeInv, Alone, NEW r \in Requests, InTransaction(r), Finish(r)
  PROVE  Alone' /\ \A o \in Requests : Current(req[o])'
  <1>1. req' = [req EXCEPT ![r] = req'[r]] /\ req'[r].step # "commit"
    BY FinishFacts DEF Idle
  <1> QED
    BY <1>1, NobodyAfter

LEMMA CancelSerial ==
  ASSUME KeyInv, Alone, Settled, NEW r \in Requests, CommitCancel(r)
  PROVE  Alone' /\ Settled' /\ \A o \in Requests : Current(req[o])'
  <1> DEFINE i == req[r].invite
  <1>1. TypeInv
    BY DEF KeyInv
  <1>2. i \in Invites /\ RowsCancelled(i)
    BY <1>1, CommitRows
  <1>3. Finish(r) /\ InTransaction(r) /\ holder' = holder /\ password' = password
    BY DEF CommitCancel, Committing, InTransaction
  <1>4. \A o \in Invites : /\ inv'[o].seat = inv[o].seat /\ inv'[o].user = inv[o].user
                           /\ inv'[o].used = inv[o].used
                           /\ Open(o)' => Open(o)
    BY <1>2 DEF RowsCancelled, Open, Issued
  <1>5. Settled'
    BY <1>3, <1>4 DEF Settled
  <1> QED
    BY <1>1, <1>3, <1>5, FinishNobody

LEMMA AcceptSerial ==
  ASSUME KeyInv, Alone, Settled, NEW r \in Requests, CommitAccept(r)
  PROVE  Alone' /\ Settled' /\ \A o \in Requests : Current(req[o])'
  <1> DEFINE u == req[r].user
  <1>1. TypeInv /\ OneOutstanding /\ password \in [Users -> Passwords]
    BY DEF KeyInv, TypeInv, TypeOK
  <1>2. PICK i \in Invites :
        /\ i = req[r].invite /\ Open(i) /\ u \in Users /\ u = inv[i].user
        /\ i # NULL /\ (req[r].new \/ password[u] # NULL)
        /\ password' = IF req[r].new THEN [password EXCEPT ![u] = i] ELSE password
    BY <1>1, AcceptPassword
  <1>3. PICK S \in SUBSET (Invites \ {i}) : Accept(r, S) /\ RowsAccepted(i, S)
    BY <1>1, <1>2, CommitRows
  <1>4. Finish(r) /\ InTransaction(r) /\ holder' = holder
    BY <1>3 DEF Accept, CommitAccept, Committing, InTransaction
  <1>5. /\ \A o \in Invites : inv'[o].seat = inv[o].seat /\ inv'[o].user = inv[o].user
        /\ \A o \in Invites \ {i} : inv'[o].used = inv[o].used /\ (Open(o)' => Open(o))
        /\ inv'[i].used /\ ~ Open(i)'
    BY <1>2, <1>3 DEF RowsAccepted, Open, Issued
  <1> HIDE DEF u
  <1>6. password'[u] # NULL /\ \A x \in Users : password[x] # NULL => password'[x] # NULL
    BY <1>1, <1>2
  <1>7. \A o \in Invites : Open(o) \/ inv[o].used => inv[o].user \in Users
    BY <1>1, UsedIssued DEF TypeInv, Placed
  <1>8. \A o \in Invites : Open(o)' \/ inv'[o].used => Open(o) \/ inv[o].used
    BY <1>2, <1>5
  <1>9. \A o \in Invites : Open(o)' \/ inv'[o].used => holder'[inv'[o].seat] = inv'[o].user
    BY <1>4, <1>5, <1>8 DEF Settled
  <1>10. ASSUME NEW o \in Invites, inv'[o].used PROVE password'[inv'[o].user] # NULL
    BY <1>2, <1>5, <1>6, <1>7, <1>8, <1>10 DEF Settled
  <1>11. ASSUME NEW o \in Invites, NEW p \in Invites, inv'[o].used, Open(p)'
         PROVE  inv'[o].seat # inv'[p].seat
    <2>1. p # i /\ Open(p)
      BY <1>2, <1>5, <1>11
    <2>2. CASE o = i
      BY <1>1, <1>2, <1>5, <2>1, <2>2 DEF OneOutstanding
    <2>3. CASE o # i
      BY <1>2, <1>5, <1>11, <2>1, <2>3 DEF Settled
    <2> QED
      BY <2>2, <2>3
  <1>12. Settled'
    BY <1>9, <1>10, <1>11 DEF Settled
  <1> QED
    BY <1>1, <1>4, <1>12, FinishNobody

\* What memberships.service, time and the mail do.
LEMMA AroundSerial ==
  ASSUME TypeInv, Settled, \A o \in Requests : Current(req[o]),
         \/ \E r \in Requests : Mail(r) \/ Abort(r)
         \/ \E i \in Invites : Expire(i)
         \/ \E s \in Seats, u \in Users : Join(s, u)
         \/ \E s \in Seats, st \in {"PROVIDER", "SUSPENDED", "OTHER"} : SetStanding(s, st)
  PROVE  Settled' /\ \A o \in Requests : Current(req[o])'
  <1>1. /\ inv \in [Invites -> Rows] /\ req \in [Requests -> Memories]
        /\ password \in [Users -> Passwords] /\ holder \in [Seats -> Users \cup {NULL}]
        /\ profile \subseteq {s \in Seats : holder[s] # NULL}
    BY DEF TypeInv, TypeOK
  <1>2. ASSUME NEW r \in Requests, Mail(r) \/ Abort(r)
        PROVE  /\ UNCHANGED <<holder, password, inv>>
               /\ \A o \in Requests : req'[o] = req[o] \/ req'[o] = Idle
    BY <1>1, <1>2 DEF Mail, Abort, Finish, Tables
  <1>3. ASSUME NEW i \in Invites, Expire(i)
        PROVE  UNCHANGED <<holder, password, req>> /\ RowsKept
    BY <1>1, <1>3 DEF Expire, Rows, RowsKept
  <1>4. ASSUME NEW s \in Seats, NEW u \in Users, Join(s, u)
        PROVE  /\ UNCHANGED <<inv, req>>
               /\ \A x \in profile : holder'[x] = holder[x]
               /\ \A x \in Users : account[x] # "absent" => password'[x] = password[x]
    BY <1>1, <1>4 DEF Join
  <1>5. ASSUME NEW s \in Seats, NEW st \in {"PROVIDER", "SUSPENDED", "OTHER"}, SetStanding(s, st)
        PROVE  UNCHANGED <<holder, password, inv, req>>
    BY <1>5 DEF SetStanding
  <1>6. inv' = inv => RowsKept
    BY DEF RowsKept
  <1>7. /\ RowsKept
        /\ \A s \in profile : holder'[s] = holder[s]
        /\ \A u \in Users : account[u] # "absent" => password'[u] = password[u]
        /\ \A r \in Requests : req'[r] = req[r] \/ req'[r] = Idle
    BY <1>2, <1>3, <1>4, <1>5, <1>6
  <1> QED
    BY <1>7, Untouched

\* Another salon finds nobody in a transaction.
LEMMA ElsewhereSerial ==
  ASSUME TypeInv, Settled, \A r \in Requests : ~ InTransaction(r), NEW u \in Users,
         OnboardElsewhere(u) \/ ActivateElsewhere(u)
  PROVE  Settled' /\ \A o \in Requests : Current(req[o])'
  <1>1. UNCHANGED <<holder, inv, req>>
    BY DEF OnboardElsewhere, ActivateElsewhere
  <1>2. \A x \in Users : password[x] # NULL => password'[x] = password[x]
    BY DEF OnboardElsewhere, ActivateElsewhere, TypeInv, TypeOK
  <1>3. \A i \in Invites : inv[i].used => inv[i].user \in Users
    BY UsedIssued DEF TypeInv, Placed
  <1>4. Settled'
    BY <1>1, <1>2, <1>3 DEF Settled, Open, Issued
  <1>5. \A o \in Requests : Current(req[o])'
    BY <1>1 DEF Current, InTransaction
  <1> QED
    BY <1>4, <1>5

LEMMA SerialStep == SerialInv /\ [Next]_vars => SerialInv'
  <1> SUFFICES ASSUME SerialInv, [Next]_vars PROVE SerialInv'
    OBVIOUS
  <1>1. KeyInv /\ TypeInv /\ KeyInv'
    BY KeyStep DEF SerialInv, KeyInv
  <1>2. CASE UNCHANGED vars
    <2>1. Serial'
      BY <1>2 DEF SerialInv, Serial, Alone, InTransaction, Settled, Current, Open, Issued, vars
    <2> QED
      BY <1>1, <2>1 DEF SerialInv
  <1>3. CASE Next /\ overlapped'
    BY <1>1, <1>3 DEF SerialInv, Serial
  <1>4. CASE Next /\ ~ overlapped'
    <2>1. /\ ~ overlapped
          /\ Step => Alone'
          /\ ~ Step => /\ \A r \in Requests : ~ InTransaction(r)
                       /\ \E u \in Users : OnboardElsewhere(u) \/ ActivateElsewhere(u)
      BY <1>1, <1>4, AloneAfter
    <2>2. Alone /\ Settled /\ \A r \in Requests : Current(req[r])
      BY <2>1 DEF SerialInv, Serial
    <2> DEFINE Still == Settled' /\ \A o \in Requests : Current(req[o])'
    <2>3. ASSUME ~ Step PROVE Alone' /\ Still
      <3>1. PICK u \in Users : OnboardElsewhere(u) \/ ActivateElsewhere(u)
        BY <2>1, <2>3
      <3>2. Still
        BY <1>1, <2>1, <2>2, <2>3, <3>1, ElsewhereSerial
      <3>3. Alone'
        BY <2>2, <3>1 DEF Alone, InTransaction, OnboardElsewhere, ActivateElsewhere
      <3> QED
        BY <3>2, <3>3
    <2>4. ASSUME Step PROVE Still
      <3>1. Alone'
        BY <2>1, <2>4
      <3>2. ASSUME NEW r \in Requests, Managing(r) PROVE Still
        BY <1>1, <2>2, <3>1, <3>2, ReadOnboardSerial, ReadResendSerial, ReadManagedSerial,
           ReadEmailSerial, ReadCancelSerial, IssuingSerial, CancelSerial
        DEF Managing
      <3>3. ASSUME NEW r \in Requests, NEW i \in Invites, ReadAccept(r, i) PROVE Still
        BY <1>1, <2>2, <3>1, <3>3, ReadAcceptSerial
      <3>4. ASSUME NEW r \in Requests, CommitAccept(r) PROVE Still
        BY <1>1, <2>2, <3>4, AcceptSerial
      <3>5. ASSUME \/ \E r \in Requests : Mail(r) \/ Abort(r)
                   \/ \E i \in Invites : Expire(i)
                   \/ \E s \in Seats, u \in Users : Join(s, u)
                   \/ \E s \in Seats, st \in {"PROVIDER", "SUSPENDED", "OTHER"} : SetStanding(s, st)
            PROVE  Still
        BY <1>1, <2>2, <3>5, AroundSerial
      <3> HIDE DEF Still
      <3> QED
        BY <2>4, <3>2, <3>3, <3>4, <3>5 DEF Step
    <2>5. Serial'
      BY <2>1, <2>3, <2>4 DEF Serial
    <2> QED
      BY <1>1, <2>5 DEF SerialInv
  <1> QED
    BY <1>2, <1>3, <1>4

LEMMA SerialInvariant == Spec => []SerialInv
  <1>1. Init => SerialInv
    <2> SUFFICES ASSUME Init PROVE SerialInv
      OBVIOUS
    <2>1. \A i \in Invites : ~ Open(i) /\ ~ inv[i].used /\ ~ inv[i].key
      BY DEF Init, NoInvite, Open, Issued
    <2>2. \A r \in Requests : req[r].step = "idle"
      BY DEF Init, Idle
    <2>3. KeyInv
      BY <2>1, TypeInit DEF KeyInv, KeyIffOpen, OneOutstanding
    <2> QED
      BY <2>1, <2>2, <2>3 DEF SerialInv, Serial, Alone, InTransaction, Settled, Current
  <1> QED
    BY <1>1, SerialStep, PTL DEF Spec

\* A membership whose invitation has been accepted stays with the one who
\* accepted it, as long as transactions do not overlap
\* (service-providers.service.ts:344-413 and 466-470).
THEOREM AcceptedStaysHolds == Spec => []AcceptedStays
  <1>1. SerialInv => AcceptedStays
    BY DEF SerialInv, Serial, Settled, AcceptedStays, HolderAccepted
  <1> QED
    BY <1>1, SerialInvariant, PTL

\* As long as transactions do not overlap, the invitation that can be accepted
\* is addressed to the user who holds the membership
\* (service-providers.service.ts:392-402).
THEOREM OpenForHolderHolds == Spec => []OpenForHolder
  <1>1. SerialInv => OpenForHolder
    BY DEF SerialInv, Serial, Settled, OpenForHolder
  <1> QED
    BY <1>1, SerialInvariant, PTL

\* As long as transactions do not overlap, no acceptance replaces a password
\* that a user already has (invitations.service.ts:149-164).
THEOREM PasswordKeptHolds == Spec => PasswordKept
  <1> DEFINE Kept == overlapped \/ \A u \in Users : password[u] # NULL => password'[u] = password[u]
  <1>1. SerialInv /\ [Next]_vars => [Kept]_vars
    <2> SUFFICES ASSUME SerialInv, Next, ~ overlapped, NEW u \in Users, password[u] # NULL
                 PROVE  password'[u] = password[u]
      OBVIOUS
    <2>1. TypeInv /\ password \in [Users -> Passwords]
      BY DEF SerialInv, KeyInv, TypeInv, TypeOK
    <2>2. CASE password' = password
      BY <2>2
    <2>3. ASSUME NEW v \in Users, OwnPassword(v) PROVE password'[u] = password[u]
      <3>1. password[v] = NULL
        BY <2>1, <2>3 DEF OwnPassword, ActivateElsewhere, TypeInv, TypeOK
      <3> QED
        BY <2>1, <2>3, <3>1 DEF OwnPassword
    <2>4. ASSUME NEW r \in Requests, CommitAccept(r) PROVE password'[u] = password[u]
      <3>1. Current(req[r]) /\ req[r].step = "commit" /\ req[r].op = "accept"
        BY <2>4 DEF SerialInv, Serial, CommitAccept, Committing
      <3>2. req[r].new => password[req[r].user] = NULL
        BY <3>1 DEF Current
      <3>3. /\ req[r].user \in Users
            /\ password' = IF req[r].new THEN [password EXCEPT ![req[r].user] = req[r].invite]
                           ELSE password
        BY <2>1, <2>4, AcceptPassword
      <3> QED
        BY <2>1, <3>2, <3>3
    <2> QED
      BY <2>1, <2>2, <2>3, <2>4, PasswordCases
  <1>2. Spec => [][Kept]_vars
    <2>1. Spec => [][Next]_vars
      BY DEF Spec
    <2> HIDE DEF Kept
    <2> QED
      BY <1>1, <2>1, SerialInvariant, PTL
  <1> QED
    BY <1>2 DEF PasswordKept
=============================================================================

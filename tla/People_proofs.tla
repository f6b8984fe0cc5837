---------------------------- MODULE People_proofs ----------------------------
(***************************************************************************)
(* Proofs about the people of a salon: its staff (Staff) and its customers *)
(* (Customers), for every number of them and of requests.                  *)
(***************************************************************************)
EXTENDS Staff, Customers, TLAPS

\* One step of one request, with the parameters of Ask named.
LEMMA NextCases ==
  ASSUME NEW P, Next,
         ASSUME NEW r \in Requests, NEW op \in Ops, NEW m \in Members, NEW to \in Roles,
                Ask(r, op, m, to)
         PROVE  P,
         ASSUME NEW r \in Requests, Read(r) \/ Count(r) PROVE P,
         ASSUME NEW r \in Requests, UpdateRole(r) PROVE P,
         ASSUME NEW r \in Requests, SetStatus(r) PROVE P,
         ASSUME NEW r \in Requests, Create(r) PROVE P,
         ASSUME NEW r \in Requests, CreateProfile(r) PROVE P,
         ASSUME NEW r \in Requests, Onboard(r) PROVE P
  PROVE  P
  BY DEF Next, Serving

-----------------------------------------------------------------------------
(* Type correctness needs to know that whoever is about to be written to   *)
(* was found to be a member, which no member ever stops being.             *)
Found ==
    \A r \in Requests :
        req[r] # Idle /\ req[r].step \in {"count", "write"} /\ req[r].op \notin {"create", "onboard"}
            => role[req[r].who] # "none"

\* The one who onboards has seen a member, or will insert one.
FoundOnboarding ==
    \A r \in Requests :
        req[r] # Idle /\ req[r].step \in {"count", "write"} /\ req[r].op = "onboard"
                /\ req[r].seen # "none"
            => role[req[r].who] # "none"

TypeInv == TypeOK /\ Found /\ FoundOnboarding

LEMMA IdleIsNoMemory == Idle \notin Memories
  BY DEF Idle, Memories, Ops

\* What Read and Count make of the memory of their request.
LEMMA ReadFields ==
  ASSUME TypeOK, NEW r \in Requests, Read(r)
  PROVE  /\ req[r] \in Memories
         /\ \/ Finish(r)
            \/ /\ \A s \in Requests \ {r} : req'[s] = req[s]
               /\ req'[r] \in Memories
               /\ req'[r].op = req[r].op /\ req'[r].who = req[r].who
               /\ req'[r].seen = role[req[r].who]
               /\ req'[r].step = IF RemovesOwner(req'[r]) THEN "count" ELSE "write"
               /\ ~ Refused(req[r])
  <1>1. req[r] \in Memories
    BY DEF Read, TypeOK
  <1> DEFINE q == [req[r] EXCEPT !.seen = role[req[r].who]]
             n == [q EXCEPT !.step = IF RemovesOwner(q) THEN "count" ELSE "write"]
  <1>2. q \in Memories /\ q.op = req[r].op /\ q.who = req[r].who /\ q.seen = role[req[r].who]
        /\ q.to = req[r].to
    BY <1>1 DEF Memories, TypeOK
  <1>3. Finish(r) \/ (~ Refused(req[r]) /\ Remember(r, n))
    BY DEF Read
  <1> HIDE DEF q
  <1>4. /\ n \in Memories /\ n.op = q.op /\ n.who = q.who /\ n.seen = q.seen /\ n.to = q.to
        /\ n.step = IF RemovesOwner(q) THEN "count" ELSE "write"
    BY <1>2 DEF Memories
  <1> HIDE DEF n
  <1>5. RemovesOwner(q) <=> RemovesOwner(n)
    BY <1>4 DEF RemovesOwner
  <1>6. Remember(r, n) => req'[r] = n /\ \A s \in Requests \ {r} : req'[s] = req[s]
    BY DEF Remember, TypeOK
  <1> QED
    BY <1>1, <1>2, <1>3, <1>4, <1>5, <1>6

LEMMA CountFields ==
  ASSUME TypeOK, NEW r \in Requests, Count(r)
  PROVE  /\ req[r] \in Memories
         /\ \/ Finish(r)
            \/ /\ \A s \in Requests \ {r} : req'[s] = req[s]
               /\ req'[r] \in Memories
               /\ req'[r].op = req[r].op /\ req'[r].who = req[r].who
               /\ req'[r].seen = req[r].seen /\ req'[r].to = req[r].to
               /\ req'[r].step = "write" /\ AnotherOwner(req[r].who)
  <1>1. req[r] \in Memories
    BY DEF Count, TypeOK
  <1> DEFINE n == [req[r] EXCEPT !.step = "write"]
  <1>2. /\ n \in Memories /\ n.op = req[r].op /\ n.who = req[r].who
        /\ n.seen = req[r].seen /\ n.to = req[r].to /\ n.step = "write"
    BY <1>1 DEF Memories
  <1>3. Finish(r) \/ (AnotherOwner(req[r].who) /\ Remember(r, n))
    BY DEF Count
  <1> HIDE DEF n
  <1>4. Remember(r, n) => req'[r] = n /\ \A s \in Requests \ {r} : req'[s] = req[s]
    BY DEF Remember, TypeOK
  <1> QED
    BY <1>1, <1>2, <1>3, <1>4

LEMMA TypeStep == TypeInv /\ [Next]_vars => TypeInv'
  <1> SUFFICES ASSUME TypeInv, [Next]_vars PROVE TypeInv'
    OBVIOUS
  <1>0. (overlapped \in BOOLEAN)'
    BY DEF Next, Watch, vars, TypeInv, TypeOK
  <1> USE IdleIsNoMemory DEF TypeInv
  <1>1. CASE UNCHANGED vars
    BY <1>1 DEF vars, TypeOK, Found, FoundOnboarding
  <1>2. CASE Next
    <2>1. ASSUME NEW r \in Requests, NEW op \in Ops, NEW m \in Members, NEW to \in Roles,
                 Ask(r, op, m, to)
          PROVE  TypeInv'
      BY <1>0, <2>1 DEF Ask, Remember, Staff, TypeOK, Found, FoundOnboarding, Memories
    <2>2. ASSUME NEW r \in Requests, Read(r) \/ Count(r) PROVE TypeInv'
      <3>1. UNCHANGED Staff
        BY <2>2 DEF Read, Count
      <3>2. CASE Finish(r)
        BY <1>0, <3>1, <3>2 DEF Finish, Staff, TypeOK, Found, FoundOnboarding
      <3>3. CASE Read(r) /\ ~ Finish(r)
        <4>1. req'[r] \in Memories /\ \A s \in Requests \ {r} : req'[s] = req[s]
          BY <3>3, ReadFields
        <4>2. DOMAIN req' = Requests /\ req' = [s \in Requests |-> req'[s]]
          BY <3>3 DEF Read, Finish, Remember, TypeOK
        <4>3. TypeOK'
          BY <1>0, <3>1, <4>1, <4>2 DEF Staff, TypeOK
        <4>4. req'[r].op \notin {"create", "onboard"} => role[req'[r].who] # "none"
          BY <3>3, ReadFields DEF Refused
        <4>5. req'[r].seen # "none" => role[req'[r].who] # "none"
          BY <3>3, ReadFields
        <4> QED
          BY <3>1, <4>1, <4>3, <4>4, <4>5 DEF Staff, Found, FoundOnboarding
      <3>4. CASE Count(r) /\ ~ Finish(r)
        <4>1. /\ req'[r] \in Memories /\ \A s \in Requests \ {r} : req'[s] = req[s]
              /\ req'[r].op = req[r].op /\ req'[r].who = req[r].who /\ req'[r].seen = req[r].seen
          BY <3>4, CountFields
        <4>2. DOMAIN req' = Requests /\ req' = [s \in Requests |-> req'[s]]
          BY <3>4 DEF Count, Finish, Remember, TypeOK
        <4>3. TypeOK'
          BY <1>0, <3>1, <4>1, <4>2 DEF Staff, TypeOK
        <4>4. req[r] # Idle /\ req[r].step = "count"
          BY <3>4 DEF Count
        <4> QED
          BY <3>1, <4>1, <4>3, <4>4 DEF Staff, Found, FoundOnboarding
      <3> QED
        BY <2>2, <3>2, <3>3, <3>4
    <2>3. ASSUME NEW r \in Requests, UpdateRole(r) PROVE TypeInv'
      <3>1. req[r] \in Memories
        BY <2>3 DEF UpdateRole, Writing, TypeOK
      <3> QED
        BY <1>0, <2>3, <3>1 DEF UpdateRole, Writing, Finish, TypeOK, Found, FoundOnboarding,
           Memories, Roles
    <2>4. ASSUME NEW r \in Requests, SetStatus(r) PROVE TypeInv'
      <3>1. req[r] \in Memories
        BY <2>4 DEF SetStatus, Writing, TypeOK
      <3> QED
        BY <1>0, <2>4, <3>1 DEF SetStatus, Writing, Finish, TypeOK, Found, FoundOnboarding, Memories
    <2>5. ASSUME NEW r \in Requests, Create(r) PROVE TypeInv'
      <3>1. req[r] \in Memories
        BY <2>5 DEF Create, Writing, TypeOK
      <3> QED
        BY <1>0, <2>5, <3>1 DEF Create, Writing, Finish, TypeOK, Found, FoundOnboarding,
           Memories, Roles
    <2>6. ASSUME NEW r \in Requests, CreateProfile(r) PROVE TypeInv'
      <3>1. req[r] \in Memories
        BY <2>6 DEF CreateProfile, Writing, TypeOK
      <3> QED
        BY <1>0, <2>6, <3>1 DEF CreateProfile, Writing, Finish, TypeOK, Found, FoundOnboarding,
           Memories
    <2>7. ASSUME NEW r \in Requests, Onboard(r) PROVE TypeInv'
      <3>1. req[r] \in Memories
        BY <2>7 DEF Onboard, Writing, TypeOK
      <3> QED
        BY <1>0, <2>7, <3>1 DEF Onboard, Writing, Finish, Staff, TypeOK, Found, FoundOnboarding,
           Memories, Roles
    <2> QED
      BY <1>2, <2>1, <2>2, <2>3, <2>4, <2>5, <2>6, <2>7, NextCases
  <1> QED
    BY <1>1, <1>2

LEMMA TypeInvariant == Spec => []TypeInv
  <1>1. Init => TypeInv
    BY FounderAssumption DEF Init, TypeInv, TypeOK, Found, FoundOnboarding, Roles
  <1> QED
    BY <1>1, TypeStep, PTL DEF Spec

\* Memberships, statuses, profiles and requests stay well-formed
\* (memberships.service.ts, service-providers.service.ts:82-222 and 483-526).
THEOREM TypeCorrect == Spec => []TypeOK
  <1>1. TypeInv => TypeOK
    BY DEF TypeInv
  <1> QED
    BY <1>1, TypeInvariant, PTL

\* No addition of a person, however it races with others, takes over the
\* membership that is there (memberships.service.ts:105-116,
\* service-providers.service.ts:148-156).
THEOREM RoleKeptHolds == Spec => RoleKept
  <1> DEFINE Kept == \A m \in Members : role[m] # "none" /\ role'[m] # role[m] =>
                        \E r \in Requests : UpdateRole(r) /\ req[r].who = m
  <1>1. TypeInv /\ [Next]_vars => [Kept]_vars
    <2> SUFFICES ASSUME TypeInv, Next, NEW m \in Members,
                        role[m] # "none", role'[m] # role[m]
                 PROVE  \E r \in Requests : UpdateRole(r) /\ req[r].who = m
      OBVIOUS
    <2>1. PICK r \in Requests : Serving(r)
      BY DEF Next
    <2>2. role' # role
      OBVIOUS
    <2>3. UpdateRole(r) \/ Create(r) \/ Onboard(r)
      BY <2>1, <2>2
      DEF Serving, Ask, Read, Count, SetStatus, CreateProfile, Staff
    <2>4. req[r] \in Memories /\ role \in [Members -> Roles \cup {"none"}]
      BY <2>3 DEF UpdateRole, Create, Onboard, Writing, TypeInv, TypeOK
    <2>5. ~ Create(r)
      BY <2>4 DEF Create, Memories
    <2>6. ~ Onboard(r)
      BY <2>4 DEF Onboard, Staff, Memories
    <2>7. UpdateRole(r) /\ req[r].who = m
      BY <2>3, <2>4, <2>5, <2>6 DEF UpdateRole, Memories
    <2> QED
      BY <2>7
  <1>2. Spec => [][Kept]_vars
    BY <1>1, TypeInvariant, PTL DEF Spec
  <1> QED
    BY <1>2 DEF RoleKept

-----------------------------------------------------------------------------
(* Until two requests overlap, at most one is being served, and what its   *)
(* handler has read and counted still holds when it writes.                *)
Alone ==
    overlapped \/ \A r, s \in Requests : Busy(r) /\ Busy(s) => r = s

Counted ==
    overlapped \/
    \A r \in Requests :
        /\ req[r] # Idle /\ req[r].step \in {"count", "write"} /\ req[r].op \in {"updateRole", "suspend"}
              => req[r].seen = role[req[r].who]
        /\ req[r] # Idle /\ req[r].step = "write" /\ RemovesOwner(req[r])
              => AnotherOwner(req[r].who)

OwnerInv == TypeInv /\ Alone /\ Counted /\ ActiveOwner

LEMMA AloneStep ==
  ASSUME Alone, TypeInv, [Next]_vars
  PROVE  Alone' /\ (overlapped => overlapped')
  <1>1. CASE UNCHANGED vars
    BY <1>1 DEF vars, Alone, Busy
  <1>2. CASE Next
    BY <1>2 DEF Next, Watch, Alone, Busy, TypeInv, TypeOK
  <1> QED
    BY <1>1, <1>2

\* The request that takes a step was busy, so every other one is idle.
LEMMA OthersIdle ==
  ASSUME Alone, ~ overlapped, NEW r \in Requests, Busy(r)
  PROVE  \A s \in Requests \ {r} : req[s] = Idle
  BY DEF Alone, Busy

\* A write finishes the only request, so nothing remains to be remembered.
LEMMA WriteCounted ==
  ASSUME TypeInv, Alone, ~ overlapped, NEW r \in Requests, Busy(r), Finish(r)
  PROVE  Counted'
  <1>1. \A s \in Requests : req'[s] = Idle
    BY OthersIdle DEF Finish, TypeInv, TypeOK
  <1> QED
    BY <1>1 DEF Counted

LEMMA OwnerStep ==
  ASSUME OwnerInv, [Next]_vars
  PROVE  Counted' /\ ActiveOwner'
  <1> USE IdleIsNoMemory
  <1>0. CASE overlapped'
    BY <1>0 DEF Counted, ActiveOwner
  <1>a. SUFFICES ASSUME ~ overlapped'
                 PROVE  Counted' /\ ActiveOwner'
    BY <1>0
  <1>b. ~ overlapped /\ Alone'
    BY <1>a, AloneStep DEF OwnerInv
  <1>1. CASE UNCHANGED vars
    BY <1>1 DEF vars, OwnerInv, Counted, AnotherOwner, Owns, ActiveOwner, SomeOwner
  <1>2. CASE Next
    <2> DEFINE P == Counted' /\ ActiveOwner'
    <2>1. ASSUME NEW r \in Requests, NEW op \in Ops, NEW m \in Members, NEW to \in Roles,
                 Ask(r, op, m, to)
          PROVE  P
      <3>1. req' = [req EXCEPT ![r] = req'[r]] /\ req'[r].op = op /\ req'[r].seen = "none"
            /\ (req'[r].step = "write" => op = "create") /\ req'[r].step # "count"
        BY <2>1 DEF Ask, Remember, OwnerInv, TypeInv, TypeOK
      <3>2. \A s \in Requests \ {r} : req'[s] = Idle
        <4>1. Busy(r)'
          BY <2>1, <3>1 DEF Busy, Idle, Ops
        <4>2. \A s \in Requests : ~ (Busy(s)' /\ s # r)
          BY <1>a, <1>b, <4>1 DEF Alone
        <4> QED
          BY <4>2 DEF Busy
      <3> QED
        BY <2>1, <3>1, <3>2, <1>b
        DEF Ask, Staff, OwnerInv, Counted, RemovesOwner, AnotherOwner, Owns, ActiveOwner, SomeOwner
    <2>2. ASSUME NEW r \in Requests, Read(r) \/ Count(r) PROVE P
      <3>1. Busy(r) /\ UNCHANGED Staff
        BY <2>2 DEF Read, Count, Busy
      <3>2. \A s \in Requests \ {r} : req'[s] = Idle
        <4>1. \A s \in Requests \ {r} : req'[s] = req[s]
          BY <2>2, ReadFields, CountFields DEF Finish, OwnerInv, TypeInv, TypeOK
        <4> QED
          BY <4>1, <3>1, <1>b, OthersIdle DEF OwnerInv
      <3>3. ActiveOwner'
        BY <3>1, <1>b DEF Staff, OwnerInv, ActiveOwner, SomeOwner, Owns
      <3>4. CASE Finish(r)
        BY <3>1, <3>3, <3>4, <1>b, WriteCounted DEF OwnerInv
      <3>5. CASE Read(r) /\ ~ Finish(r)
        <4>1. /\ req'[r].seen = role[req'[r].who]
              /\ req'[r].step = IF RemovesOwner(req'[r]) THEN "count" ELSE "write"
          BY <3>5, ReadFields DEF OwnerInv, TypeInv
        <4> QED
          BY <3>2, <3>3, <3>5, <4>1 DEF Read, Staff, Counted, RemovesOwner
      <3>6. CASE Count(r) /\ ~ Finish(r)
        <4>1. /\ req'[r].op = req[r].op /\ req'[r].who = req[r].who
              /\ req'[r].seen = req[r].seen /\ AnotherOwner(req[r].who)
          BY <3>6, CountFields DEF OwnerInv, TypeInv
        <4>2. (AnotherOwner(req[r].who))'
          BY <3>6, <4>1 DEF Count, Staff, AnotherOwner, Owns
        <4> QED
          BY <3>2, <3>3, <3>6, <4>1, <4>2, <1>b DEF Count, Staff, OwnerInv, Counted
      <3> QED
        BY <2>2, <3>3, <3>4, <3>5, <3>6
    <2>3. ASSUME NEW r \in Requests, UpdateRole(r) PROVE P
      <3>1. Counted'
        BY <2>3, <1>b, WriteCounted DEF UpdateRole, Writing, Busy, OwnerInv
      <3>2. req[r] \in Memories /\ req[r].seen = role[req[r].who]
        BY <2>3, <1>b DEF UpdateRole, Writing, OwnerInv, TypeInv, TypeOK, Counted
      <3>3. CASE RemovesOwner(req[r])
        <4>1. PICK o \in Members \ {req[r].who} : Owns(o)
          BY <2>3, <3>3, <1>b DEF UpdateRole, Writing, OwnerInv, Counted, AnotherOwner
        <4>2. Owns(o)'
          BY <2>3, <4>1, <3>2 DEF UpdateRole, Owns, OwnerInv, TypeInv, TypeOK
        <4> QED
          BY <3>1, <4>1, <4>2 DEF ActiveOwner, SomeOwner
      <3>4. CASE ~ RemovesOwner(req[r])
        <4>1. PICK o \in Members : Owns(o)
          BY <1>b DEF OwnerInv, ActiveOwner, SomeOwner
        <4>2. o = req[r].who => req[r].to = "OWNER"
          BY <2>3, <3>2, <3>4, <4>1 DEF RemovesOwner, Owns, UpdateRole, Writing
        <4>3. Owns(o)'
          BY <2>3, <4>1, <4>2, <3>2 DEF UpdateRole, Owns, OwnerInv, TypeInv, TypeOK, Memories
        <4> QED
          BY <3>1, <4>3 DEF ActiveOwner, SomeOwner
      <3> QED
        BY <3>3, <3>4
    <2>4. ASSUME NEW r \in Requests, SetStatus(r) PROVE P
      <3>1. Counted'
        BY <2>4, <1>b, WriteCounted DEF SetStatus, Writing, Busy, OwnerInv
      <3>2. req[r] \in Memories
        BY <2>4 DEF SetStatus, Writing, OwnerInv, TypeInv, TypeOK
      <3>3. CASE RemovesOwner(req[r])
        <4>1. PICK o \in Members \ {req[r].who} : Owns(o)
          BY <2>4, <3>3, <1>b DEF SetStatus, Writing, OwnerInv, Counted, AnotherOwner
        <4>2. Owns(o)'
          BY <2>4, <4>1 DEF SetStatus, Owns
        <4> QED
          BY <3>1, <4>1, <4>2 DEF ActiveOwner, SomeOwner
      <3>4. CASE ~ RemovesOwner(req[r])
        <4>1. PICK o \in Members : Owns(o)
          BY <1>b DEF OwnerInv, ActiveOwner, SomeOwner
        <4>2. req[r].op = "suspend" => o # req[r].who
          BY <2>4, <3>4, <4>1, <1>b
          DEF SetStatus, Writing, OwnerInv, Counted, RemovesOwner, Owns
        <4>3. Owns(o)'
          BY <2>4, <4>1, <4>2 DEF SetStatus, Writing, Owns
        <4> QED
          BY <3>1, <4>3 DEF ActiveOwner, SomeOwner
      <3> QED
        BY <3>3, <3>4
    <2>5. ASSUME NEW r \in Requests, Create(r) PROVE P
      <3>1. Counted'
        BY <2>5, <1>b, WriteCounted DEF Create, Writing, Busy, OwnerInv
      <3>2. \A o \in Members : Owns(o) => Owns(o)'
        BY <2>5 DEF Create, Owns, OwnerInv, TypeInv, TypeOK
      <3> QED
        BY <3>1, <3>2, <1>b DEF OwnerInv, ActiveOwner, SomeOwner
    <2>6. ASSUME NEW r \in Requests, CreateProfile(r) PROVE P
      <3>1. Counted'
        BY <2>6, <1>b, WriteCounted DEF CreateProfile, Writing, Busy, OwnerInv
      <3> QED
        BY <2>6, <3>1, <1>b DEF CreateProfile, OwnerInv, ActiveOwner, SomeOwner, Owns
    <2>7. ASSUME NEW r \in Requests, Onboard(r) PROVE P
      <3>1. Counted'
        BY <2>7, <1>b, WriteCounted DEF Onboard, Writing, Busy, OwnerInv
      <3>2. \A o \in Members : Owns(o) => Owns(o)'
        BY <2>7 DEF Onboard, Staff, Owns, OwnerInv, TypeInv, TypeOK
      <3> QED
        BY <3>1, <3>2, <1>b DEF OwnerInv, ActiveOwner, SomeOwner
    <2> HIDE DEF P
    <2>8. P
      BY <1>2, <2>1, <2>2, <2>3, <2>4, <2>5, <2>6, <2>7, NextCases
    <2> QED
      BY <2>8 DEF P
  <1> QED
    BY <1>1, <1>2

\* Until two requests overlap a salon always has an active owner
\* (memberships.service.ts:152-153, 179-180 and 258-269).
THEOREM ActiveOwnerHolds == Spec => []ActiveOwner
  <1>1. Init => OwnerInv
    <2> SUFFICES ASSUME Init PROVE OwnerInv
      OBVIOUS
    <2>1. TypeInv
      BY FounderAssumption DEF Init, TypeInv, TypeOK, Found, FoundOnboarding, Roles
    <2>2. Owns(Founder)
      BY FounderAssumption DEF Init, Owns
    <2> QED
      BY <2>1, <2>2, FounderAssumption
      DEF Init, OwnerInv, Alone, Busy, Counted, ActiveOwner, SomeOwner
  <1>2. OwnerInv /\ [Next]_vars => OwnerInv'
    BY OwnerStep, TypeStep, AloneStep DEF OwnerInv
  <1>3. OwnerInv => ActiveOwner
    BY DEF OwnerInv
  <1> QED
    BY <1>1, <1>2, <1>3, PTL DEF Spec

-----------------------------------------------------------------------------
(* Customers                                                               *)

\* Every part of the state keeps its type, and what a request is about to
\* write is about a customer that is there (customers.service.ts:40-191).
THEOREM CustomersTyped == CustomersSpec => []CustomersTypeOK
<1>1. CustomersInit => CustomersTypeOK
  BY DEF CustomersInit, CustomersTypeOK, NoWrite
<1>2. CustomersTypeOK /\ [CustomersNext]_customerVars => CustomersTypeOK'
  <2> SUFFICES ASSUME CustomersTypeOK, [CustomersNext]_customerVars
               PROVE  CustomersTypeOK'
    OBVIOUS
  <2>1. CASE UNCHANGED customerVars
    BY <2>1 DEF customerVars, CustomersTypeOK
  <2>2. CASE CustomersNext
    <3>0. (everOverlapped \in BOOLEAN)'
      BY <2>2 DEF CustomersNext, WatchOverlap, CustomersTypeOK
    <3> PICK r \in Slots : Handling(r)
      BY <2>2 DEF CustomersNext
    <3>1. CASE \E c \in Ids, n \in Phones \cup {None} : CheckCreate(r, c, n)
      BY <3>0, <3>1 DEF CheckCreate, Serve, CustomersTypeOK, Writes, NoWrite
    <3>2. CASE \E c \in Ids, n \in Phones \cup {None} : CheckUpdate(r, c, n)
      BY <3>0, <3>2 DEF CheckUpdate, Serve, CustomersTypeOK, Writes, NoWrite
    <3>3. CASE \E c \in Ids, on \in BOOLEAN : CheckSetActive(r, c, on)
      BY <3>0, <3>3 DEF CheckSetActive, Serve, CustomersTypeOK, Writes, NoWrite
    <3>4. CASE Write(r)
      <4>1. pending[r] \in Writes
        BY <3>4 DEF Write, CustomersTypeOK
      <4>2. NumberAfter(pending[r]) \in Phones \cup {None}
        BY <4>1 DEF NumberAfter, CustomersTypeOK, Writes
      <4>3. phone' \in [Ids -> Phones \cup {None}]
        BY <3>4, <4>1, <4>2 DEF Write, CustomersTypeOK, Writes
      <4>4. active' \subseteq exists' /\ exists' \subseteq Ids
        BY <3>4, <4>1 DEF Write, CustomersTypeOK, Writes
      <4>5. pending' \in [Slots -> Writes \cup {NoWrite}]
        BY <3>4 DEF Write, CustomersTypeOK
      <4>6. \A o \in Slots : pending'[o] # NoWrite /\ pending'[o].op # "create" => pending'[o].id \in exists'
        BY <3>4 DEF Write, CustomersTypeOK
      <4> QED
        BY <3>0, <4>3, <4>4, <4>5, <4>6 DEF CustomersTypeOK
    <3>5. CASE Fail(r)
      BY <3>0, <3>5 DEF Fail, CustomersTypeOK
    <3> QED
      BY <3>1, <3>2, <3>3, <3>4, <3>5 DEF Handling
  <2> QED
    BY <2>1, <2>2
<1> QED
  BY <1>1, <1>2, PTL DEF CustomersSpec

\* The index alone keeps phone numbers unique: a write puts a number on an
\* active row, or makes a row active, only if no other active customer of the
\* salon has it (customers.service.ts:50-62, 144-148, 173-177).
THEOREM PhoneUniqueHolds == CustomersSpec => []PhoneUnique
<1>1. CustomersInit => PhoneUnique
  BY DEF CustomersInit, PhoneUnique
<1>2. CustomersTypeOK /\ PhoneUnique /\ [CustomersNext]_customerVars => PhoneUnique'
  <2> SUFFICES ASSUME CustomersTypeOK, PhoneUnique, [CustomersNext]_customerVars
               PROVE  PhoneUnique'
    OBVIOUS
  <2>1. CASE UNCHANGED <<phone, active>>
    BY <2>1 DEF PhoneUnique
  <2>2. CASE \E r \in Slots : Write(r)
    <3> PICK r \in Slots : Write(r)
      BY <2>2
    <3> PICK w \in Writes : w = pending[r]
      BY DEF Write, CustomersTypeOK
    <3>1. /\ ~ Refuses(w)
          /\ phone' = [phone EXCEPT ![w.id] = NumberAfter(w)]
          /\ active' = IF ActiveAfter(w) THEN active \cup {w.id} ELSE active \ {w.id}
      BY DEF Write
    <3>2. \A c \in Ids : c # w.id => phone'[c] = phone[c] /\ (c \in active' <=> c \in active)
      BY <3>1 DEF CustomersTypeOK
    <3>3. phone'[w.id] = NumberAfter(w) /\ (w.id \in active' => ActiveAfter(w))
      BY <3>1 DEF CustomersTypeOK, Writes
    <3>4. ASSUME NEW d \in active', d # w.id, TenantOf[d] = TenantOf[w.id],
                 w.id \in active', phone'[w.id] # None
          PROVE  phone'[d] # phone'[w.id]
      <4>1. d \in active \ {w.id} /\ phone'[d] = phone[d]
        BY <3>1, <3>2, <3>4 DEF CustomersTypeOK, Writes
      <4> QED
        BY <3>1, <3>3, <3>4, <4>1 DEF Refuses, Others
    <3>5. active' \subseteq active \cup {w.id} /\ active \subseteq Ids
      BY <3>1 DEF CustomersTypeOK
    <3>6. ASSUME NEW c \in active', NEW d \in active', c # d, TenantOf[c] = TenantOf[d],
                 phone'[c] # None
          PROVE  phone'[c] # phone'[d]
      <4>1. CASE c = w.id
        BY <4>1, <3>4, <3>6
      <4>2. CASE d = w.id
        BY <4>2, <3>4, <3>6
      <4>3. CASE c # w.id /\ d # w.id
        BY <4>3, <3>2, <3>5, <3>6 DEF PhoneUnique
      <4> QED
        BY <4>1, <4>2, <4>3
    <3> QED
      BY <3>6 DEF PhoneUnique
  <2> QED
    BY <2>1, <2>2 DEF CustomersNext, Handling, customerVars, CheckCreate, CheckUpdate, CheckSetActive, Serve, Fail
<1> QED
  BY <1>1, <1>2, CustomersTyped, PTL DEF CustomersSpec

-----------------------------------------------------------------------------
\* Until two requests overlap, at most one is being served.
OnePending == everOverlapped \/ \A r, s \in Slots : UnderWay(r) /\ UnderWay(s) => r = s

\* Until two requests overlap nothing changes between a check and its write,
\* and the check asks all that the index does
\* (customers.service.ts:47, 129, 172 and 215-232).
THEOREM CheckSufficesHolds == CustomersSpec => []CheckSuffices
<1> DEFINE Inv == OnePending /\ CheckSuffices
<1>1. CustomersInit => Inv
  BY DEF CustomersInit, OnePending, CheckSuffices, UnderWay
<1>2. CustomersTypeOK /\ Inv /\ [CustomersNext]_customerVars => Inv'
  <2> SUFFICES ASSUME CustomersTypeOK, Inv, [CustomersNext]_customerVars
               PROVE  Inv'
    OBVIOUS
  <2>1. CASE UNCHANGED customerVars
    BY <2>1 DEF customerVars, OnePending, UnderWay, CheckSuffices, Refuses, ActiveAfter, NumberAfter, Others
  <2>2. CASE CustomersNext
    <3>1. OnePending' /\ (everOverlapped => everOverlapped')
      BY <2>2 DEF CustomersNext, WatchOverlap, OnePending
    <3>2. CASE everOverlapped'
      BY <3>1, <3>2 DEF CheckSuffices
    <3>3. CASE ~ everOverlapped'
      <4>1. \A r \in Slots : pending[r] # NoWrite => ~ Refuses(pending[r])
        BY <3>1, <3>3 DEF CheckSuffices
      <4>2. PICK r \in Slots : Handling(r)
        BY <2>2 DEF CustomersNext
      <4>3. \A s \in Slots \ {r} : UnderWay(r)' => pending'[s] = NoWrite
        BY <3>1, <3>3 DEF OnePending, UnderWay
      <4>4. \A s \in Slots \ {r} : UnderWay(r) => pending[s] = NoWrite
        BY <3>1, <3>3 DEF OnePending, UnderWay
      <4>5. CASE Write(r) \/ Fail(r)
        <5>1. \A s \in Slots : pending'[s] = NoWrite
          BY <4>4, <4>5 DEF Write, Fail, UnderWay, CustomersTypeOK
        <5> QED
          BY <3>1, <5>1 DEF CheckSuffices
      <4>6. ASSUME NEW w \in Writes, Serve(r, w), ~ Refuses(w)
            PROVE  CheckSuffices'
        <5>1. pending'[r] = w /\ w # NoWrite /\ UNCHANGED <<phone, active, exists>>
          BY <4>6 DEF Serve, CustomersTypeOK, Writes, NoWrite
        <5>2. \A s \in Slots \ {r} : pending'[s] = NoWrite
          BY <4>3, <5>1 DEF UnderWay
        <5>3. ~ (Refuses(pending[r]))'
          BY <4>6, <5>1 DEF Refuses, ActiveAfter, NumberAfter, Others
        <5> QED
          BY <5>2, <5>3 DEF CheckSuffices
      <4>7. ASSUME NEW c \in Ids, NEW n \in Phones \cup {None},
                   CheckCreate(r, c, n) \/ CheckUpdate(r, c, n)
            PROVE  CheckSuffices'
        <5>1. PICK w \in Writes : Serve(r, w) /\ w.id = c /\ w.number = n /\ w.op \in {"create", "update"}
          <6> DEFINE made(op) == [op |-> op, id |-> c, number |-> n, on |-> TRUE]
          <6>1. made("create") \in Writes /\ made("update") \in Writes
            BY DEF Writes
          <6>2. Serve(r, made("create")) \/ Serve(r, made("update"))
            BY <4>7 DEF CheckCreate, CheckUpdate
          <6> QED
            BY <6>1, <6>2
        <5>2. Unique(c, n)
          BY <4>7 DEF CheckCreate, CheckUpdate
        <5>3. ~ Refuses(w)
          BY <5>1, <5>2 DEF Refuses, NumberAfter, Unique
        <5> QED
          BY <4>6, <5>1, <5>3
      <4>8. ASSUME NEW c \in Ids, NEW on \in BOOLEAN, CheckSetActive(r, c, on)
            PROVE  CheckSuffices'
        <5>1. PICK w \in Writes : Serve(r, w) /\ w.id = c /\ w.on = on /\ w.op = "setActive"
          BY <4>8 DEF CheckSetActive, Writes, CustomersTypeOK
        <5>2. on => Unique(c, phone[c])
          BY <4>8 DEF CheckSetActive
        <5>3. ~ Refuses(w)
          BY <5>1, <5>2 DEF Refuses, ActiveAfter, NumberAfter, Unique
        <5> QED
          BY <4>6, <5>1, <5>3
      <4>9. CheckSuffices'
        BY <4>2, <4>5, <4>7, <4>8 DEF Handling
      <4> QED
        BY <3>1, <4>9
    <3> QED
      BY <3>2, <3>3
  <2> QED
    BY <2>1, <2>2
<1>3. Inv => CheckSuffices
  OBVIOUS
<1> HIDE DEF Inv
<1> QED
  BY <1>1, <1>2, <1>3, CustomersTyped, PTL DEF CustomersSpec
=============================================================================

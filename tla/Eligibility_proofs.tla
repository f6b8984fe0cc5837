--------------------------- MODULE Eligibility_proofs ---------------------------
(***************************************************************************)
(* Proofs about Eligibility and the qualifications it rests on, for every  *)
(* number of providers, services, categories and requests.                 *)
(***************************************************************************)
EXTENDS Eligibility, TLAPS

Tables == <<catalogVars, qualified, placeVars>>

\* A step of a request, or of somebody who changes the tables.
LEMMA NextCases ==
  ASSUME NEW P, Next,
         ASSUME NEW r \in Requests, Answering(r), Watch({r}) PROVE P,
         ASSUME NEW r \in Requests, Serving(r), UNCHANGED placeVars, Watch({r}) PROVE P,
         ASSUME Change, Watch({}) PROVE P
  PROVE  P
  BY DEF Next, Request

-----------------------------------------------------------------------------
(* Types.                                                                  *)
LEMMA IdleIsNoMemory == Idle \notin Memories \cup Questions
  BY DEF Idle, Memories, Questions

LEMMA InitTyped == Init => TypeOK
  BY DEF Init, QualificationsInit, TypeOK, Idle

\* Answers come with every question as it moves on.
LEMMA AnsweringTyped ==
  ASSUME TypeOK, NEW r \in Requests, Answering(r)
  PROVE  \E q \in Questions \cup {Idle} :
            Ask(r, q) /\ q.rows = {}
  <1>0. req[r] = Idle \/ (req[r].op = "eligible" => req[r] \in Questions)
    BY DEF TypeOK, Memories
  <1>1. ASSUME NEW s \in Services, AskEligible(r, s) PROVE \E q \in Questions : Ask(r, q) /\ q.rows = {}
    <2> DEFINE q == [op |-> "eligible", step |-> "branch", rows |-> {}, service |-> s,
                     about |-> Providers, answer |-> {}]
    <2>1. q \in Questions /\ q.rows = {} /\ Ask(r, q)
      BY <1>1 DEF AskEligible, Questions
    <2> HIDE DEF q
    <2> QED
      BY <2>1
  <1>2. ASSUME NEW s \in Services, NEW p \in Providers, AskIsEligible(r, s, p)
        PROVE  \E q \in Questions : Ask(r, q) /\ q.rows = {}
    <2> DEFINE q == [op |-> "eligible", step |-> "available", rows |-> {}, service |-> s,
                     about |-> {p}, answer |-> {}]
    <2>1. q \in Questions /\ q.rows = {} /\ Ask(r, q)
      BY <1>2 DEF AskIsEligible, Questions
    <2> HIDE DEF q
    <2> QED
      BY <2>1
  <1>3. CASE CheckBranch(r)
    <2> DEFINE q == IF branchOpen THEN [req[r] EXCEPT !.step = "available"] ELSE Idle
    <2>1. req[r] \in Questions
      BY <1>3, <1>0 DEF CheckBranch, Asking, Idle
    <2>2. q \in Questions \cup {Idle} /\ q.rows = {}
      BY <2>1 DEF Questions, Idle
    <2>3. Ask(r, q)
      BY <1>3 DEF CheckBranch
    <2> HIDE DEF q
    <2> QED
      BY <2>2, <2>3
  <1>4. CASE CheckAvailable(r)
    <2> DEFINE step == IF Available(req[r].service) THEN "find" ELSE "reply"
               q == [req[r] EXCEPT !.step = step]
    <2>1. req[r] \in Questions /\ step \in {"find", "reply"}
      BY <1>4, <1>0 DEF CheckAvailable, Asking, Idle
    <2>2. Ask(r, q)
      BY <1>4 DEF CheckAvailable
    <2> HIDE DEF step
    <2>3. q \in Questions /\ q.rows = {}
      BY <2>1 DEF Questions
    <2> HIDE DEF q
    <2> QED
      BY <2>2, <2>3
  <1>5. CASE FindProviders(r)
    <2> DEFINE found == Find(req[r].service) \cap req[r].about
               q == [req[r] EXCEPT !.step = "reply", !.answer = found]
    <2>1. req[r] \in Questions
      BY <1>5, <1>0 DEF FindProviders, Asking, Idle
    <2>2. Ask(r, q)
      BY <1>5 DEF FindProviders
    <2>3. found \in SUBSET Providers
      BY <2>1 DEF Questions
    <2> HIDE DEF found
    <2>4. q \in Questions /\ q.rows = {}
      BY <2>1, <2>3 DEF Questions
    <2> HIDE DEF q
    <2> QED
      BY <2>2, <2>4
  <1>6. CASE Reply(r)
    BY <1>6 DEF Reply, Idle
  <1> QED
    BY <1>1, <1>2, <1>3, <1>4, <1>5, <1>6 DEF Answering

\* What a change of qualifications begins with, and that it is worked out
\* against the rows that are there.
Outcome(rows, q) == ((rows \ q.scope) \cup q.put) \cap q.about

LEMMA BeginningTyped ==
  ASSUME TypeOK, NEW r \in Requests,
         \/ \E p \in Providers, s \in Services : BeginAdd(r, p, s) \/ BeginRemove(r, p, s)
         \/ \E p \in Providers, S \in SUBSET Services : BeginReplace(r, p, S)
         \/ \E s \in Services, P \in SUBSET Providers : BeginProviders(r, s, P)
  PROVE  \E q \in Memories :
            /\ Begin(r, q) /\ q.rows = {} /\ q.step = "stage"
            /\ Outcome(qualified, q) = q.asked
  <1> DEFINE Fits(q) == /\ Begin(r, q) /\ q.rows = {} /\ q.step = "stage"
                        /\ Outcome(qualified, q) = q.asked
  <1>1. ASSUME NEW p \in Providers, NEW s \in Services, BeginAdd(r, p, s)
        PROVE  \E q \in Memories : Fits(q)
    <2> DEFINE q == [op |-> "add", step |-> "stage", scope |-> {}, rows |-> {},
                     put |-> {<<p, s>>}, asked |-> {<<p, s>>}, about |-> {<<p, s>>}]
    <2>1. q \in Memories
      BY DEF Memories, Pairs
    <2>2. Outcome(qualified, q) = q.asked
      BY DEF Outcome
    <2>3. Begin(r, q) /\ q.rows = {} /\ q.step = "stage"
      BY <1>1 DEF BeginAdd
    <2> HIDE DEF q
    <2> QED
      BY <2>1, <2>2, <2>3
  <1>2. ASSUME NEW p \in Providers, NEW s \in Services, BeginRemove(r, p, s)
        PROVE  \E q \in Memories : Fits(q)
    <2> DEFINE q == [op |-> "remove", step |-> "stage", scope |-> {<<p, s>>}, rows |-> {},
                     put |-> {}, asked |-> {}, about |-> {<<p, s>>}]
    <2>1. q \in Memories
      BY DEF Memories, Pairs
    <2>2. Outcome(qualified, q) = q.asked
      BY DEF Outcome
    <2>3. Begin(r, q) /\ q.rows = {} /\ q.step = "stage"
      BY <1>2 DEF BeginRemove
    <2> HIDE DEF q
    <2> QED
      BY <2>1, <2>2, <2>3
  <1>3. ASSUME NEW p \in Providers, NEW S \in SUBSET Services, BeginReplace(r, p, S)
        PROVE  \E q \in Memories : Fits(q)
    <2> DEFINE q == [op |-> "replace", step |-> "stage", scope |-> RowsOf(p), rows |-> {},
                     put |-> {p} \X S, asked |-> {p} \X S, about |-> RowsOf(p)]
    <2>0. RowsOf(p) \subseteq Pairs /\ {p} \X S \subseteq RowsOf(p)
      BY DEF RowsOf, Pairs
    <2>1. q \in Memories
      BY <2>0 DEF Memories
    <2>2. Outcome(qualified, q) = q.asked
      BY <2>0 DEF Outcome
    <2>3. Begin(r, q) /\ q.rows = {} /\ q.step = "stage"
      BY <1>3 DEF BeginReplace
    <2> HIDE DEF q
    <2> QED
      BY <2>1, <2>2, <2>3
  <1>4. ASSUME NEW s \in Services, NEW P \in SUBSET Providers, BeginProviders(r, s, P)
        PROVE  \E q \in Memories : Fits(q)
    <2> DEFINE all == Providers \X {s}
               asked == P \X {s}
               existing == qualified \cap all
               q == [op |-> "providers", step |-> "stage", scope |-> existing \ asked,
                     rows |-> {}, put |-> asked \ existing, asked |-> asked, about |-> all]
    <2>0. all \subseteq Pairs /\ asked \subseteq all
      BY DEF Pairs
    <2>3. Begin(r, q) /\ q.rows = {} /\ q.step = "stage"
      BY <1>4 DEF BeginProviders
    <2> HIDE DEF all, asked
    <2>1. q \in Memories
      BY <2>0 DEF Memories
    <2>2. Outcome(qualified, q) = q.asked
      BY <2>0 DEF Outcome
    <2> HIDE DEF q
    <2> QED
      BY <2>1, <2>2, <2>3
  <1> QED
    BY <1>1, <1>2, <1>3, <1>4

\* A request that remembers something new of its own; nobody else's changes.
LEMMA RememberTyped ==
  ASSUME TypeOK, disturbed' \subseteq Requests, NEW r \in Requests,
         NEW q \in Memories \cup Questions \cup {Idle}, q.rows \subseteq qualified,
         req' = [req EXCEPT ![r] = q], UNCHANGED <<catalogVars, qualified, placeVars>>
  PROVE  TypeOK'
  BY DEF TypeOK, catalogVars, placeVars

\* When a request ends, the rows it deleted are out of reach of the others.
LEMMA FinishTyped ==
  ASSUME TypeOK, disturbed' \subseteq Requests, NEW r \in Requests, NEW gone, Finish(r, gone),
         UNCHANGED <<catalogVars, placeVars>>,
         qualified' \subseteq Pairs, qualified \ gone \subseteq qualified'
  PROVE  TypeOK'
  <1>1. ASSUME NEW o \in Requests
        PROVE  req'[o] \in Memories \cup Questions \cup {Idle} /\ req'[o].rows \subseteq qualified'
    <2>1. CASE o = r
      BY <2>1 DEF Finish, Idle
    <2>2. CASE o # r
      <3> DEFINE q == req[o]
      <3>1. req'[o] = [q EXCEPT !.rows = @ \ gone]
        BY <2>2 DEF Finish
      <3>2. q \in Memories \cup Questions \cup {Idle} /\ q.rows \subseteq qualified
        BY DEF TypeOK
      <3> HIDE DEF q
      <3>3. CASE q \in Memories
        BY <3>1, <3>2, <3>3 DEF Memories
      <3>4. CASE q \in Questions
        BY <3>1, <3>2, <3>4 DEF Questions
      <3>5. CASE q = Idle
        BY <3>1, <3>2, <3>5 DEF Idle
      <3> QED
        BY <3>2, <3>3, <3>4, <3>5
    <2> QED
      BY <2>1, <2>2
  <1>2. req' = [o \in Requests |-> req'[o]]
    BY DEF Finish
  <1> QED
    BY <1>1, <1>2 DEF TypeOK, catalogVars, placeVars

LEMMA WatchTyped ==
  ASSUME NEW own, Watch(own)
  PROVE  disturbed' \subseteq Requests
  BY DEF Watch

LEMMA ServingTyped ==
  ASSUME TypeOK, disturbed' \subseteq Requests, NEW r \in Requests, Serving(r), UNCHANGED placeVars
  PROVE  TypeOK'
  <1>1. CASE Stage(r)
    <2> DEFINE rows == req[r].scope \cap qualified
               q == [req[r] EXCEPT !.step = "commit", !.rows = rows]
    <2>1. req[r] \in Memories
      BY <1>1 DEF TypeOK, Stage, Questions, Idle
    <2>2. req' = [req EXCEPT ![r] = q] /\ UNCHANGED <<catalogVars, qualified>>
      BY <1>1 DEF Stage, TypeOK
    <2>3. q \in Memories /\ q.rows = rows
      BY <2>1 DEF Memories
    <2> HIDE DEF q
    <2> QED
      BY <2>2, <2>3, RememberTyped
  <1>2. CASE Commit(r)
    <2>1. req[r] \in Memories
      BY <1>2 DEF TypeOK, Commit, Questions, Idle
    <2>2. /\ qualified' = (qualified \ req[r].rows) \cup req[r].put
          /\ Finish(r, req[r].rows) /\ UNCHANGED catalogVars
      BY <1>2 DEF Commit
    <2>3. qualified' \subseteq Pairs
      BY <2>1, <2>2 DEF Memories, TypeOK
    <2> QED
      BY <2>2, <2>3, FinishTyped
  <1>3. CASE Abort(r)
    BY <1>3, FinishTyped DEF Abort, TypeOK
  <1>4. CASE ~ Stage(r) /\ ~ Commit(r) /\ ~ Abort(r)
    <2>1. PICK q \in Memories : Begin(r, q) /\ q.rows = {}
      BY <1>4, BeginningTyped DEF Serving
    <2> QED
      BY <2>1, RememberTyped DEF Begin
  <1> QED
    BY <1>1, <1>2, <1>3, <1>4

LEMMA ChangeTyped ==
  ASSUME TypeOK, disturbed' \subseteq Requests, Change
  PROVE  TypeOK' /\ req' = req
  <1>1. CASE PlaceStep
    <2>1. ASSUME UNCHANGED qualificationVars,
                 branchOpen' \in BOOLEAN, setting' \in [Services -> {"inherit", "on", "off"}],
                 assigned' \subseteq Providers, profileOpen' \subseteq Providers,
                 ready' \subseteq Providers
          PROVE  TypeOK' /\ req' = req
      BY <2>1 DEF TypeOK, qualificationVars
    <2> QED
      BY <1>1, <2>1 DEF PlaceStep, SetBranchActive, ConfigureBranch, ResetBranch, AssignBranch,
                    RemoveBranch, SetProviderActive, SetReady, TypeOK
  <1>2. CASE CatalogStep /\ UNCHANGED placeVars
    BY <1>2 DEF CatalogStep, SetCategoryActive, SetServiceActive, UpdateService, placeVars, TypeOK
  <1> QED
    BY <1>1, <1>2 DEF Change

LEMMA NextTyped == TypeOK /\ [Next]_vars => TypeOK'
  <1> SUFFICES ASSUME TypeOK, [Next]_vars PROVE TypeOK'
    OBVIOUS
  <1>1. CASE UNCHANGED vars
    BY <1>1 DEF vars, qualificationVars, placeVars, TypeOK
  <1>2. ASSUME NEW r \in Requests, Answering(r), Watch({r}) PROVE TypeOK'
    <2>1. PICK q \in Questions \cup {Idle} : Ask(r, q) /\ q.rows = {}
      BY <1>2, AnsweringTyped
    <2> QED
      BY <1>2, <2>1, WatchTyped, RememberTyped DEF Ask
  <1>3. ASSUME NEW r \in Requests, Serving(r), UNCHANGED placeVars, Watch({r}) PROVE TypeOK'
    BY <1>3, WatchTyped, ServingTyped
  <1>4. ASSUME Change, Watch({}) PROVE TypeOK'
    BY <1>4, WatchTyped, ChangeTyped
  <1> QED
    BY <1>1, <1>2, <1>3, <1>4, NextCases

\* Tables and requests stay well-formed; in particular a transaction never
\* holds a row that is gone (service-providers.service.ts:687-844).
THEOREM TypeCorrect == Spec => []TypeOK
  BY InitTyped, NextTyped, PTL DEF Spec

-----------------------------------------------------------------------------
(* What is undisturbed.                                                    *)

\* A request that is still undisturbed after a step of somebody else was so
\* before, remembers what it did, and reads the tables that it read.
LEMMA OthersUndisturbed ==
  ASSUME TypeOK, Next, NEW o \in Requests \ disturbed', req'[o] # Idle
  PROVE  /\ o \notin disturbed
         /\ \/ Tables' = Tables /\ req'[o] = req[o]
            \/ Answering(o)
            \/ Serving(o) /\ ~ Commit(o) /\ ~ Abort(o)
  <1> DEFINE Goal == /\ o \notin disturbed
                     /\ \/ Tables' = Tables /\ req'[o] = req[o]
                        \/ Answering(o)
                        \/ Serving(o) /\ ~ Commit(o) /\ ~ Abort(o)
  <1>0. ASSUME NEW own, Watch(own)
        PROVE  /\ o \notin disturbed
               /\ o \notin own /\ req[o] # Idle => Tables' = Tables /\ \A r \in own : ~ Commit(r)
    BY <1>0 DEF Watch, Tables
  <1>1. ASSUME NEW r \in Requests, Answering(r), Watch({r}) PROVE Goal
    <2>1. PICK q \in Questions \cup {Idle} : Ask(r, q)
      BY <1>1, AnsweringTyped
    <2> QED
      BY <1>0, <1>1, <2>1 DEF Ask, Tables, TypeOK
  <1>2. ASSUME NEW r \in Requests, Serving(r), UNCHANGED placeVars, Watch({r}) PROVE Goal
    <2>1. CASE o = r
      <3>1. ~ Commit(o) /\ ~ Abort(o)
        BY <2>1 DEF Commit, Abort, Finish
      <3> QED
        BY <1>0, <1>2, <2>1, <3>1
    <2>2. CASE o # r
      <3>1. CASE Commit(r)
        <4>1. req[o] # Idle
          <5>1. req'[o] = [req[o] EXCEPT !.rows = @ \ req[r].rows]
            BY <2>2, <3>1 DEF Commit, Finish
          <5>2. [Idle EXCEPT !.rows = @ \ req[r].rows] = Idle
            BY DEF Idle
          <5> QED
            BY <5>1, <5>2
        <4> QED
          BY <1>0, <1>2, <2>2, <3>1, <4>1
      <3>2. CASE Abort(r)
        <4> DEFINE q == req[o]
        <4>1. req'[o] = [q EXCEPT !.rows = @ \ {}]
          BY <2>2, <3>2 DEF Abort, Finish
        <4>2. q \in Memories \cup Questions \cup {Idle}
          BY DEF TypeOK
        <4> HIDE DEF q
        <4>3. req'[o] = q
          BY <4>1, <4>2 DEF Memories, Questions, Idle
        <4>4. Tables' = Tables
          BY <1>2, <3>2 DEF Abort, Tables
        <4> QED
          BY <1>0, <1>2, <4>3, <4>4 DEF q
      <3>3. CASE ~ Commit(r) /\ ~ Abort(r)
        <4>1. \E q : req' = [req EXCEPT ![r] = q] /\ UNCHANGED <<catalogVars, qualified>>
          <5>1. CASE Stage(r)
            <6> DEFINE q == [req[r] EXCEPT !.step = "commit", !.rows = req[r].scope \cap qualified]
            <6>1. req' = [req EXCEPT ![r] = q] /\ UNCHANGED <<catalogVars, qualified>>
              BY <5>1 DEF Stage, TypeOK
            <6> QED
              BY <6>1
          <5>2. CASE ~ Stage(r)
            BY <1>2, <3>3, <5>2, BeginningTyped DEF Serving, Begin
          <5> QED
            BY <5>1, <5>2
        <4> QED
          BY <1>0, <1>2, <2>2, <4>1 DEF Tables, TypeOK
      <3> QED
        BY <3>1, <3>2, <3>3
    <2> QED
      BY <2>1, <2>2
  <1>3. ASSUME Change, Watch({}) PROVE Goal
    BY <1>0, <1>3, ChangeTyped, WatchTyped
  <1> HIDE DEF Goal
  <1>4. Goal
    BY <1>1, <1>2, <1>3, NextCases
  <1> QED
    BY <1>4 DEF Goal

-----------------------------------------------------------------------------
(* Exact answers and exact changes.                                        *)

\* A question that has no answer yet has none at all, and one that looks for
\* providers does so while the service is available.
QuestionRight(q) ==
    q.op = "eligible" =>
        /\ q.step \in {"branch", "available", "find"} => q.answer = {}
        /\ q.step = "find" => Available(q.service)

\* What a change will write and has reached comes to what was asked for.
ChangeRight(q) ==
    q \in Memories =>
        /\ Outcome(qualified, q) = q.asked
        /\ q.step = "commit" => q.rows = q.scope \cap qualified

Right == \A r \in Requests \ disturbed : QuestionRight(req[r]) /\ ChangeRight(req[r])

Inv == TypeOK /\ Right

LEMMA InitInv == Init => Inv
  BY InitTyped, IdleIsNoMemory DEF Init, QualificationsInit, Inv, Right, QuestionRight, ChangeRight, Idle

\* The steps of a question leave the tables alone.
LEMMA AnsweringRight ==
  ASSUME TypeOK, NEW r \in Requests, Answering(r), QuestionRight(req[r])
  PROVE  (QuestionRight(req[r]) /\ ChangeRight(req[r]))'
  <1>0. req \in [Requests -> Memories \cup Questions \cup {Idle}]
    BY DEF TypeOK
  <1>1. PICK q \in Questions \cup {Idle} : Ask(r, q)
    BY AnsweringTyped
  <1>2. req'[r] = q /\ UNCHANGED <<catalogVars, qualified, placeVars>> /\ q \notin Memories
    BY <1>0, <1>1, IdleIsNoMemory DEF Ask, Questions, Memories
  <1>3. UNCHANGED <<openServices, openCategories, category, setting>>
    BY <1>2 DEF catalogVars, placeVars
  <1>4. QuestionRight(q)
    <2>0. req[r].op = "eligible" => req[r] \in Questions
      BY <1>0 DEF Memories, Idle
    <2>1. CASE \E s \in Services : AskEligible(r, s)
      BY <1>0, <1>2, <2>1 DEF AskEligible, Ask, QuestionRight
    <2>2. CASE \E s \in Services, p \in Providers : AskIsEligible(r, s, p)
      BY <1>0, <1>2, <2>2 DEF AskIsEligible, Ask, QuestionRight
    <2>3. CASE CheckBranch(r)
      BY <1>0, <1>2, <2>0, <2>3 DEF CheckBranch, Asking, Ask, QuestionRight, Questions, Idle
    <2>4. CASE CheckAvailable(r)
      BY <1>0, <1>2, <2>0, <2>4 DEF CheckAvailable, Asking, Ask, QuestionRight, Questions
    <2>5. CASE FindProviders(r)
      BY <1>0, <1>2, <2>0, <2>5 DEF FindProviders, Asking, Ask, QuestionRight, Questions
    <2>6. CASE Reply(r)
      BY <1>0, <1>2, <2>6 DEF Reply, Ask, QuestionRight, Idle
    <2> QED
      BY <2>1, <2>2, <2>3, <2>4, <2>5, <2>6 DEF Answering
  <1> QED
    BY <1>2, <1>3, <1>4 DEF QuestionRight, ChangeRight, Available

LEMMA ServingRight ==
  ASSUME TypeOK, NEW r \in Requests, Serving(r), ~ Commit(r), ~ Abort(r), ChangeRight(req[r])
  PROVE  (QuestionRight(req[r]) /\ ChangeRight(req[r]))'
  <1>1. CASE Stage(r)
    <2> DEFINE q == req[r]
               rows == q.scope \cap qualified
    <2>1. q \in Memories /\ Outcome(qualified, q) = q.asked
      BY <1>1 DEF TypeOK, Stage, Questions, Idle, ChangeRight
    <2>2. req'[r] = [q EXCEPT !.step = "commit", !.rows = rows] /\ qualified' = qualified
      BY <1>1 DEF Stage, TypeOK
    <2> HIDE DEF q
    <2>3. /\ req'[r].op = q.op /\ q.op # "eligible"
          /\ req'[r].scope = q.scope /\ req'[r].put = q.put /\ req'[r].about = q.about
          /\ req'[r].asked = q.asked /\ req'[r].rows = rows
      BY <2>1, <2>2 DEF Memories
    <2> QED
      BY <2>1, <2>2, <2>3 DEF QuestionRight, ChangeRight, Outcome
  <1>2. CASE ~ Stage(r)
    <2>1. PICK q \in Memories : /\ Begin(r, q) /\ q.rows = {} /\ q.step = "stage"
                                /\ Outcome(qualified, q) = q.asked
      BY <1>2, BeginningTyped DEF Serving
    <2>2. req'[r] = q /\ qualified' = qualified
      BY <2>1 DEF Begin, TypeOK
    <2>3. q.op # "eligible"
      BY DEF Memories
    <2> QED
      BY <2>1, <2>2, <2>3 DEF QuestionRight, ChangeRight, Outcome
  <1> QED
    BY <1>1, <1>2

LEMMA NextInv == Inv /\ [Next]_vars => Inv'
  <1> SUFFICES ASSUME Inv, [Next]_vars PROVE Inv'
    OBVIOUS
  <1>0. TypeOK /\ TypeOK'
    BY NextTyped DEF Inv
  <1>1. CASE UNCHANGED vars
    BY <1>0, <1>1 DEF vars, qualificationVars, placeVars, Inv, Right, QuestionRight, ChangeRight,
                      Available, Outcome
  <1>2. CASE Next
    <2> SUFFICES ASSUME NEW o \in Requests \ disturbed'
                 PROVE  (QuestionRight(req[o]) /\ ChangeRight(req[o]))'
      BY <1>0 DEF Inv, Right
    <2>1. CASE req'[o] = Idle
      BY <2>1, IdleIsNoMemory DEF QuestionRight, ChangeRight, Idle
    <2>2. CASE req'[o] # Idle
      <3>1. /\ QuestionRight(req[o]) /\ ChangeRight(req[o])
            /\ \/ Tables' = Tables /\ req'[o] = req[o]
               \/ Answering(o)
               \/ Serving(o) /\ ~ Commit(o) /\ ~ Abort(o)
        BY <1>0, <1>2, <2>2, OthersUndisturbed DEF Inv, Right
      <3>2. CASE Tables' = Tables /\ req'[o] = req[o]
        BY <3>1, <3>2 DEF Tables, catalogVars, placeVars, QuestionRight, ChangeRight, Available, Outcome
      <3> QED
        BY <1>0, <3>1, <3>2, AnsweringRight, ServingRight
    <2> QED
      BY <2>1, <2>2
  <1> QED
    BY <1>1, <1>2

\* Nobody but the request itself brings its question to an answer.
LEMMA AnsweredBy ==
  ASSUME TypeOK, Next, NEW o \in Requests, Answered(o)
  PROVE  CheckAvailable(o) \/ FindProviders(o)
  <1> DEFINE q == req[o]
             Goal == CheckAvailable(o) \/ FindProviders(o)
  <1>0. /\ q \in Questions /\ q.op = "eligible" /\ q.step # "reply" /\ q # Idle
        /\ req'[o] # Idle /\ req'[o].step = "reply"
    BY DEF TypeOK, Answered, Memories, Idle
  <1>1. ASSUME NEW r \in Requests, Answering(r), Watch({r}) PROVE Goal
    <2>1. PICK new \in Questions \cup {Idle} : Ask(r, new)
      BY <1>1, AnsweringTyped
    <2>2. o = r
      BY <1>0, <2>1 DEF Ask, TypeOK
    <2>3. ~ CheckBranch(o)
      BY <1>0 DEF CheckBranch, Asking, Ask, TypeOK, Questions
    <2> QED
      BY <1>0, <1>1, <2>2, <2>3 DEF Answering, AskEligible, AskIsEligible, Reply, Asking
  <1>2. ASSUME NEW r \in Requests, Serving(r), UNCHANGED placeVars, Watch({r}) PROVE FALSE
    <2>1. CASE o = r
      BY <1>0, <1>2, <2>1 DEF Serving, BeginAdd, BeginRemove, BeginReplace, BeginProviders, Begin,
                              Stage, Commit, Abort, Finish, Questions
    <2>2. CASE o # r
      <3>1. CASE Commit(r) \/ Abort(r)
        <4>1. \E gone : req'[o] = [q EXCEPT !.rows = @ \ gone]
          BY <2>2, <3>1 DEF Commit, Abort, Finish
        <4> HIDE DEF q
        <4> QED
          BY <1>0, <4>1 DEF Questions
      <3>2. CASE ~ Commit(r) /\ ~ Abort(r)
        <4>1. req'[o] = req[o]
          <5>1. CASE Stage(r)
            BY <2>2, <5>1 DEF Stage, TypeOK
          <5>2. CASE ~ Stage(r)
            BY <1>2, <2>2, <3>2, <5>2, BeginningTyped DEF Serving, Begin, TypeOK
          <5> QED
            BY <5>1, <5>2
        <4> QED
          BY <1>0, <4>1
      <3> QED
        BY <3>1, <3>2
    <2> QED
      BY <2>1, <2>2
  <1>3. ASSUME Change, Watch({}) PROVE FALSE
    BY <1>0, <1>3, ChangeTyped, WatchTyped
  <1> HIDE DEF Goal
  <1>4. Goal
    BY <1>1, <1>2, <1>3, NextCases
  <1> QED
    BY <1>4 DEF Goal

\* What the two queries name is what the conditions name, when nothing came
\* between them.
LEMMA FoundExact ==
  ASSUME TypeOK, NEW s \in Services, Available(s)
  PROVE  Find(s) = EligibleNow(s)
  BY DEF TypeOK, Available, Find, EligibleNow, Conditions, Offered

LEMMA UnavailableExact ==
  ASSUME NEW s \in Services, ~ Available(s)
  PROVE  EligibleNow(s) = {}
  BY DEF Available, EligibleNow, Conditions

\* A question that no change of others comes into is answered with exactly the
\* providers who meet the conditions, whichever query decides
\* (service-providers.service.ts:846-913).
THEOREM AnswerExactHolds == Spec => AnswerExact
  <1> DEFINE Exact == \A r \in Requests \ disturbed :
                        Answered(r) => req'[r].answer = EligibleNow(req[r].service) \cap req[r].about
  <1>1. ASSUME Inv, [Next]_vars PROVE [Exact]_vars
    <2> SUFFICES ASSUME Next, NEW r \in Requests \ disturbed, Answered(r)
                 PROVE  req'[r].answer = EligibleNow(req[r].service) \cap req[r].about
      BY <1>1
    <2> DEFINE q == req[r]
    <2>1. TypeOK /\ QuestionRight(q) /\ q \in Questions
      BY <1>1 DEF Inv, Right, Answered, TypeOK, Memories, Idle
    <2>2. q.service \in Services /\ req \in [Requests -> Memories \cup Questions \cup {Idle}]
      BY <2>1 DEF Questions, TypeOK
    <2>3. CASE CheckAvailable(r)
      <3>1. ~ Available(q.service) /\ req'[r].answer = q.answer /\ q.answer = {}
        BY <2>1, <2>2, <2>3 DEF CheckAvailable, Asking, Ask, Answered, QuestionRight, Questions
      <3> QED
        BY <2>2, <3>1, UnavailableExact
    <2>4. CASE FindProviders(r)
      <3>1. Available(q.service) /\ req'[r].answer = Find(q.service) \cap q.about
        BY <2>1, <2>2, <2>4 DEF FindProviders, Asking, Ask, QuestionRight, Questions
      <3> QED
        BY <2>1, <2>2, <3>1, FoundExact
    <2> QED
      BY <2>1, <2>3, <2>4, AnsweredBy
  <1> HIDE DEF Exact
  <1>2. Spec => [][Exact]_vars
    BY InitInv, NextInv, <1>1, PTL DEF Spec
  <1> QED
    BY <1>2 DEF Exact, AnswerExact

\* A change of qualifications that no other comes into leaves exactly the rows
\* that were asked for, from either side: none is kept that was to go, and
\* none is missing (service-providers.service.ts:751-760, 795-843).
THEOREM AsAskedHolds == Spec => AsAsked
  <1> DEFINE Asked == \A r \in Requests \ disturbed :
                        Commit(r) => qualified' \cap req[r].about = req[r].asked
  <1>1. ASSUME Inv, [Next]_vars PROVE [Asked]_vars
    <2> SUFFICES ASSUME NEW r \in Requests \ disturbed, Commit(r)
                 PROVE  qualified' \cap req[r].about = req[r].asked
      OBVIOUS
    <2>1. ChangeRight(req[r]) /\ req[r] \in Memories /\ req[r].step = "commit"
      BY <1>1 DEF Inv, Right, TypeOK, Commit, Questions, Idle
    <2>2. /\ Outcome(qualified, req[r]) = req[r].asked
          /\ req[r].rows = req[r].scope \cap qualified
      BY <2>1 DEF ChangeRight
    <2>3. qualified' = (qualified \ req[r].rows) \cup req[r].put
      BY DEF Commit
    <2> QED
      BY <2>2, <2>3 DEF Outcome
  <1> HIDE DEF Asked
  <1>2. Spec => [][Asked]_vars
    BY InitInv, NextInv, <1>1, PTL DEF Spec
  <1> QED
    BY <1>2 DEF Asked, AsAsked
=============================================================================

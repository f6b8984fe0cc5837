--------------------------- MODULE Qualifications ---------------------------
(***************************************************************************)
(* Which provider may perform which service: the ProviderService rows that *)
(* ServiceProvidersService adds, removes and replaces, from the side of a  *)
(* provider (addQualification, removeQualification, replaceQualifications) *)
(* and from the side of a service (replaceServiceProviders), with the      *)
(* activation of services and categories that they check.                  *)
(*                                                                         *)
(* A handler checks first (the Begin actions), then its transaction        *)
(* deletes rows and inserts others under Read Committed: Stage is the      *)
(* delete, which reaches the rows that are there by then, and Commit the   *)
(* insert and the commit.                                                  *)
(* A row that another transaction deletes in between is out of reach, even *)
(* when the same pair has been inserted again: it is another row.          *)
(***************************************************************************)
EXTENDS FiniteSets

CONSTANTS
    Services,    \* catalog services
    Categories,  \* service categories
    Providers,   \* provider profiles
    Requests     \* slots for requests being served at the same time

VARIABLES
    openCategories,  \* the categories whose isActive is set
    openServices,    \* the services whose isActive is set
    category,        \* the category of each service
    qualified,       \* the ProviderService rows: pairs of provider and service
    req              \* what each request being served remembers

catalogVars == <<openCategories, openServices, category>>
qualificationVars == <<openCategories, openServices, category, qualified, req>>

-----------------------------------------------------------------------------
Pairs == Providers \X Services

\* scope: the rows the transaction is to delete; rows: those it has reached;
\* put: the rows it is to insert; asked: what the caller asked the scope to be.
Memories ==
    [op : {"add", "remove", "replace", "providers"}, step : {"stage", "commit"},
     scope : SUBSET Pairs, rows : SUBSET Pairs, put : SUBSET Pairs,
     asked : SUBSET Pairs, about : SUBSET Pairs]

Idle == [op |-> "none", rows |-> {}]

QualificationsInit ==
    /\ openCategories \in SUBSET Categories
    /\ openServices \in SUBSET Services
    /\ category \in [Services -> Categories]
    /\ qualified = {}
    /\ req = [r \in Requests |-> Idle]

-----------------------------------------------------------------------------
\* requireActiveServices.
Offered(s) == s \in openServices /\ category[s] \in openCategories

RowsOf(p) == {p} \X Services
Begin(r, q) ==
    /\ req[r] = Idle
    /\ req' = [req EXCEPT ![r] = q]
    /\ UNCHANGED <<catalogVars, qualified>>

BeginAdd(r, p, s) ==
    /\ Offered(s)
    /\ Begin(r, [op |-> "add", step |-> "stage", scope |-> {}, rows |-> {},
                 put |-> {<<p, s>>}, asked |-> {<<p, s>>}, about |-> {<<p, s>>}])

BeginRemove(r, p, s) ==
    Begin(r, [op |-> "remove", step |-> "stage", scope |-> {<<p, s>>}, rows |-> {},
              put |-> {}, asked |-> {}, about |-> {<<p, s>>}])

BeginReplace(r, p, S) ==
    /\ \A s \in S : Offered(s)
    /\ Begin(r, [op |-> "replace", step |-> "stage", scope |-> RowsOf(p), rows |-> {},
                 put |-> {p} \X S, asked |-> {p} \X S, about |-> RowsOf(p)])

\* Wrong on purpose: the providers to remove are not worked out.
BeginProvidersAddOnly(r, s, P) ==
    /\ Offered(s)
    /\ Begin(r, [op |-> "providers", step |-> "stage", scope |-> {}, rows |-> {},
                 put |-> P \X {s}, asked |-> P \X {s}, about |-> Providers \X {s}])

\* What is to be added and removed is worked out against the rows read here.
BeginProviders(r, s, P) ==
    LET existing == qualified \cap (Providers \X {s})
        added == (P \X {s}) \ existing
    IN  /\ added # {} => Offered(s)
        /\ Begin(r, [op |-> "providers", step |-> "stage", scope |-> existing \ (P \X {s}),
                     rows |-> {}, put |-> added, asked |-> P \X {s},
                     about |-> Providers \X {s}])

-----------------------------------------------------------------------------
Stage(r) ==
    /\ req[r] # Idle /\ req[r].step = "stage"
    /\ req' = [req EXCEPT ![r].step = "commit", ![r].rows = req[r].scope \cap qualified]
    /\ UNCHANGED <<catalogVars, qualified>>

\* Only replaceQualifications inserts without skipping duplicates or an upsert.
Conflicts(q) == q.op = "replace" /\ q.put \cap (qualified \ q.rows) # {}

\* Wrong on purpose: rows that are gone are still counted as deleted.
FinishAlone(r, gone) ==
    req' = [o \in Requests |-> IF o = r THEN Idle ELSE req[o]]

\* Rows that are gone are out of everybody's reach.
Finish(r, gone) ==
    req' = [o \in Requests |->
              IF o = r THEN Idle ELSE [req[o] EXCEPT !.rows = @ \ gone]]

Commit(r) ==
    LET q == req[r] IN
    /\ q # Idle /\ q.step = "commit"
    /\ ~ Conflicts(q)
    /\ qualified' = (qualified \ q.rows) \cup q.put
    /\ Finish(r, q.rows)
    /\ UNCHANGED catalogVars

\* A unique violation, or a fault, rolls the transaction back.
Abort(r) ==
    /\ req[r] # Idle
    /\ Finish(r, {})
    /\ UNCHANGED <<catalogVars, qualified>>

-----------------------------------------------------------------------------
(* setCategoryActive, setServiceActive, and updateService with a category, *)
(* which need not be active.                                               *)
SetCategoryActive(c) ==
    /\ openCategories' = IF c \in openCategories THEN openCategories \ {c}
                                                 ELSE openCategories \cup {c}
    /\ UNCHANGED <<openServices, category, qualified, req>>

SetServiceActive(s) ==
    /\ openServices' = IF s \in openServices THEN openServices \ {s}
                                             ELSE openServices \cup {s}
    /\ UNCHANGED <<openCategories, category, qualified, req>>

UpdateService(s, c) ==
    /\ category[s] # c
    /\ category' = [category EXCEPT ![s] = c]
    /\ UNCHANGED <<openCategories, openServices, qualified, req>>

Serving(r) ==
    \/ \E p \in Providers, s \in Services : BeginAdd(r, p, s) \/ BeginRemove(r, p, s)
    \/ \E p \in Providers, S \in SUBSET Services : BeginReplace(r, p, S)
    \/ \E s \in Services, P \in SUBSET Providers : BeginProviders(r, s, P)
    \/ Stage(r)
    \/ Commit(r)
    \/ Abort(r)

CatalogStep ==
    \/ \E c \in Categories : SetCategoryActive(c)
    \/ \E s \in Services : SetServiceActive(s)
    \/ \E s \in Services, c \in Categories : UpdateService(s, c)

\* Nothing but replacements of providers' qualifications.
Replacing(r) ==
    \/ \E p \in Providers, S \in SUBSET Services : BeginReplace(r, p, S)
    \/ Stage(r)
    \/ Commit(r)
    \/ Abort(r)

=============================================================================

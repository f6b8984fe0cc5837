---------------------------- MODULE Eligibility ----------------------------
(***************************************************************************)
(* Who may perform a service at a branch: eligible and isEligible of       *)
(* ServiceProvidersService, which ask ServiceCatalogService first          *)
(* (isEffectivelyAvailable) and look for the providers after, in queries   *)
(* of their own; and everything the answer depends on: the catalog and the *)
(* qualifications (Qualifications), the branch with its catalog settings   *)
(* and its staff, and whether provider profiles and their owners are       *)
(* active.                                                                 *)
(***************************************************************************)
EXTENDS Qualifications

VARIABLES
    branchOpen,   \* the isActive of the one branch that is asked about
    setting,      \* its BranchService row for each service
    assigned,     \* the providers with a MembershipBranch row for it
    profileOpen,  \* the providers whose profile is active
    ready,        \* the providers whose membership, user and tenant are active
    disturbed     \* history: the requests during which another changed anything

placeVars == <<branchOpen, setting, assigned, profileOpen, ready>>
vars == <<qualificationVars, placeVars, disturbed>>

-----------------------------------------------------------------------------
\* What a question remembers: the providers it is about, and its answer.
Questions ==
    [op : {"eligible"}, step : {"branch", "available", "find", "reply"}, rows : {{}},
     service : Services, about : SUBSET Providers, answer : SUBSET Providers]

Init ==
    /\ QualificationsInit
    /\ branchOpen \in BOOLEAN
    /\ setting = [s \in Services |-> "inherit"]
    /\ assigned = {}
    /\ profileOpen \in SUBSET Providers
    /\ ready \in SUBSET Providers
    /\ disturbed = {}

\* The structural conditions of docs/service-provider-domain.md:143-151: those
\* on the provider, the branch and the service, and that on the branch catalog.
Conditions(s) ==
    {p \in Providers : /\ branchOpen /\ p \in assigned
                       /\ p \in ready /\ p \in profileOpen
                       /\ <<p, s>> \in qualified
                       /\ s \in openServices /\ category[s] \in openCategories}
EligibleNow(s) == IF setting[s] = "off" THEN {} ELSE Conditions(s)

-----------------------------------------------------------------------------
\* Wrong on purpose: a setting is needed for the service to be available.
AvailableIfSet(s) ==
    s \in openServices /\ category[s] \in openCategories /\ setting[s] = "on"

\* isEffectivelyAvailable.
Available(s) ==
    s \in openServices /\ category[s] \in openCategories /\ setting[s] # "off"

\* The query of eligible and isEligible.
Find(s) ==
    {p \in assigned \cap ready \cap profileOpen :
        branchOpen /\ <<p, s>> \in qualified /\ Offered(s)}

Ask(r, q) == req' = [req EXCEPT ![r] = q] /\ UNCHANGED <<catalogVars, qualified, placeVars>>

Asking(r, step) == req[r].op = "eligible" /\ req[r].step = step

\* GET .../eligible-providers, and isEligible as VisitsService calls it, which
\* has checked the branch itself.
AskEligible(r, s) ==
    /\ req[r] = Idle
    /\ Ask(r, [op |-> "eligible", step |-> "branch", rows |-> {}, service |-> s,
               about |-> Providers, answer |-> {}])

AskIsEligible(r, s, p) ==
    /\ req[r] = Idle
    /\ Ask(r, [op |-> "eligible", step |-> "available", rows |-> {}, service |-> s,
               about |-> {p}, answer |-> {}])

\* requireBranchAccess: 404, or on to the catalog.
CheckBranch(r) ==
    /\ Asking(r, "branch")
    /\ Ask(r, IF branchOpen THEN [req[r] EXCEPT !.step = "available"] ELSE Idle)

CheckAvailable(r) ==
    /\ Asking(r, "available")
    /\ Ask(r, [req[r] EXCEPT !.step = IF Available(req[r].service) THEN "find" ELSE "reply"])

FindProviders(r) ==
    /\ Asking(r, "find")
    /\ Ask(r, [req[r] EXCEPT !.step = "reply",
                             !.answer = Find(req[r].service) \cap req[r].about])

Reply(r) ==
    /\ Asking(r, "reply")
    /\ Ask(r, Idle)

-----------------------------------------------------------------------------
\* BranchesService.setActive.
SetBranchActive ==
    /\ branchOpen' = ~ branchOpen
    /\ UNCHANGED <<qualificationVars, setting, assigned, profileOpen, ready>>

\* configureBranch.
ConfigureBranch(s, isAvailable) ==
    /\ setting' = [setting EXCEPT ![s] = IF isAvailable THEN "on" ELSE "off"]
    /\ UNCHANGED <<qualificationVars, branchOpen, assigned, profileOpen, ready>>

\* resetBranch.
ResetBranch(s) ==
    /\ setting' = [setting EXCEPT ![s] = "inherit"]
    /\ UNCHANGED <<qualificationVars, branchOpen, assigned, profileOpen, ready>>

AssignBranch(p) ==
    /\ assigned' = assigned \cup {p}
    /\ UNCHANGED <<qualificationVars, branchOpen, setting, profileOpen, ready>>

RemoveBranch(p) ==
    /\ p \in assigned
    /\ assigned' = assigned \ {p}
    /\ UNCHANGED <<qualificationVars, branchOpen, setting, profileOpen, ready>>

\* ServiceProvidersService.setActive.
SetProviderActive(p, isActive) ==
    /\ profileOpen' = IF isActive THEN profileOpen \cup {p} ELSE profileOpen \ {p}
    /\ UNCHANGED <<qualificationVars, branchOpen, setting, assigned, ready>>

\* The status of a membership (Staff), a user or the tenant changes: for this
\* provider, or for all of them.
SetReady(P, isReady) ==
    /\ ready' = IF isReady THEN ready \cup P ELSE ready \ P
    /\ UNCHANGED <<qualificationVars, branchOpen, setting, assigned, profileOpen>>

Answering(r) ==
    \/ \E s \in Services : AskEligible(r, s)
    \/ \E s \in Services, p \in Providers : AskIsEligible(r, s, p)
    \/ CheckBranch(r)
    \/ CheckAvailable(r)
    \/ FindProviders(r)
    \/ Reply(r)

PlaceStep ==
    \/ SetBranchActive
    \/ \E s \in Services, b \in BOOLEAN : ConfigureBranch(s, b)
    \/ \E s \in Services : ResetBranch(s)
    \/ \E p \in Providers : AssignBranch(p) \/ RemoveBranch(p)
    \/ \E p \in Providers, b \in BOOLEAN : SetProviderActive(p, b)
    \/ \E p \in Providers, b \in BOOLEAN : SetReady({p}, b) \/ SetReady(Providers, b)

Request(r) == Answering(r) \/ (Serving(r) /\ UNCHANGED placeVars)

Change == PlaceStep \/ (CatalogStep /\ UNCHANGED placeVars)

\* The history only watches; no step depends on it.  A replacement that puts
\* back what it deletes is a change too: the rows are other rows.
Watch(own) ==
    LET tables   == <<catalogVars, qualified, placeVars>>
        Changed  == tables' # tables \/ \E r \in own : Commit(r)
        Ended(r) == req'[r] = Idle
    IN  disturbed' = {r \in Requests : ~ Ended(r) /\
                         (r \in disturbed \/ (r \notin own /\ req[r] # Idle /\ Changed))}

Next ==
    \/ \E r \in Requests : Request(r) /\ Watch({r})
    \/ Change /\ Watch({})

Spec == Init /\ [][Next]_vars

-----------------------------------------------------------------------------
\* Every part of the state has its type, and requests remember what they may.
TypeOK ==
    /\ openCategories \subseteq Categories /\ openServices \subseteq Services
    /\ category \in [Services -> Categories]
    /\ qualified \subseteq Pairs
    /\ req \in [Requests -> Memories \cup Questions \cup {Idle}]
    /\ \A r \in Requests : req[r].rows \subseteq qualified
    /\ branchOpen \in BOOLEAN
    /\ setting \in [Services -> {"inherit", "on", "off"}]
    /\ assigned \subseteq Providers /\ profileOpen \subseteq Providers
    /\ ready \subseteq Providers
    /\ disturbed \subseteq Requests

Answered(r) == req[r].op = "eligible" /\ req[r].step # "reply" /\ req'[r] # Idle
                  /\ req'[r].step = "reply"

(* What a request may rely on when nothing that another does changes the   *)
(* tables while it is served.                                              *)

\* An answer names exactly the providers who meet all the structural
\* conditions, of those it is about: none is missed, whichever of the two
\* queries decides (service-providers.service.ts:846-913).
AnswerExact ==
    [][\A r \in Requests \ disturbed :
          Answered(r) => req'[r].answer = EligibleNow(req[r].service) \cap req[r].about]_vars

\* When a change of qualifications is answered with success, from either side,
\* the rows it is about are the ones that were asked for, no more and no fewer
\* (service-providers.service.ts:751-760, 795-828 and 843).
AsAsked ==
    [][\A r \in Requests \ disturbed :
          Commit(r) => qualified' \cap req[r].about = req[r].asked]_vars
=============================================================================

------------------------------- MODULE Reports -------------------------------
(***************************************************************************)
(* The reports of one salon: ReportsService (reports.service.ts), with the *)
(* time stamps that VisitsService (visits.service.ts) leaves for it and    *)
(* the time zones that it reads.                                           *)
(*                                                                         *)
(* A report reads the zones and the clock, and then counts, one statement  *)
(* after the other.  A request that writes takes its time stamp when it    *)
(* has checked what it read, and commits later.  Instead of counts and     *)
(* sums a report has the rows that they are made of.  A visit has one item *)
(* and is created started: the reports count a draft as created and active *)
(* as they do a visit in progress, and do not tell a pending item from one *)
(* being worked on.                                                        *)
(***************************************************************************)
EXTENDS DayWindows, FiniteSets

CONSTANTS
    Branches,
    Visits,    \* the Visit rows there may be
    NameOf,    \* serviceNameSnapshot of the item of each visit
    Providers, \* the provider profiles
    Limit,     \* how many lines the lists of the dashboard have at most, 5 in the code
    Zones,     \* the time zones
    Dates,     \* the dates that reports are asked about
    Requests,  \* slots for requests being served at the same time
    Horizon,   \* the last instant of the clock
    None       \* SQL NULL, and no row

ZoneRows == [before : Int, after : Int, at : Int]

ASSUME TimeAssumption == Horizon \in Nat /\ Dates \subseteq Int /\ Zones \subseteq ZoneRows
ASSUME NoneAssumption == None \notin Int \cup Providers
ASSUME LimitAssumption == Limit \in Nat
ASSUME NamesAssumption == "top" \notin Branches /\ "providers" \notin Branches

VARIABLES
    now,        \* the clock, the same in the server and the database
    visit,      \* the row of each visit, with that of its item
    zone,       \* the timezone of each branch, or else that of the salon
    open,       \* the branches whose isActive is set
    req,        \* what each request being served remembers
    changed     \* history: the requests during which a visit was written

vars == <<now, visit, zone, open, req, changed>>

-----------------------------------------------------------------------------
Stamps == 0 .. Horizon

\* The visit, its item, and when each of the things that are reported happened.
NoVisit == [branch |-> None, status |-> "none", item |-> "none", created |-> None,
            treated |-> None, cancelled |-> None, completed |-> None, paid |-> None,
            provider |-> None]

VisitRows ==
    [branch : Branches, status : {"IN_PROGRESS", "COMPLETED", "CANCELLED"},
     item : {"open", "COMPLETED", "CANCELLED"}, created : Stamps,
     treated : Stamps \cup {None}, cancelled : Stamps \cup {None},
     completed : Stamps \cup {None}, paid : Stamps \cup {None},
     provider : Providers \cup {None}] \cup {NoVisit}

\* What is completed or cancelled says when.
Dated(row) ==
    /\ row.status = "COMPLETED" => row.completed # None
    /\ row.item = "COMPLETED" => row.treated # None
    /\ row.item = "CANCELLED" => row.cancelled # None

\* The visits there are when it begins.
CONSTANT Earlier
ASSUME EarlierAssumption ==
    Earlier \in [Visits -> VisitRows] /\ \A v \in Visits : Dated(Earlier[v])

Writes  == {"create", "treat", "dropItem", "removeItem", "assign", "complete", "cancel", "pay"}
Reports == {"dashboard", "salon"}

\* updateItem takes no time, and removeItem not before it writes.
Stamped == Writes \ {"removeItem", "assign"}

\* at: the time stamp of a write.  windows: the days that a report is about, at
\* each branch it is about.  left: the queries it has yet to make.  lists: what
\* each of its queries has returned.
Idle == [op |-> "none", visit |-> None, branch |-> None, provider |-> None, at |-> None,
         windows |-> <<>>, summary |-> None, left |-> {}, lists |-> <<>>]

Init ==
    /\ now = 0
    /\ visit = Earlier
    /\ zone \in [Branches -> Zones]
    /\ open = Branches
    /\ req = [r \in Requests |-> Idle]
    /\ changed = {}

-----------------------------------------------------------------------------
(* What a report counts: what a visit was, when, by which branch.          *)
InProgress(v) == visit[v].status = "IN_PROGRESS"

\* branchPredicate over one of the time stamps of a visit or its item.
Within(windows, v, t) ==
    /\ visit[v].branch \in DOMAIN windows
    /\ t # None /\ InWindow(windows[visit[v].branch], t)

CreatedIn(windows)   == {v \in Visits : Within(windows, v, visit[v].created)}
CompletedIn(windows) ==
    {v \in Visits : visit[v].status = "COMPLETED" /\ Within(windows, v, visit[v].completed)}
TreatedIn(windows)   ==
    {v \in Visits : visit[v].item = "COMPLETED" /\ Within(windows, v, visit[v].treated)}
DroppedIn(windows)   ==
    {v \in Visits : visit[v].item = "CANCELLED" /\ Within(windows, v, visit[v].cancelled)}
PaidIn(windows)      == {v \in Visits : Within(windows, v, visit[v].paid)}

\* A row of an answer: what is counted, the visit, and when it happened.
CreationRows(windows)  == {<<"visit", v, visit[v].created>> : v \in CreatedIn(windows)}
CompletionRows(windows) == {<<"completion", v, visit[v].completed>> : v \in CompletedIn(windows)}
TreatmentRows(windows) == {<<"treatment", v, visit[v].treated>> : v \in TreatedIn(windows)}
DroppedRows(windows)   == {<<"dropped", v, visit[v].cancelled>> : v \in DroppedIn(windows)}
PaymentRows(windows)   == {<<"payment", v, visit[v].paid>> : v \in PaidIn(windows)}

\* The figures that only one of them has: dashboard has the visits that are active
\* and those that are not paid, of any day; salonPerformance has those completed
\* on its days, and which of them are not paid.
ActiveRows(windows) ==
    {<<"active", v, visit[v].created>> :
        v \in {o \in Visits : InProgress(o) /\ visit[o].branch \in DOMAIN windows}}
UnpaidRows(visits) ==
    {<<"unpaid", v, visit[v].completed>> :
        v \in {o \in visits : visit[o].status = "COMPLETED" /\ visit[o].paid = None}}

\* What dashboard and salonPerformance count in one statement.
SummaryRows(op, windows) ==
    CreationRows(windows) \cup TreatmentRows(windows) \cup PaymentRows(windows) \cup
        IF op = "salon"
        THEN CompletionRows(windows) \cup UnpaidRows(CompletedIn(windows))
        ELSE ActiveRows(windows)
                \cup UnpaidRows({v \in Visits : visit[v].branch \in DOMAIN windows})

\* Grouped by what each visit has in a column, how many treatments a group has.
Groups(rows, column)   == {column[row[2]] : row \in rows}
Count(rows, column, g) == Cardinality({row \in rows : row[1] = "treatment" /\ column[row[2]] = g})

\* ORDER BY "treatmentsCompleted" DESC ... LIMIT: the rows of the first groups.
\* Which of those with equally many come first, their names decide: any may.
First(rows, column) ==
    {{row \in rows : column[row[2]] \in listed} :
        listed \in {l \in SUBSET Groups(rows, column) :
            \A out \in Groups(rows, column) \ l :
                /\ Cardinality(l) = Limit
                /\ \A g \in l : Count(rows, column, g) >= Count(rows, column, out)}}

ProviderOf == [v \in Visits |-> visit[v].provider]
OfSomebody(rows) == {row \in rows : visit[row[2]].provider # None}

\* Wrong on purpose: treatments are listed when their visit is completed.
AnswersByVisit(windows, query) ==
    LET treatments == {<<"treatment", v, visit[v].treated>> : v \in CompletedIn(windows)}
    IN  CASE query = "top"       -> First(treatments, NameOf)
          [] query = "providers" -> First(OfSomebody(treatments), ProviderOf)
          [] OTHER -> {CreationRows(windows) \cup treatments \cup PaymentRows(windows)}

\* What the other queries may return: topTreatments, providerRows, and that of
\* dailyBreakdown about each branch.
Answers(windows, query) ==
    CASE query = "top"       -> First(TreatmentRows(windows), NameOf)
      [] query = "providers" ->
            First(OfSomebody(TreatmentRows(windows) \cup DroppedRows(windows)), ProviderOf)
      [] OTHER -> LET w == [b \in {query} |-> windows[b]]
                  IN  {CreationRows(w) \cup TreatmentRows(w) \cup PaymentRows(w)}

-----------------------------------------------------------------------------
Remember(r, q) == req' = [req EXCEPT ![r] = q]
Finish(r)      == Remember(r, Idle)
Places         == <<zone, open>>

(* A report.  It only reads, so one at a time stands for any number.       *)

\* windows: each branch has its own days, today unless dates are given, and a
\* branch that is closed has none.
WindowsOf(chosen, days) ==
    [b \in chosen |-> [zone |-> zone[b], first |-> days[b][1], last |-> days[b][2]]]

QueriesOf(op, chosen) ==
    CASE op = "dashboard" -> {"top", "providers"}
      [] op = "salon"     -> chosen

Ask(r, op, chosen, days) ==
    /\ req[r] = Idle /\ \A o \in Requests : req[o].op \notin Reports
    /\ chosen # {}
    /\ Remember(r, [Idle EXCEPT !.op = op, !.windows = WindowsOf(chosen, days),
                                !.left = QueriesOf(op, chosen),
                                !.lists = [x \in QueriesOf(op, chosen) |-> {}]])
    /\ UNCHANGED <<now, visit>> /\ UNCHANGED Places

\* Of one branch, or of all of them.
Scopes == {{b} : b \in open} \cup {open}

Dashboard(r) ==
    \E chosen \in Scopes :
        Ask(r, "dashboard", chosen,
            [b \in chosen |-> <<LocalDate(zone[b], now), LocalDate(zone[b], now)>>])

\* salonPerformance, whose window stands for those of the reports that have but
\* one query: providerPerformance, servicePerformance and, of one day, myWork.
Performance(r, first, last) ==
    /\ first <= last
    /\ \E chosen \in Scopes : Ask(r, "salon", chosen, [b \in chosen |-> <<first, last>>])

Summarise(r) ==
    LET q == req[r] IN
    /\ q.op \in Reports /\ q.summary = None
    /\ Remember(r, [q EXCEPT !.summary = SummaryRows(q.op, q.windows)])
    /\ UNCHANGED <<now, visit>> /\ UNCHANGED Places

Query(r, query) ==
    LET q == req[r] IN
    /\ query \in q.left
    /\ q.summary # None
    /\ \E list \in Answers(q.windows, query) :
          Remember(r, [q EXCEPT !.left = @ \ {query}, !.lists[query] = list])
    /\ UNCHANGED <<now, visit>> /\ UNCHANGED Places

Reply(r) ==
    /\ req[r].op \in Reports /\ req[r].summary # None /\ req[r].left = {}
    /\ Finish(r)
    /\ UNCHANGED <<now, visit>> /\ UNCHANGED Places

-----------------------------------------------------------------------------
(* What VisitsService writes.                                              *)
\* Wrong on purpose: the time is not taken.
CheckUnstamped(r, op, v, p) ==
    /\ req[r] = Idle
    /\ Remember(r, [Idle EXCEPT !.op = op, !.visit = v, !.provider = p])
    /\ UNCHANGED <<now, visit>> /\ UNCHANGED Places

Check(r, op, v, p) ==
    /\ req[r] = Idle
    /\ Remember(r, [Idle EXCEPT !.op = op, !.visit = v, !.provider = p,
                                !.at = IF op \in Stamped THEN now ELSE None])
    /\ UNCHANGED <<now, visit>> /\ UNCHANGED Places

Create(r, v, b, p) ==
    /\ visit[v] = NoVisit /\ b \in open
    /\ req[r] = Idle
    /\ \A o \in Requests : req[o].op = "create" => req[o].visit # v
    /\ Remember(r, [Idle EXCEPT !.op = "create", !.visit = v, !.branch = b,
                                !.provider = p, !.at = now])
    /\ UNCHANGED <<now, visit>> /\ UNCHANGED Places

\* Wrong on purpose: what is completed is completed again.
TreatAgain(r, v) ==
    InProgress(v) /\ visit[v].item # "CANCELLED" /\ Check(r, "treat", v, None)

\* transitionItem, complete and cancel.
Treat(r, v)    == InProgress(v) /\ visit[v].item = "open" /\ Check(r, "treat", v, None)
DropItem(r, v) == InProgress(v) /\ visit[v].item = "open" /\ Check(r, "dropItem", v, None)

\* removeItem, whatever has become of the item.
RemoveItem(r, v) == InProgress(v) /\ Check(r, "removeItem", v, None)

\* updateItem, whatever has become of the item: somebody else did it, or nobody.
Assign(r, v, p) == InProgress(v) /\ Check(r, "assign", v, p)

\* transitionVisit, complete and cancel.
Complete(r, v) == InProgress(v) /\ visit[v].item = "COMPLETED" /\ Check(r, "complete", v, None)
Cancel(r, v)   == InProgress(v) /\ Check(r, "cancel", v, None)

Pay(r, v) == visit[v].status = "COMPLETED" /\ visit[v].paid = None /\ Check(r, "pay", v, None)

Written(row, q) ==
    CASE q.op = "create"     -> [NoVisit EXCEPT !.branch = q.branch, !.status = "IN_PROGRESS",
                                                !.item = "open", !.created = q.at,
                                                !.provider = q.provider]
      [] q.op = "treat"      -> [row EXCEPT !.item = "COMPLETED", !.treated = q.at]
      [] q.op = "dropItem"   -> [row EXCEPT !.item = "CANCELLED", !.cancelled = q.at]
      [] q.op = "removeItem" -> [row EXCEPT !.item = "CANCELLED", !.cancelled = now]
      [] q.op = "assign"     -> [row EXCEPT !.provider = q.provider]
      [] q.op = "complete"   -> [row EXCEPT !.status = "COMPLETED", !.completed = q.at]
      [] q.op = "cancel"     -> [row EXCEPT !.status = "CANCELLED"]
      [] q.op = "pay"        -> [row EXCEPT !.paid = q.at]

\* Wrong on purpose: the update of markPaid does not ask for UNPAID.
CommitAnyway(r) ==
    LET q == req[r] IN
    /\ q.op \in Writes
    /\ visit' = [visit EXCEPT ![q.visit] = Written(@, q)]
    /\ Finish(r)
    /\ UNCHANGED now /\ UNCHANGED Places

\* Each updates by id, but markPaid asks once more whether the visit is unpaid.
Commit(r) ==
    LET q == req[r] IN
    /\ q.op \in Writes
    /\ q.op = "pay" => visit[q.visit].paid = None
    /\ visit' = [visit EXCEPT ![q.visit] = Written(@, q)]
    /\ Finish(r)
    /\ UNCHANGED now /\ UNCHANGED Places

\* VISIT_ALREADY_PAID, a rollback, or a process that stops.
Stop(r) ==
    /\ req[r] # Idle
    /\ Finish(r)
    /\ UNCHANGED <<now, visit>> /\ UNCHANGED Places

-----------------------------------------------------------------------------
(* Around it: time, BranchesService and TenantsService.                    *)
Tick ==
    /\ now < Horizon
    /\ now' = now + 1
    /\ UNCHANGED <<visit, req>> /\ UNCHANGED Places

\* A branch gets a zone of its own, or those that have none get a new one with
\* the salon.
Move(chosen, z) ==
    /\ zone' = [b \in Branches |-> IF b \in chosen THEN z ELSE zone[b]]
    /\ UNCHANGED <<now, visit, open, req>>

SwitchBranch(b) ==
    /\ open' = IF b \in open THEN open \ {b} ELSE open \cup {b}
    /\ UNCHANGED <<now, visit, zone, req>>

Reporting(r) ==
    \/ Dashboard(r)
    \/ \E first, last \in Dates : Performance(r, first, last)
    \/ Summarise(r)
    \/ \E query \in req[r].left : Query(r, query)
    \/ Reply(r)

Writing(r) ==
    \/ \E v \in Visits :
          \/ \E b \in Branches, p \in Providers \cup {None} : Create(r, v, b, p)
          \/ \E p \in Providers \cup {None} : Assign(r, v, p)
          \/ Treat(r, v) \/ DropItem(r, v) \/ RemoveItem(r, v)
          \/ Complete(r, v) \/ Cancel(r, v) \/ Pay(r, v)
    \/ Commit(r)

\* The history only watches; no step depends on it.
Watch == changed' = {r \in Requests : req'[r] # Idle /\ (r \in changed \/ visit' # visit)}

Next ==
    /\ \/ \E r \in Requests : Reporting(r) \/ Writing(r) \/ Stop(r)
       \/ Tick
       \/ \E chosen \in SUBSET Branches, z \in Zones : Move(chosen, z)
       \/ \E b \in Branches : SwitchBranch(b)
    /\ Watch

Spec == Init /\ [][Next]_vars

-----------------------------------------------------------------------------
\* The rows and the requests are well-formed, and what is completed, cancelled
\* or paid says when, without which it would be in no report.
TypeOK ==
    /\ now \in Stamps
    /\ visit \in [Visits -> VisitRows]
    /\ \A v \in Visits : Dated(visit[v])
    /\ zone \in [Branches -> Zones]
    /\ open \subseteq Branches
    /\ DOMAIN req = Requests
    /\ \A r \in Requests :
          /\ req[r].op \in Writes \cup Reports \cup {"none"}
          /\ req[r].visit \in Visits \cup {None}
          /\ req[r].at \in Stamps \cup {None}
          /\ DOMAIN req[r].windows \subseteq Branches
    /\ changed \subseteq Requests

\* The window of a report is made of the days it was asked for, and of no other
\* time, by the clocks of its branch: all that happens in it has one of those
\* dates.  Where clocks show the midnight at either end twice, or not at all,
\* there is no such promise (reports.service.ts:276-308, visits.service.ts:632-665).
DaysExact ==
    \A r \in Requests : \A b \in DOMAIN req[r].windows :
        LET w == req[r].windows[b] IN
        Once(w.zone, w.first) /\ Once(w.zone, w.last + 1) => \A t \in -Day .. Horizon + Day : Exact(w, t)

Of(rows, kinds) == {row \in rows : row[1] \in kinds}
Breakdown(q)    == UNION {q.lists[b] : b \in DOMAIN q.lists}

\* The days of the salon's performance, over all branches, have every visit and
\* every payment of its summary, whatever is written in between; and nothing
\* else, nor other treatments, unless a visit is.
DaysAddUp(q, disturbed) ==
    /\ Of(q.summary, {"visit", "payment"}) \subseteq Breakdown(q)
    /\ ~ disturbed => Breakdown(q) = Of(q.summary, {"visit", "treatment", "payment"})

\* A list has only rows that were counted, and all of them if it has fewer than
\* Limit lines; no line that is left out would count more than one that is listed.
Leads(list, rows, column) ==
    /\ list \subseteq rows
    /\ Cardinality(Groups(list, column)) < Limit => list = rows
    /\ \A row \in rows \ list, other \in list :
          Count(rows, column, column[row[2]]) <= Count(list, column, column[other[2]])

\* Unless a visit is written in between, the lists of the dashboard are made of
\* the treatments it counts, that of providers of those that are somebody's, and
\* of treatments that were dropped.
ListsAddUp(q) ==
    LET done    == Of(q.summary, {"treatment"})
        dropped == OfSomebody(DroppedRows(q.windows))
    IN  /\ Leads(q.lists["top"], done, NameOf)
        /\ Leads(q.lists["providers"], OfSomebody(done) \cup dropped, ProviderOf)

\* The lists of a report have what its summary counts: those of the salon's
\* performance the same visits and payments however many requests write, and
\* those of the dashboard its treatments (reports.service.ts:26-66, 68-99,
\* 155-259).
AddsUp ==
    \A r \in Requests :
        LET q == req[r] IN
        q.op \in Reports /\ q.left = {} =>
            IF q.op = "salon" THEN DaysAddUp(q, r \in changed)
            ELSE r \notin changed => ListsAddUp(q)

\* The figures of one branch and day.
Day1(b, d) == [x \in {b} |-> [zone |-> zone[b], first |-> d, last |-> d]]

\* A day is over when its window is closed and nobody holds a time stamp of it.
Over(b, d) ==
    LET end == DayStart(zone[b], d + 1) IN
    /\ now >= end
    /\ \A r \in Requests : req[r].op \in Stamped => req[r].at >= end

\* What was created and what was paid on a day that is over stays as it is,
\* however many requests write at once (visits.service.ts:493-505 and
\* reports.service.ts:72-80).
RevenueSettled ==
    [][visit' # visit => \A b \in Branches, d \in Dates :
          Over(b, d) =>
              /\ CreatedIn(Day1(b, d))' = CreatedIn(Day1(b, d))
              /\ PaidIn(Day1(b, d))' = PaidIn(Day1(b, d))]_vars

\* What was done on a day that is over stays as it is, unless two requests write
\* at once, but for treatments that are removed, once more even, from a visit
\* that is still in progress (visits.service.ts:327-338, 371-398, 430-464).
WorkSettled ==
    [][\A r \in Requests, b \in Branches, d \in Dates :
          Commit(r) /\ r \notin changed /\ Over(b, d) =>
              LET Done == TreatmentRows(Day1(b, d)) \cup DroppedRows(Day1(b, d)) IN
              /\ CompletedIn(Day1(b, d))' = CompletedIn(Day1(b, d))
              /\ Done' \subseteq Done
              /\ \A row \in Done \ Done' :
                    InProgress(row[2]) /\ visit'[row[2]].item = "CANCELLED"]_vars

(* What does not hold.                                                     *)

\* The window of a report is always exact.
DaysAlways ==
    \A r \in Requests : \A b \in DOMAIN req[r].windows :
        \A t \in -Day .. Horizon + Day : Exact(req[r].windows[b], t)

\* Treatments that were completed on a day that is over stay as they are.
TreatmentsSettled ==
    [][\A r \in Requests, b \in Branches, d \in Dates :
          Commit(r) /\ r \notin changed /\ Over(b, d) =>
              TreatedIn(Day1(b, d))' = TreatedIn(Day1(b, d))]_vars
=============================================================================

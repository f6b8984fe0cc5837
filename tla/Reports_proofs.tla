--------------------------- MODULE Reports_proofs ---------------------------
(* Proofs about reports and the time stamps they count, for every length of *)
(* the day, every zone whose clocks change once, and any number of visits,  *)
(* branches and requests.                                                   *)
EXTENDS Reports, TLAPS

-----------------------------------------------------------------------------
(* Arithmetic of dates.                                                     *)

\* The quotient by the length of a day.
LEMMA Quotient ==
    ASSUME NEW n \in Int
    PROVE  n \div Day \in Int /\ Day * (n \div Day) <= n /\ n < Day * (n \div Day) + Day
  BY DayAssumption, SMTT(20)

\* A date is not before another exactly if the time is not before its start.
LEMMA DateOrder ==
    ASSUME NEW n \in Int, NEW k \in Int
    PROVE  (n \div Day) >= k <=> n >= k * Day
  <1> DEFINE q == n \div Day
  <1>1. q \in Int /\ Day * q <= n /\ n < Day * q + Day
    BY Quotient
  <1> HIDE DEF q
  <1>2. CASE q >= k
    <2>1. (q - k) * Day >= 0
      BY <1>1, <1>2, DayAssumption, SMTT(20)
    <2>2. (q - k) * Day = q * Day - k * Day
      BY <1>1, DayAssumption, SMTT(20)
    <2> QED
      BY <1>1, <1>2, <2>1, <2>2, DayAssumption, SMTT(20) DEF q
  <1>3. CASE q < k
    <2>1. (k - q - 1) * Day >= 0
      BY <1>1, <1>3, DayAssumption, SMTT(20)
    <2>2. (k - q - 1) * Day = k * Day - q * Day - Day
      BY <1>1, DayAssumption, SMTT(20)
    <2> QED
      BY <1>1, <1>3, <2>1, <2>2, DayAssumption, SMTT(20) DEF q
  <1> QED
    BY <1>1, <1>2, <1>3

\* Where clocks show the start of a date once, two corrections find it, and
\* from then on, and never before, clocks show that date or a later one
\* (zonedDateToUtc).
THEOREM MidnightFound ==
    ASSUME NEW z \in ZoneRows, NEW d \in Int, Once(z, d)
    PROVE  /\ DayStart(z, d) \in Int
           /\ Local(z, DayStart(z, d)) = d * Day
           /\ \A t \in Int : t >= DayStart(z, d) <=> LocalDate(z, t) >= d
  <1> DEFINE midnight == d * Day
  <1>1. midnight \in Int /\ z.before \in Int /\ z.after \in Int /\ z.at \in Int
    BY DayAssumption DEF ZoneRows
  <1>2. (midnight - z.before < z.at) <=> (midnight - z.after < z.at)
    BY DEF Once
  <1>3. \A t \in Int : Local(z, t) \in Int /\ (LocalDate(z, t) >= d <=> Local(z, t) >= midnight)
    BY <1>1, DateOrder DEF Local, LocalDate, Offset
  <1> HIDE DEF midnight
  <1>4. CASE midnight - z.before < z.at
    <2>1. DayStart(z, d) = midnight - z.before
      BY <1>1, <1>2, <1>4 DEF DayStart, Corrected, Local, Offset, midnight
    <2>2. \A t \in Int : t >= midnight - z.before <=> Local(z, t) >= midnight
      BY <1>1, <1>2, <1>4 DEF Local, Offset
    <2> QED
      BY <1>1, <1>3, <1>4, <2>1, <2>2 DEF Local, Offset, midnight
  <1>5. CASE ~ (midnight - z.before < z.at)
    <2>1. DayStart(z, d) = midnight - z.after
      BY <1>1, <1>2, <1>5 DEF DayStart, Corrected, Local, Offset, midnight
    <2>2. \A t \in Int : t >= midnight - z.after <=> Local(z, t) >= midnight
      BY <1>1, <1>2, <1>5 DEF Local, Offset
    <2> QED
      BY <1>1, <1>2, <1>3, <1>5, <2>1, <2>2 DEF Local, Offset, midnight
  <1> QED
    BY <1>4, <1>5

-----------------------------------------------------------------------------
(* From midnights to the windows of reports.                                *)

WindowRows == [zone : ZoneRows, first : Int, last : Int]

\* A window whose two midnights are shown once has its dates and no others.
LEMMA WindowExact ==
    ASSUME NEW w \in WindowRows, Once(w.zone, w.first), Once(w.zone, w.last + 1),
           NEW t \in Int
    PROVE  Exact(w, t)
  <1>1. w.zone \in ZoneRows /\ w.first \in Int /\ w.last \in Int /\ w.last + 1 \in Int
    BY DEF WindowRows
  <1>2. t >= Opens(w) <=> LocalDate(w.zone, t) >= w.first
    BY <1>1, MidnightFound DEF Opens
  <1>3. t >= Closes(w) <=> LocalDate(w.zone, t) >= w.last + 1
    BY <1>1, MidnightFound DEF Closes
  <1>4. Opens(w) \in Int /\ Closes(w) \in Int
    BY <1>1, MidnightFound DEF Opens, Closes
  <1>5. LocalDate(w.zone, t) \in Int
    BY <1>1, Quotient DEF LocalDate, Local, Offset, ZoneRows
  <1> QED
    BY <1>1, <1>2, <1>3, <1>4, <1>5 DEF Exact, InWindow

\* What the service remembers of a report has the right shape.
Fields == {"op", "visit", "branch", "provider", "at", "windows", "summary", "left", "lists"}

Shaped(q) ==
    /\ DOMAIN q = Fields
    /\ \A b \in DOMAIN q.windows : q.windows[b] \in WindowRows

WindowsTyped ==
    /\ now \in Int
    /\ zone \in [Branches -> Zones]
    /\ open \subseteq Branches
    /\ DOMAIN req = Requests
    /\ req = [r \in Requests |-> req[r]]
    /\ \A r \in Requests : Shaped(req[r])

LEMMA IdleShaped == Shaped(Idle)
  BY DEF Shaped, Idle, Fields

\* To remember something well-formed is enough.
LEMMA Remembered ==
    ASSUME WindowsTyped, NEW r \in Requests, NEW q, Shaped(q), Remember(r, q)
    PROVE  /\ DOMAIN req' = Requests /\ req' = [o \in Requests |-> req'[o]]
           /\ \A o \in Requests : Shaped(req'[o])
  BY DEF WindowsTyped, Remember

\* Whoever is served and forgets it.
LEMMA Finished ==
    ASSUME WindowsTyped, NEW r \in Requests, Finish(r)
    PROVE  /\ DOMAIN req' = Requests /\ req' = [o \in Requests |-> req'[o]]
           /\ \A o \in Requests : Shaped(req'[o])
  BY IdleShaped, Remembered DEF Finish

\* A report begins with windows in the zones of its branches.
LEMMA Asked ==
    ASSUME WindowsTyped, NEW r \in Requests, NEW op, NEW chosen \in Scopes, NEW days,
           \A b \in chosen : days[b][1] \in Int /\ days[b][2] \in Int,
           Ask(r, op, chosen, days)
    PROVE  WindowsTyped'
  <1> DEFINE q == [Idle EXCEPT !.op = op, !.windows = WindowsOf(chosen, days),
                               !.left = QueriesOf(op, chosen),
                               !.lists = [x \in QueriesOf(op, chosen) |-> {}]]
  <1>1. chosen \subseteq Branches
    BY DEF WindowsTyped, Scopes
  <1>2. DOMAIN q = Fields /\ q.windows = WindowsOf(chosen, days)
    BY DEF Idle, Fields
  <1>3. \A b \in DOMAIN WindowsOf(chosen, days) : WindowsOf(chosen, days)[b] \in WindowRows
    BY <1>1, TimeAssumption DEF WindowsOf, WindowRows, WindowsTyped
  <1>4. Shaped(q)
    BY <1>2, <1>3 DEF Shaped
  <1>5. Remember(r, q) /\ UNCHANGED <<now, zone, open>>
    BY DEF Ask, Places
  <1> QED
    BY <1>4, <1>5, Remembered DEF WindowsTyped

LEMMA WindowsTypedStep == WindowsTyped /\ [Next]_vars => WindowsTyped'
  <1> SUFFICES ASSUME WindowsTyped, [Next]_vars PROVE WindowsTyped'
    OBVIOUS
  <1>1. ASSUME NEW r \in Requests, Dashboard(r) PROVE WindowsTyped'
    <2>1. PICK chosen \in Scopes :
            Ask(r, "dashboard", chosen,
                [b \in chosen |-> <<LocalDate(zone[b], now), LocalDate(zone[b], now)>>])
      BY <1>1 DEF Dashboard
    <2>2. \A b \in chosen : LocalDate(zone[b], now) \in Int
      BY TimeAssumption, Quotient
         DEF WindowsTyped, Scopes, LocalDate, Local, Offset, ZoneRows
    <2> QED
      BY <2>1, <2>2, Asked
  <1>2. ASSUME NEW r \in Requests, NEW first \in Dates, NEW last \in Dates,
               Performance(r, first, last)
        PROVE  WindowsTyped'
    <2>1. PICK chosen \in Scopes :
            Ask(r, "salon", chosen, [b \in chosen |-> <<first, last>>])
      BY <1>2 DEF Performance
    <2>2. first \in Int /\ last \in Int
      BY TimeAssumption
    <2> QED
      BY <2>1, <2>2, Asked
  <1>3. ASSUME NEW r \in Requests, Summarise(r) PROVE WindowsTyped'
    <2>1. Shaped([req[r] EXCEPT !.summary = SummaryRows(req[r].op, req[r].windows)])
      BY DEF WindowsTyped, Shaped, Fields
    <2> QED
      BY <1>3, <2>1, Remembered DEF Summarise, WindowsTyped, Places
  <1>4. ASSUME NEW r \in Requests, NEW query \in req[r].left, Query(r, query)
        PROVE  WindowsTyped'
    <2>1. PICK list : Remember(r, [req[r] EXCEPT !.left = @ \ {query}, !.lists[query] = list])
      BY <1>4 DEF Query
    <2> DEFINE q == [req[r] EXCEPT !.left = @ \ {query}, !.lists[query] = list]
    <2>2. Shaped(q)
      BY DEF WindowsTyped, Shaped, Fields
    <2>3. UNCHANGED <<now, zone, open>>
      BY <1>4 DEF Query, Places
    <2> QED
      BY <2>1, <2>2, <2>3, Remembered DEF WindowsTyped
  <1>5. ASSUME NEW r \in Requests, Reply(r) \/ Commit(r) \/ Stop(r) PROVE WindowsTyped'
    <2>1. Finish(r) /\ UNCHANGED <<now, zone, open>>
      BY <1>5 DEF Reply, Commit, Stop, Places
    <2> QED
      BY <2>1, Finished DEF WindowsTyped
  <1>6. ASSUME NEW r \in Requests, NEW v \in Visits, NEW op, NEW p, Check(r, op, v, p)
        PROVE  WindowsTyped'
    <2> DEFINE q == [Idle EXCEPT !.op = op, !.visit = v, !.provider = p,
                                 !.at = IF op \in Stamped THEN now ELSE None]
    <2>1. Shaped(q)
      BY DEF Shaped, Idle, Fields
    <2>2. Remember(r, q) /\ UNCHANGED <<now, zone, open>>
      BY <1>6 DEF Check, Places
    <2> QED
      BY <2>1, <2>2, Remembered DEF WindowsTyped
  <1>7. ASSUME NEW r \in Requests, NEW v \in Visits, NEW b \in Branches, NEW p, Create(r, v, b, p)
        PROVE  WindowsTyped'
    <2> DEFINE q == [Idle EXCEPT !.op = "create", !.visit = v, !.branch = b,
                                 !.provider = p, !.at = now]
    <2>1. Shaped(q)
      BY DEF Shaped, Idle, Fields
    <2>2. Remember(r, q) /\ UNCHANGED <<now, zone, open>>
      BY <1>7 DEF Create, Places
    <2> QED
      BY <2>1, <2>2, Remembered DEF WindowsTyped
  <1>8. CASE Tick
    BY <1>8, TimeAssumption DEF Tick, WindowsTyped, Places
  <1>9. ASSUME NEW chosen \in SUBSET Branches, NEW z \in Zones, Move(chosen, z)
        PROVE  WindowsTyped'
    BY <1>9 DEF Move, WindowsTyped
  <1>10. ASSUME NEW b \in Branches, SwitchBranch(b) PROVE WindowsTyped'
    BY <1>10 DEF SwitchBranch, WindowsTyped
  <1>11. CASE UNCHANGED vars
    BY <1>11 DEF vars, WindowsTyped
  <1>12. ASSUME NEW r \in Requests, Reporting(r) PROVE WindowsTyped'
    BY <1>1, <1>2, <1>3, <1>4, <1>5, <1>12 DEF Reporting
  <1>13. ASSUME NEW r \in Requests, Writing(r) PROVE WindowsTyped'
    BY <1>5, <1>6, <1>7, <1>13
       DEF Writing, Treat, DropItem, RemoveItem, Assign, Complete, Cancel, Pay
  <1> QED
    BY <1>5, <1>8, <1>9, <1>10, <1>11, <1>12, <1>13 DEF Next

LEMMA WindowsInit == Init => WindowsTyped
  <1> SUFFICES ASSUME Init PROVE WindowsTyped
    OBVIOUS
  <1>1. \A r \in Requests : Shaped(req[r])
    BY IdleShaped DEF Init
  <1> QED
    BY <1>1 DEF Init, WindowsTyped

\* The window of a report is made of the days it was asked for, by the clocks of
\* its branch, wherever these show both of its midnights once (ReportsService.windows).
THEOREM DaysExactHolds == Spec => []DaysExact
  <1>1. WindowsTyped => DaysExact
    <2> SUFFICES ASSUME WindowsTyped, NEW r \in Requests, NEW b \in DOMAIN req[r].windows,
                        Once(req[r].windows[b].zone, req[r].windows[b].first),
                        Once(req[r].windows[b].zone, req[r].windows[b].last + 1),
                        NEW t \in -Day .. Horizon + Day
                 PROVE  Exact(req[r].windows[b], t)
      BY DEF DaysExact
    <2>1. req[r].windows[b] \in WindowRows
      BY DEF WindowsTyped, Shaped
    <2>2. t \in Int
      BY DayAssumption, TimeAssumption
    <2> QED
      BY <2>1, <2>2, WindowExact
  <1> QED
    BY <1>1, WindowsInit, WindowsTypedStep, PTL DEF Spec

-----------------------------------------------------------------------------
(* What is stored and what is remembered.                                   *)

\* The row of a visit that there is.
Rows == [branch : Branches, status : {"IN_PROGRESS", "COMPLETED", "CANCELLED"},
         item : {"open", "COMPLETED", "CANCELLED"}, created : Stamps,
         treated : Stamps \cup {None}, cancelled : Stamps \cup {None},
         completed : Stamps \cup {None}, paid : Stamps \cup {None},
         provider : Providers \cup {None}]

Formed(q) ==
    /\ q.op \in Writes \cup Reports \cup {"none"}
    /\ q.visit \in Visits \cup {None}
    /\ q.at \in Stamps \cup {None}
    /\ DOMAIN q.windows \subseteq Branches
    /\ q.provider \in Providers \cup {None}
    /\ q.op \in Writes => q.visit \in Visits
    /\ q.op \in Stamped => q.at \in Stamps
    /\ q.op = "create" => q.branch \in Branches

\* Whoever creates has found no visit, whoever else writes has found one, and no
\* visit is ever taken back.
Known(table, q) ==
    /\ q.op = "create" => table[q.visit] = NoVisit
    /\ q.op \in Writes \ {"create"} => table[q.visit] # NoVisit

\* Nobody else creates the visit.
Creator(memory, r, q) ==
    q.op = "create" => \A o \in Requests \ {r} : memory[o].op = "create" => memory[o].visit # q.visit

StoredRight == visit \in [Visits -> VisitRows] /\ \A v \in Visits : Dated(visit[v])

MemoryRight ==
    \A r \in Requests : Formed(req[r]) /\ Known(visit, req[r]) /\ Creator(req, r, req[r])

TypeInv == WindowsTyped /\ now \in Stamps /\ StoredRight /\ MemoryRight /\ changed \subseteq Requests

LEMMA IdleFormed == Formed(Idle) /\ \A table : Known(table, Idle)
  BY DEF Formed, Known, Idle, Writes, Reports, Stamped

\* Where nothing is written, what is remembered has to be right.
LEMMA MovesMemory ==
    ASSUME TypeInv, NEW r \in Requests, NEW q, Remember(r, q), visit' = visit,
           Formed(q), Known(visit, q), Creator(req, r, q)
    PROVE  StoredRight' /\ MemoryRight'
  <1>1. StoredRight'
    BY DEF TypeInv, StoredRight
  <1>2. \A o \in Requests : req'[o] = IF o = r THEN q ELSE req[o]
    BY DEF TypeInv, WindowsTyped, Remember
  <1>3. \A o \in Requests : Formed(req'[o]) /\ Known(visit', req'[o])
    BY <1>2 DEF TypeInv, MemoryRight
  <1>4. ASSUME NEW o \in Requests PROVE Creator(req', o, req'[o])
    <2>1. CASE o = r
      BY <1>2, <2>1 DEF Creator
    <2>2. CASE o # r
      <3>1. Creator(req, o, req[o])
        BY DEF TypeInv, MemoryRight
      <3> QED
        BY <1>2, <2>2, <3>1 DEF Creator
    <2> QED
      BY <2>1, <2>2
  <1> QED
    BY <1>1, <1>3, <1>4 DEF MemoryRight

LEMMA FinishMemory ==
    ASSUME TypeInv, NEW r \in Requests, Finish(r), visit' = visit
    PROVE  StoredRight' /\ MemoryRight'
  <1>1. Creator(req, r, Idle)
    BY DEF Creator, Idle
  <1> QED
    BY <1>1, IdleFormed, MovesMemory DEF Finish

LEMMA AskMemory ==
    ASSUME TypeInv, NEW r \in Requests, NEW op \in Reports, NEW chosen \in Scopes, NEW days,
           Ask(r, op, chosen, days)
    PROVE  StoredRight' /\ MemoryRight'
  <1> DEFINE q == [Idle EXCEPT !.op = op, !.windows = WindowsOf(chosen, days),
                               !.left = QueriesOf(op, chosen),
                               !.lists = [x \in QueriesOf(op, chosen) |-> {}]]
  <1>1. DOMAIN q.windows = chosen /\ chosen \subseteq Branches
    BY DEF TypeInv, WindowsTyped, Scopes, Idle, WindowsOf
  <1>2. q.op = op /\ q.visit = None /\ q.provider = None /\ q.at = None
    BY DEF Idle
  <1>3. Remember(r, q) /\ visit' = visit
    BY DEF Ask
  <1> HIDE DEF q
  <1>4. Formed(q) /\ Known(visit, q) /\ Creator(req, r, q)
    BY <1>1, <1>2 DEF Formed, Known, Creator, Writes, Reports, Stamped
  <1> QED
    BY <1>3, <1>4, MovesMemory

LEMMA CheckMemory ==
    ASSUME TypeInv, NEW r \in Requests, NEW v \in Visits, NEW op \in Writes \ {"create"},
           NEW p \in Providers \cup {None}, visit[v] # NoVisit, Check(r, op, v, p)
    PROVE  StoredRight' /\ MemoryRight'
  <1> DEFINE q == [Idle EXCEPT !.op = op, !.visit = v, !.provider = p,
                               !.at = IF op \in Stamped THEN now ELSE None]
  <1>1. /\ q.op = op /\ q.visit = v /\ q.provider = p /\ DOMAIN q.windows = {}
        /\ q.at = IF op \in Stamped THEN now ELSE None
    BY DEF Idle
  <1>2. Remember(r, q) /\ visit' = visit
    BY DEF Check
  <1> HIDE DEF q
  <1>3. Formed(q) /\ Known(visit, q) /\ Creator(req, r, q)
    BY <1>1 DEF Formed, Known, Creator, TypeInv, Stamped
  <1> QED
    BY <1>2, <1>3, MovesMemory

LEMMA CreateMemory ==
    ASSUME TypeInv, NEW r \in Requests, NEW v \in Visits, NEW b \in Branches,
           NEW p \in Providers \cup {None}, Create(r, v, b, p)
    PROVE  StoredRight' /\ MemoryRight'
  <1> DEFINE q == [Idle EXCEPT !.op = "create", !.visit = v, !.branch = b,
                               !.provider = p, !.at = now]
  <1>1. /\ q.op = "create" /\ q.visit = v /\ q.branch = b /\ q.provider = p
        /\ q.at = now /\ DOMAIN q.windows = {}
    BY DEF Idle
  <1>2. Remember(r, q) /\ visit' = visit /\ visit[v] = NoVisit
    BY DEF Create
  <1>3. \A o \in Requests : req[o].op = "create" => req[o].visit # v
    BY DEF Create
  <1> HIDE DEF q
  <1>4. Formed(q)
    BY <1>1 DEF Formed, Writes, Stamped, TypeInv
  <1>5. Known(visit, q) /\ Creator(req, r, q)
    BY <1>1, <1>2, <1>3 DEF Known, Creator
  <1> QED
    BY <1>2, <1>4, <1>5, MovesMemory

\* What is written is the row of a visit, with the time of what happened.
LEMMA WrittenRow ==
    ASSUME TypeInv, NEW r \in Requests, req[r].op \in Writes
    PROVE  /\ req[r].visit \in Visits
           /\ Written(visit[req[r].visit], req[r]) \in Rows
           /\ Dated(Written(visit[req[r].visit], req[r]))
  <1> DEFINE q == req[r]
             row == visit[q.visit]
  <1>1. Formed(q) /\ Known(visit, q)
    BY DEF TypeInv, MemoryRight
  <1>2. /\ q.visit \in Visits /\ now \in Stamps /\ q.provider \in Providers \cup {None}
        /\ q.op \in Stamped => q.at \in Stamps
    BY <1>1 DEF Formed, TypeInv
  <1>3. row \in VisitRows /\ Dated(row)
    BY <1>2 DEF TypeInv, StoredRight
  <1>4. None \notin Stamps
    BY NoneAssumption, TimeAssumption DEF Stamps
  <1>5. CASE q.op = "create"
    <2>1. Written(row, q) = [NoVisit EXCEPT !.branch = q.branch, !.status = "IN_PROGRESS",
                                            !.item = "open", !.created = q.at,
                                            !.provider = q.provider]
      BY <1>5 DEF Written
    <2>2. q.branch \in Branches /\ q.at \in Stamps
      BY <1>1, <1>2, <1>5 DEF Formed, Stamped, Writes
    <2> QED
      BY <1>2, <2>1, <2>2 DEF NoVisit, Rows, Dated
  <1>6. CASE q.op \in Writes \ {"create"}
    <2>1. row \in Rows
      BY <1>1, <1>3, <1>6 DEF Known, VisitRows, Rows
    <2> SUFFICES Written(row, q) \in Rows /\ Dated(Written(row, q))
      BY <1>2
    <2> HIDE DEF row, q
    <2>2. CASE q.op = "treat"
      BY <1>2, <1>3, <1>4, <2>1, <2>2 DEF Written, Rows, Dated, Stamped, Writes
    <2>3. CASE q.op = "dropItem"
      BY <1>2, <1>3, <1>4, <2>1, <2>3 DEF Written, Rows, Dated, Stamped, Writes
    <2>4. CASE q.op = "removeItem"
      BY <1>2, <1>3, <1>4, <2>1, <2>4 DEF Written, Rows, Dated, Stamped, Writes
    <2>5. CASE q.op = "complete"
      BY <1>2, <1>3, <1>4, <2>1, <2>5 DEF Written, Rows, Dated, Stamped, Writes
    <2>6. CASE q.op = "cancel"
      BY <1>2, <1>3, <1>4, <2>1, <2>6 DEF Written, Rows, Dated, Stamped, Writes
    <2>7. CASE q.op = "pay"
      BY <1>2, <1>3, <1>4, <2>1, <2>7 DEF Written, Rows, Dated, Stamped, Writes
    <2>8. CASE q.op = "assign"
      BY <1>2, <1>3, <1>4, <2>1, <2>8 DEF Written, Rows, Dated
    <2> QED
      BY <1>6, <2>2, <2>3, <2>4, <2>5, <2>6, <2>7, <2>8 DEF Writes
  <1> QED
    BY <1>2, <1>5, <1>6

LEMMA CommitMemory ==
    ASSUME TypeInv, NEW r \in Requests, Commit(r)
    PROVE  StoredRight' /\ MemoryRight'
  <1> DEFINE v == req[r].visit
             row == Written(visit[v], req[r])
  <1>1. v \in Visits /\ row \in Rows /\ Dated(row) /\ req[r].op \in Writes
    BY WrittenRow DEF Commit
  <1>2. visit' = [visit EXCEPT ![v] = row] /\ Finish(r)
    BY DEF Commit
  <1>3. row \in VisitRows /\ row # NoVisit
    BY <1>1 DEF Rows, VisitRows, NoVisit
  <1>4. Formed(req[r]) /\ Known(visit, req[r]) /\ Creator(req, r, req[r])
    BY DEF TypeInv, MemoryRight
  <1> HIDE DEF row
  <1>5. visit \in [Visits -> VisitRows] /\ \A o \in Visits : Dated(visit[o])
    BY DEF TypeInv, StoredRight
  <1>6. \A o \in Visits : visit'[o] = IF o = v THEN row ELSE visit[o]
    BY <1>2, <1>5
  <1>7. StoredRight'
    BY <1>1, <1>2, <1>3, <1>5, <1>6 DEF StoredRight
  <1>8. \A o \in Requests : req'[o] = IF o = r THEN Idle ELSE req[o]
    BY <1>2 DEF TypeInv, WindowsTyped, Finish, Remember
  <1>9. ASSUME NEW o \in Requests \ {r}
        PROVE  Formed(req[o]) /\ Known(visit', req[o]) /\ Creator(req', o, req[o])
    <2>1. Formed(req[o]) /\ Known(visit, req[o]) /\ Creator(req, o, req[o])
      BY DEF TypeInv, MemoryRight
    <2>2. req[o].op \in Writes => req[o].visit \in Visits
      BY <2>1 DEF Formed
    <2>3. req[o].op = "create" => visit'[req[o].visit] = NoVisit
      <3>1. SUFFICES ASSUME req[o].op = "create" PROVE visit'[req[o].visit] = NoVisit
        OBVIOUS
      <3>2. visit[req[o].visit] = NoVisit /\ req[o].visit \in Visits
        BY <2>1, <2>2, <3>1 DEF Known, Writes
      <3>3. req[o].visit # v
        BY <1>1, <1>4, <2>1, <3>1, <3>2 DEF Known, Creator
      <3> QED
        BY <1>6, <3>2, <3>3
    <2>4. req[o].op \in Writes \ {"create"} => visit'[req[o].visit] # NoVisit
      BY <1>3, <1>6, <2>1, <2>2 DEF Known
    <2>5. Creator(req', o, req[o])
      BY <1>8, <2>1 DEF Creator, Idle
    <2> QED
      BY <2>1, <2>3, <2>4, <2>5 DEF Known
  <1>10. Formed(Idle) /\ Known(visit', Idle) /\ Creator(req', r, Idle)
    BY IdleFormed DEF Creator, Idle
  <1>11. MemoryRight'
    BY <1>8, <1>9, <1>10 DEF MemoryRight
  <1> QED
    BY <1>7, <1>11

\* Summaries and queries leave everything else of a report as it is.
Alike(q, p) ==
    /\ q.op = p.op /\ q.visit = p.visit /\ q.at = p.at
    /\ q.branch = p.branch /\ q.provider = p.provider /\ q.windows = p.windows

LEMMA SummariseRemembers ==
    ASSUME WindowsTyped, NEW r \in Requests, Summarise(r)
    PROVE  \E q : /\ Remember(r, q) /\ visit' = visit /\ Alike(q, req[r])
                  /\ q.summary = SummaryRows(req[r].op, req[r].windows)
                  /\ q.left = req[r].left /\ q.lists = req[r].lists
  <1> DEFINE q == [req[r] EXCEPT !.summary = SummaryRows(req[r].op, req[r].windows)]
  <1>1. DOMAIN req[r] = Fields
    BY DEF WindowsTyped, Shaped
  <1>2. Remember(r, q) /\ visit' = visit
    BY DEF Summarise
  <1>3. /\ Alike(q, req[r]) /\ q.summary = SummaryRows(req[r].op, req[r].windows)
        /\ q.left = req[r].left /\ q.lists = req[r].lists
    BY <1>1 DEF Fields, Alike
  <1> HIDE DEF q
  <1> QED
    BY <1>2, <1>3

LEMMA QueryRemembers ==
    ASSUME WindowsTyped, NEW r \in Requests, NEW query, Query(r, query)
    PROVE  \E list \in Answers(req[r].windows, query) : \E q :
              /\ Remember(r, q) /\ visit' = visit /\ Alike(q, req[r])
              /\ q.summary = req[r].summary
              /\ q.left = req[r].left \ {query}
              /\ q.lists = [req[r].lists EXCEPT ![query] = list]
  <1>1. PICK list \in Answers(req[r].windows, query) :
          Remember(r, [req[r] EXCEPT !.left = @ \ {query}, !.lists[query] = list])
    BY DEF Query
  <1> DEFINE q == [req[r] EXCEPT !.left = @ \ {query}, !.lists[query] = list]
  <1>2. DOMAIN req[r] = Fields
    BY DEF WindowsTyped, Shaped
  <1>3. Remember(r, q) /\ visit' = visit
    BY <1>1 DEF Query
  <1>4. /\ Alike(q, req[r]) /\ q.summary = req[r].summary
        /\ q.left = req[r].left \ {query}
        /\ q.lists = [req[r].lists EXCEPT ![query] = list]
    BY <1>2 DEF Fields, Alike
  <1> HIDE DEF q
  <1> QED
    BY <1>3, <1>4

LEMMA QueryMemory ==
    ASSUME TypeInv, NEW r \in Requests,
           \/ Summarise(r)
           \/ \E query \in req[r].left : Query(r, query)
    PROVE  StoredRight' /\ MemoryRight'
  <1>1. PICK q : Remember(r, q) /\ visit' = visit /\ Alike(q, req[r])
    BY SummariseRemembers, QueryRemembers DEF TypeInv
  <1>2. Formed(req[r]) /\ Known(visit, req[r]) /\ Creator(req, r, req[r])
    BY DEF TypeInv, MemoryRight
  <1>3. Formed(q) /\ Known(visit, q) /\ Creator(req, r, q)
    BY <1>1, <1>2 DEF Formed, Known, Creator, Alike
  <1> QED
    BY <1>1, <1>3, MovesMemory

\* A visit that is in progress, or has been completed, exists.
LEMMA CheckFinds ==
    ASSUME TypeInv, NEW v \in Visits
    PROVE  InProgress(v) \/ visit[v].status = "COMPLETED" => visit[v] # NoVisit
  BY DEF InProgress, NoVisit

LEMMA MemoryStep == TypeInv /\ Next => StoredRight' /\ MemoryRight'
  <1> SUFFICES ASSUME TypeInv, Next PROVE StoredRight' /\ MemoryRight'
    OBVIOUS
  <1>1. ASSUME NEW r \in Requests, Dashboard(r) PROVE StoredRight' /\ MemoryRight'
    BY <1>1, AskMemory DEF Dashboard, Reports
  <1>2. ASSUME NEW r \in Requests, NEW first, NEW last, Performance(r, first, last)
        PROVE  StoredRight' /\ MemoryRight'
    BY <1>2, AskMemory DEF Performance, Reports
  <1>3. ASSUME NEW r \in Requests, Reply(r) \/ Stop(r) PROVE StoredRight' /\ MemoryRight'
    BY <1>3, FinishMemory DEF Reply, Stop
  <1>4. ASSUME NEW r \in Requests, NEW v \in Visits,
               \/ Treat(r, v) \/ DropItem(r, v) \/ RemoveItem(r, v)
               \/ \E p \in Providers \cup {None} : Assign(r, v, p)
               \/ Complete(r, v) \/ Cancel(r, v) \/ Pay(r, v)
        PROVE  StoredRight' /\ MemoryRight'
    <2>1. visit[v] # NoVisit
      BY <1>4, CheckFinds DEF Treat, DropItem, RemoveItem, Assign, Complete, Cancel, Pay
    <2>2. PICK op \in Writes \ {"create"}, p \in Providers \cup {None} : Check(r, op, v, p)
      BY <1>4 DEF Treat, DropItem, RemoveItem, Assign, Complete, Cancel, Pay, Writes
    <2> QED
      BY <2>1, <2>2, CheckMemory
  <1>5. ASSUME visit' = visit, req' = req PROVE StoredRight' /\ MemoryRight'
    BY <1>5 DEF TypeInv, StoredRight, MemoryRight
  <1>6. ASSUME NEW r \in Requests, Reporting(r) PROVE StoredRight' /\ MemoryRight'
    BY <1>1, <1>2, <1>3, <1>6, QueryMemory DEF Reporting
  <1>7. ASSUME NEW r \in Requests, Writing(r) PROVE StoredRight' /\ MemoryRight'
    BY <1>4, <1>7, CommitMemory, CreateMemory DEF Writing
  <1>8. CASE Tick
    BY <1>5, <1>8 DEF Tick
  <1>9. CASE \E chosen \in SUBSET Branches, z \in Zones : Move(chosen, z)
    BY <1>5, <1>9 DEF Move
  <1>10. CASE \E b \in Branches : SwitchBranch(b)
    BY <1>5, <1>10 DEF SwitchBranch
  <1> QED
    BY <1>3, <1>6, <1>7, <1>8, <1>9, <1>10 DEF Next

\* Only the clock ticks.
LEMMA ClockStep == now \in Stamps /\ Next => now' \in Stamps
  <1> SUFFICES ASSUME now \in Stamps, Next PROVE now' \in Stamps
    OBVIOUS
  <1>1. CASE Tick
    BY <1>1, TimeAssumption DEF Tick, Stamps
  <1>2. ASSUME NEW r \in Requests, Reporting(r) \/ Writing(r) \/ Stop(r) PROVE now' = now
    BY <1>2 DEF Reporting, Dashboard, Performance, Ask, Summarise, Query, Reply, Stop, Writing,
                Create, Treat, DropItem, RemoveItem, Assign, Complete, Cancel, Pay, Check, Commit
  <1>3. CASE \E chosen \in SUBSET Branches, z \in Zones : Move(chosen, z)
    BY <1>3 DEF Move
  <1>4. CASE \E b \in Branches : SwitchBranch(b)
    BY <1>4 DEF SwitchBranch
  <1> QED
    BY <1>1, <1>2, <1>3, <1>4 DEF Next

LEMMA TypeStep == TypeInv /\ [Next]_vars => TypeInv'
  <1> SUFFICES ASSUME TypeInv, [Next]_vars PROVE TypeInv'
    OBVIOUS
  <1>1. WindowsTyped'
    BY WindowsTypedStep DEF TypeInv
  <1>2. CASE Next
    <2>1. changed' \subseteq Requests
      BY <1>2 DEF Next, Watch
    <2> QED
      BY <1>1, <1>2, <2>1, MemoryStep, ClockStep DEF TypeInv
  <1>3. CASE UNCHANGED vars
    BY <1>1, <1>3 DEF vars, TypeInv, StoredRight, MemoryRight
  <1> QED
    BY <1>2, <1>3

LEMMA TypeInit == Init => TypeInv
  <1> SUFFICES ASSUME Init PROVE TypeInv
    OBVIOUS
  <1>1. now \in Stamps
    BY TimeAssumption DEF Init, Stamps
  <1>2. StoredRight
    BY EarlierAssumption DEF Init, StoredRight
  <1>3. MemoryRight
    BY IdleFormed DEF Init, MemoryRight, Creator, Idle
  <1> QED
    BY <1>1, <1>2, <1>3, WindowsInit DEF TypeInv, Init

LEMMA TypeInvariant == Spec => []TypeInv
  BY TypeInit, TypeStep, PTL DEF Spec

\* Rows and requests keep their shape, and what is completed, cancelled or paid
\* says when: whoever writes holds a time stamp and has found its visit
\* (visits.service.ts:371-398, 430-464).
THEOREM TypeCorrect == Spec => []TypeOK
  <1>1. TypeInv => TypeOK
    BY DEF TypeInv, WindowsTyped, StoredRight, MemoryRight, Dated, Formed, TypeOK
  <1> QED
    BY <1>1, TypeInvariant, PTL

-----------------------------------------------------------------------------
(* Days that are over.                                                      *)

\* A time stamp, or none, on a date by the clocks of a zone.
OnDay(z, d, t) == t # None /\ InWindow([zone |-> z, first |-> d, last |-> d], t)

\* The figures of one branch and day, of the visits that a table has.
CreatedOn(table, z, b, d) ==
    {v \in Visits : table[v].branch = b /\ OnDay(z, d, table[v].created)}
PaidOn(table, z, b, d) ==
    {v \in Visits : table[v].branch = b /\ OnDay(z, d, table[v].paid)}
CompletedOn(table, z, b, d) ==
    {v \in Visits : /\ table[v].status = "COMPLETED"
                    /\ table[v].branch = b /\ OnDay(z, d, table[v].completed)}
TreatedOn(table, z, b, d) ==
    {v \in Visits : /\ table[v].item = "COMPLETED"
                    /\ table[v].branch = b /\ OnDay(z, d, table[v].treated)}
DroppedOn(table, z, b, d) ==
    {v \in Visits : /\ table[v].item = "CANCELLED"
                    /\ table[v].branch = b /\ OnDay(z, d, table[v].cancelled)}

LEMMA WithinDay ==
    ASSUME NEW b, NEW d, NEW v, NEW t
    PROVE  /\ Within(Day1(b, d), v, t) <=> visit[v].branch = b /\ OnDay(zone[b], d, t)
           /\ Within(Day1(b, d), v, t)' <=> visit'[v].branch = b /\ OnDay(zone'[b], d, t)
  BY DEF Within, Day1, OnDay

LEMMA FiguresOfDay ==
    ASSUME NEW b, NEW d
    PROVE  /\ CreatedIn(Day1(b, d)) = CreatedOn(visit, zone[b], b, d)
           /\ CreatedIn(Day1(b, d))' = CreatedOn(visit', zone'[b], b, d)
           /\ PaidIn(Day1(b, d)) = PaidOn(visit, zone[b], b, d)
           /\ PaidIn(Day1(b, d))' = PaidOn(visit', zone'[b], b, d)
  BY DEF CreatedIn, PaidIn, Within, Day1, OnDay, CreatedOn, PaidOn

\* No time stamp that somebody holds is of a day that is over, nor is the time.
LEMMA OverIsPast ==
    ASSUME TypeInv, NEW b \in Branches, NEW d \in Int, Over(b, d), NEW r \in Requests,
           req[r].op \in Writes
    PROVE  (req[r].op \in Stamped => ~ OnDay(zone[b], d, req[r].at)) /\ ~ OnDay(zone[b], d, now)
  <1> DEFINE end == DayStart(zone[b], d + 1)
  <1>1. zone[b] \in ZoneRows
    BY TimeAssumption DEF TypeInv, WindowsTyped
  <1>2. end \in Int
    BY <1>1, DayAssumption DEF DayStart, Corrected, Local, Offset, ZoneRows
  <1>3. now >= end /\ (req[r].op \in Stamped => req[r].at >= end)
    BY DEF Over
  <1>4. now \in Int /\ (req[r].op \in Stamped => req[r].at \in Int)
    BY TimeAssumption DEF TypeInv, MemoryRight, Formed, Stamps
  <1>5. \A t : OnDay(zone[b], d, t) => t < end
    BY DEF OnDay, InWindow, Closes
  <1> HIDE DEF end
  <1> QED
    BY <1>2, <1>3, <1>4, <1>5

\* What a commit does to the row of its visit.
LEMMA CommitRow ==
    ASSUME TypeInv, NEW r \in Requests, Commit(r)
    PROVE  LET v == req[r].visit
               q == req[r]
               old == visit[v]
               new == visit'[v]
           IN  /\ v \in Visits /\ q.op \in Writes /\ zone' = zone
               /\ visit' = [visit EXCEPT ![v] = new] /\ new = Written(old, q)
               /\ \A o \in Visits \ {v} : visit'[o] = visit[o]
               /\ q.op = "create" =>
                    /\ old = NoVisit /\ new.created = q.at /\ new.paid = None
                    /\ new.status = "IN_PROGRESS" /\ new.item = "open"
               /\ q.op # "create" => old \in Rows /\ new.branch = old.branch /\ new.created = old.created
               /\ q.op = "pay" => old.paid = None /\ new.paid = q.at
               /\ q.op \notin {"create", "pay"} => new.paid = old.paid
               /\ q.op = "treat" => new.item = "COMPLETED" /\ new.treated = q.at
               /\ q.op = "dropItem" => new.item = "CANCELLED" /\ new.cancelled = q.at
               /\ q.op = "removeItem" => new.item = "CANCELLED" /\ new.cancelled = now
               /\ q.op = "complete" => new.status = "COMPLETED" /\ new.completed = q.at
               /\ q.op = "cancel" => new.status = "CANCELLED"
               /\ q.op \in {"assign", "complete", "cancel", "pay"} =>
                    new.item = old.item /\ new.treated = old.treated /\ new.cancelled = old.cancelled
               /\ q.op \in {"treat", "dropItem", "removeItem", "assign", "pay"} =>
                    new.status = old.status /\ new.completed = old.completed
  <1> DEFINE v == req[r].visit
             q == req[r]
             old == visit[v]
             new == visit'[v]
  <1>1. q.op \in Writes /\ v \in Visits
    BY WrittenRow DEF Commit
  <1>2. visit \in [Visits -> VisitRows] /\ Known(visit, q)
    BY DEF TypeInv, StoredRight, MemoryRight
  <1>3. /\ visit' = [visit EXCEPT ![v] = new] /\ new = Written(old, q)
        /\ \A o \in Visits \ {v} : visit'[o] = visit[o]
    BY <1>1, <1>2 DEF Commit
  <1>4. zone' = zone /\ (q.op = "pay" => old.paid = None)
    BY DEF Commit, Places
  <1>5. (q.op = "create" => old = NoVisit) /\ (q.op # "create" => old \in Rows)
    BY <1>1, <1>2 DEF Known, VisitRows, Rows
  <1>6. new = Written(old, q)
    BY <1>3
  <1> HIDE DEF new, old, q
  <1>7. CASE q.op = "create"
    BY <1>1, <1>3, <1>4, <1>5, <1>6, <1>7 DEF Written, NoVisit, new, old, q
  <1>8. CASE q.op = "treat"
    BY <1>1, <1>3, <1>4, <1>5, <1>6, <1>8 DEF Written, Rows, new, old, q
  <1>9. CASE q.op = "dropItem"
    BY <1>1, <1>3, <1>4, <1>5, <1>6, <1>9 DEF Written, Rows, new, old, q
  <1>10. CASE q.op = "removeItem"
    BY <1>1, <1>3, <1>4, <1>5, <1>6, <1>10 DEF Written, Rows, new, old, q
  <1>11. CASE q.op = "complete"
    BY <1>1, <1>3, <1>4, <1>5, <1>6, <1>11 DEF Written, Rows, new, old, q
  <1>12. CASE q.op = "cancel"
    BY <1>1, <1>3, <1>4, <1>5, <1>6, <1>12 DEF Written, Rows, new, old, q
  <1>13. CASE q.op = "pay"
    BY <1>1, <1>3, <1>4, <1>5, <1>6, <1>13 DEF Written, Rows, new, old, q
  <1>14. CASE q.op = "assign"
    BY <1>1, <1>3, <1>4, <1>5, <1>6, <1>14 DEF Written, Rows, new, old, q
  <1> QED
    BY <1>1, <1>7, <1>8, <1>9, <1>10, <1>11, <1>12, <1>13, <1>14 DEF Writes, q

\* Only a commit writes visits.
LEMMA OnlyCommitWrites ==
    ASSUME Next, \A r \in Requests : ~ Commit(r)
    PROVE  visit' = visit
  <1>1. ASSUME NEW r \in Requests, Reporting(r) \/ Stop(r) \/ Writing(r) PROVE visit' = visit
    BY <1>1 DEF Reporting, Dashboard, Performance, Ask, Summarise, Query, Reply, Stop, Writing,
                Create, Treat, DropItem, RemoveItem, Assign, Complete, Cancel, Pay, Check
  <1> QED
    BY <1>1 DEF Next, Tick, Move, SwitchBranch

\* Neither what was created nor what was paid.
LEMMA RevenueStep ==
    ASSUME TypeInv, NEW r \in Requests, Commit(r), NEW b \in Branches, NEW d \in Int, Over(b, d)
    PROVE  /\ CreatedIn(Day1(b, d))' = CreatedIn(Day1(b, d))
           /\ PaidIn(Day1(b, d))' = PaidIn(Day1(b, d))
  <1> DEFINE v == req[r].visit
             q == req[r]
             old == visit[v]
             new == visit'[v]
             z == zone[b]
  <1>1. /\ v \in Visits /\ q.op \in Writes /\ zone' = zone
        /\ \A o \in Visits \ {v} : visit'[o] = visit[o]
        /\ q.op = "create" => old = NoVisit /\ new.created = q.at /\ new.paid = None
        /\ q.op # "create" => new.branch = old.branch /\ new.created = old.created
        /\ q.op = "pay" => old.paid = None /\ new.paid = q.at
        /\ q.op \notin {"create", "pay"} => new.paid = old.paid
    BY CommitRow
  <1>2. q.op \in {"create", "pay"} => ~ OnDay(z, d, q.at)
    BY <1>1, OverIsPast DEF Stamped
  <1>3. ~ OnDay(z, d, None) /\ NoVisit.created = None /\ NoVisit.paid = None
    BY DEF OnDay, NoVisit
  <1> HIDE DEF v, q, old, new, z
  <1>4. new.branch = b /\ OnDay(z, d, new.created) <=> old.branch = b /\ OnDay(z, d, old.created)
    BY <1>1, <1>2, <1>3
  <1>5. new.branch = b /\ OnDay(z, d, new.paid) <=> old.branch = b /\ OnDay(z, d, old.paid)
    BY <1>1, <1>2, <1>3
  <1>6. CreatedOn(visit', z, b, d) = CreatedOn(visit, z, b, d)
    BY <1>1, <1>4 DEF CreatedOn, new, old
  <1>7. PaidOn(visit', z, b, d) = PaidOn(visit, z, b, d)
    BY <1>1, <1>5 DEF PaidOn, new, old
  <1> QED
    BY <1>1, <1>6, <1>7, FiguresOfDay DEF z

\* What was created and what was paid on a day that is over stays as it is,
\* however many requests write at once: a payment is only of an unpaid visit, and
\* every time stamp still held is later (visits.service.ts:493-505).
THEOREM RevenueSettledHolds == Spec => RevenueSettled
  <1> DEFINE Settled ==
        visit' # visit => \A b \in Branches, d \in Dates :
          Over(b, d) =>
              /\ CreatedIn(Day1(b, d))' = CreatedIn(Day1(b, d))
              /\ PaidIn(Day1(b, d))' = PaidIn(Day1(b, d))
  <1>1. TypeInv /\ [Next]_vars => [Settled]_vars
    <2> SUFFICES ASSUME TypeInv, Next, visit' # visit PROVE Settled
      BY DEF vars
    <2>1. PICK r \in Requests : Commit(r)
      BY OnlyCommitWrites
    <2> QED
      BY <2>1, RevenueStep, TimeAssumption
  <1>2. Spec => [][Settled]_vars
    <2> HIDE DEF Settled
    <2> QED
      BY <1>1, TypeInvariant, PTL DEF Spec
  <1> QED
    BY <1>2 DEF RevenueSettled

-----------------------------------------------------------------------------
(* Until a visit is written, it is as it was checked.                       *)

\* The visit is still what the request found.
Checked(table, q) ==
    /\ q.op \in {"treat", "dropItem", "removeItem", "assign", "complete", "cancel"} =>
         table[q.visit].status = "IN_PROGRESS"
    /\ q.op \in {"treat", "dropItem"} => table[q.visit].item = "open"

CheckedInv == \A r \in Requests : Checked(visit, req[r]) \/ r \in changed

\* Whoever is served now, and was not before, has just checked.
LEMMA CheckedBegins ==
    ASSUME TypeInv, CheckedInv, NEW r \in Requests, NEW q, Remember(r, q), Watch,
           visit' = visit, Checked(visit, q) \/ r \in changed
    PROVE  CheckedInv'
  <1>1. \A o \in Requests : req'[o] = IF o = r THEN q ELSE req[o]
    BY DEF TypeInv, WindowsTyped, Remember
  <1>2. \A o \in Requests : Checked(visit', req'[o]) \/ o \in changed'
    <2> SUFFICES ASSUME NEW o \in Requests, o \in changed, ~ Checked(visit, req'[o])
                 PROVE  o \in changed'
      BY <1>1 DEF CheckedInv
    <2>1. req'[o] # Idle
      BY DEF Checked, Idle
    <2> QED
      BY <2>1 DEF Watch
  <1> QED
    BY <1>2 DEF CheckedInv

\* A write is seen by everybody else.
LEMMA CheckedCommit ==
    ASSUME TypeInv, CheckedInv, NEW r \in Requests, Commit(r), Watch
    PROVE  CheckedInv'
  <1>1. \A o \in Requests : req'[o] = IF o = r THEN Idle ELSE req[o]
    BY DEF TypeInv, WindowsTyped, Commit, Finish, Remember
  <1>2. \A table : Checked(table, Idle)
    BY DEF Checked, Idle
  <1>3. \A o \in Requests : Checked(visit', req'[o]) \/ o \in changed'
    <2> SUFFICES ASSUME NEW o \in Requests, ~ Checked(visit', req'[o])
                 PROVE  o \in changed'
      OBVIOUS
    <2>1. o # r /\ req'[o] = req[o] /\ req'[o] # Idle
      BY <1>1, <1>2
    <2>2. o \in changed \/ visit' # visit
      BY <2>1 DEF CheckedInv
    <2> QED
      BY <2>1, <2>2 DEF Watch
  <1> QED
    BY <1>3 DEF CheckedInv

LEMMA CheckedStep == TypeInv /\ CheckedInv /\ [Next]_vars => CheckedInv'
  <1> SUFFICES ASSUME TypeInv, CheckedInv, [Next]_vars PROVE CheckedInv'
    OBVIOUS
  <1>1. CASE UNCHANGED vars
    BY <1>1 DEF vars, CheckedInv
  <1>2. CASE Next
    <2>1. Watch
      BY <1>2 DEF Next
    <2>2. ASSUME NEW r \in Requests, Reply(r) \/ Stop(r) PROVE CheckedInv'
      <3>1. Remember(r, Idle) /\ visit' = visit
        BY <2>2 DEF Reply, Stop, Finish
      <3>2. Checked(visit, Idle)
        BY DEF Checked, Idle
      <3> QED
        BY <2>1, <3>1, <3>2, CheckedBegins
    <2>3. ASSUME NEW r \in Requests,
                 \/ Summarise(r)
                 \/ \E query \in req[r].left : Query(r, query)
          PROVE  CheckedInv'
      <3>1. PICK q : Remember(r, q) /\ visit' = visit /\ Alike(q, req[r])
        BY <2>3, SummariseRemembers, QueryRemembers DEF TypeInv
      <3>2. Checked(visit, q) \/ r \in changed
        BY <3>1 DEF CheckedInv, Checked, Alike
      <3> QED
        BY <2>1, <3>1, <3>2, CheckedBegins
    <2>4. ASSUME NEW r \in Requests, NEW op \in Reports, NEW chosen, NEW days,
                 Ask(r, op, chosen, days)
          PROVE  CheckedInv'
      <3> DEFINE q == [Idle EXCEPT !.op = op, !.windows = WindowsOf(chosen, days),
                                   !.left = QueriesOf(op, chosen),
                                   !.lists = [x \in QueriesOf(op, chosen) |-> {}]]
      <3>1. Remember(r, q) /\ visit' = visit
        BY <2>4 DEF Ask
      <3>2. q.op = op
        BY DEF Idle
      <3> HIDE DEF q
      <3>3. Checked(visit, q)
        BY <3>2 DEF Checked, Reports
      <3> QED
        BY <2>1, <3>1, <3>3, CheckedBegins
    <2>5. ASSUME NEW r \in Requests, NEW v \in Visits, NEW b \in Branches, NEW p, Create(r, v, b, p)
          PROVE  CheckedInv'
      <3> DEFINE q == [Idle EXCEPT !.op = "create", !.visit = v, !.branch = b,
                                   !.provider = p, !.at = now]
      <3>1. Remember(r, q) /\ visit' = visit
        BY <2>5 DEF Create
      <3>2. q.op = "create"
        BY DEF Idle
      <3> HIDE DEF q
      <3>3. Checked(visit, q)
        BY <3>2 DEF Checked
      <3> QED
        BY <2>1, <3>1, <3>3, CheckedBegins
    <2>6. ASSUME NEW r \in Requests, NEW v \in Visits,
                 \/ Treat(r, v) \/ DropItem(r, v) \/ RemoveItem(r, v)
                 \/ \E p \in Providers \cup {None} : Assign(r, v, p)
                 \/ Complete(r, v) \/ Cancel(r, v) \/ Pay(r, v)
          PROVE  CheckedInv'
      <3>1. PICK op \in Writes, p \in Providers \cup {None} :
              /\ Check(r, op, v, p)
              /\ op \in {"treat", "dropItem", "removeItem", "assign", "complete", "cancel"} =>
                   InProgress(v)
              /\ op \in {"treat", "dropItem"} => visit[v].item = "open"
        BY <2>6 DEF Treat, DropItem, RemoveItem, Assign, Complete, Cancel, Pay, Writes
      <3> DEFINE q == [Idle EXCEPT !.op = op, !.visit = v, !.provider = p,
                                   !.at = IF op \in Stamped THEN now ELSE None]
      <3>2. Remember(r, q) /\ visit' = visit
        BY <3>1 DEF Check
      <3>3. q.op = op /\ q.visit = v
        BY DEF Idle
      <3> HIDE DEF q
      <3>4. Checked(visit, q)
        BY <3>1, <3>3 DEF Checked, InProgress
      <3> QED
        BY <2>1, <3>2, <3>4, CheckedBegins
    <2>7. ASSUME visit' = visit, req' = req PROVE CheckedInv'
      <3>1. \A r \in Requests : req'[r] = Idle => Checked(visit, req'[r])
        BY DEF Checked, Idle
      <3> QED
        BY <2>1, <2>7, <3>1 DEF CheckedInv, Watch
    <2>8. ASSUME NEW r \in Requests, Reporting(r) PROVE CheckedInv'
      BY <2>2, <2>3, <2>4, <2>8 DEF Reporting, Dashboard, Performance, Reports
    <2>9. ASSUME NEW r \in Requests, Writing(r) PROVE CheckedInv'
      BY <2>1, <2>5, <2>6, <2>9, CheckedCommit DEF Writing
    <2>10. CASE Tick
      BY <2>7, <2>10 DEF Tick
    <2>11. CASE \E chosen \in SUBSET Branches, z \in Zones : Move(chosen, z)
      BY <2>7, <2>11 DEF Move
    <2>12. CASE \E b \in Branches : SwitchBranch(b)
      BY <2>7, <2>12 DEF SwitchBranch
    <2> QED
      BY <1>2, <2>2, <2>8, <2>9, <2>10, <2>11, <2>12 DEF Next
  <1> QED
    BY <1>1, <1>2

LEMMA CheckedInvariant == Spec => []CheckedInv
  <1>1. Init => CheckedInv
    BY DEF Init, CheckedInv, Checked, Idle
  <1> QED
    BY <1>1, CheckedStep, TypeInvariant, PTL DEF Spec

LEMMA WorkOfDay ==
    ASSUME NEW b, NEW d
    PROVE  /\ CompletedIn(Day1(b, d)) = CompletedOn(visit, zone[b], b, d)
           /\ CompletedIn(Day1(b, d))' = CompletedOn(visit', zone'[b], b, d)
           /\ TreatedIn(Day1(b, d)) = TreatedOn(visit, zone[b], b, d)
           /\ TreatedIn(Day1(b, d))' = TreatedOn(visit', zone'[b], b, d)
           /\ DroppedIn(Day1(b, d)) = DroppedOn(visit, zone[b], b, d)
           /\ DroppedIn(Day1(b, d))' = DroppedOn(visit', zone'[b], b, d)
  BY DEF CompletedIn, TreatedIn, DroppedIn, Within, Day1, OnDay, CompletedOn, TreatedOn, DroppedOn

\* The rows of treatments, and those of treatments that were dropped or removed.
DoneOn(table, z, b, d) ==
    {<<"treatment", v, table[v].treated>> : v \in TreatedOn(table, z, b, d)}
        \cup {<<"dropped", v, table[v].cancelled>> : v \in DroppedOn(table, z, b, d)}

LEMMA DoneOfDay ==
    ASSUME NEW b, NEW d
    PROVE  /\ TreatmentRows(Day1(b, d)) \cup DroppedRows(Day1(b, d)) = DoneOn(visit, zone[b], b, d)
           /\ (TreatmentRows(Day1(b, d)) \cup DroppedRows(Day1(b, d)))'
                = DoneOn(visit', zone'[b], b, d)
  BY WorkOfDay DEF TreatmentRows, DroppedRows, DoneOn

\* What a commit does to what was done on a day that is over: nothing, but for
\* treatments that are removed.
LEMMA WorkStep ==
    ASSUME TypeInv, CheckedInv, NEW r \in Requests, Commit(r), r \notin changed,
           NEW b \in Branches, NEW d \in Int, Over(b, d)
    PROVE  LET z == zone[b] IN
           /\ CompletedOn(visit', z, b, d) = CompletedOn(visit, z, b, d)
           /\ DoneOn(visit', z, b, d) \subseteq DoneOn(visit, z, b, d)
           /\ \A row \in DoneOn(visit, z, b, d) \ DoneOn(visit', z, b, d) :
                InProgress(row[2]) /\ visit'[row[2]].item = "CANCELLED"
  <1> DEFINE v == req[r].visit
             q == req[r]
             old == visit[v]
             new == visit'[v]
             z == zone[b]
  <1>1. /\ v \in Visits /\ q.op \in Writes
        /\ \A o \in Visits \ {v} : visit'[o] = visit[o]
        /\ q.op = "create" => old = NoVisit /\ new.status = "IN_PROGRESS" /\ new.item = "open"
        /\ q.op # "create" => old \in Rows /\ new.branch = old.branch
        /\ q.op = "treat" => new.item = "COMPLETED" /\ new.treated = q.at
        /\ q.op = "dropItem" => new.item = "CANCELLED" /\ new.cancelled = q.at
        /\ q.op = "removeItem" => new.item = "CANCELLED" /\ new.cancelled = now
        /\ q.op = "complete" => new.status = "COMPLETED" /\ new.completed = q.at
        /\ q.op = "cancel" => new.status = "CANCELLED"
        /\ q.op \in {"assign", "complete", "cancel", "pay"} =>
             new.item = old.item /\ new.treated = old.treated /\ new.cancelled = old.cancelled
        /\ q.op \in {"treat", "dropItem", "removeItem", "assign", "pay"} =>
             new.status = old.status /\ new.completed = old.completed
    BY CommitRow
  <1>2. /\ q.op \in {"treat", "dropItem", "complete"} => ~ OnDay(z, d, q.at)
        /\ ~ OnDay(z, d, now)
    BY <1>1, OverIsPast DEF Stamped
  <1>3. /\ q.op \in {"treat", "dropItem", "removeItem", "complete", "cancel"} => old.status = "IN_PROGRESS"
        /\ q.op \in {"treat", "dropItem"} => old.item = "open"
    BY DEF CheckedInv, Checked
  <1>4. NoVisit.status = "none" /\ NoVisit.item = "none"
    BY DEF NoVisit
  <1>5. InProgress(v) <=> old.status = "IN_PROGRESS"
    BY DEF InProgress
  <1> HIDE DEF v, q, old, new, z
  <1>6. q.op \in {"create", "treat", "dropItem", "removeItem", "assign", "complete", "cancel", "pay"}
    BY <1>1 DEF Writes
  <1>7. new.status = "COMPLETED" /\ new.branch = b /\ OnDay(z, d, new.completed)
          <=> old.status = "COMPLETED" /\ old.branch = b /\ OnDay(z, d, old.completed)
    BY <1>1, <1>2, <1>3, <1>4, <1>6
  <1>8. new.item = "COMPLETED" /\ new.branch = b /\ OnDay(z, d, new.treated) =>
          /\ old.item = "COMPLETED" /\ old.branch = b /\ OnDay(z, d, old.treated)
          /\ new.treated = old.treated
    BY <1>1, <1>2, <1>3, <1>4, <1>6
  <1>9. new.item = "CANCELLED" /\ new.branch = b /\ OnDay(z, d, new.cancelled) =>
          /\ old.item = "CANCELLED" /\ old.branch = b /\ OnDay(z, d, old.cancelled)
          /\ new.cancelled = old.cancelled
    BY <1>1, <1>2, <1>3, <1>4, <1>6
  <1>10. \/ q.op = "removeItem" /\ old.status = "IN_PROGRESS" /\ new.item = "CANCELLED"
         \/ /\ old.item = "COMPLETED" /\ old.branch = b /\ OnDay(z, d, old.treated) =>
                 new.item = "COMPLETED" /\ new.branch = b /\ new.treated = old.treated
            /\ old.item = "CANCELLED" /\ old.branch = b /\ OnDay(z, d, old.cancelled) =>
                 new.item = "CANCELLED" /\ new.branch = b /\ new.cancelled = old.cancelled
    BY <1>1, <1>2, <1>3, <1>4, <1>6
  <1>11. CompletedOn(visit', z, b, d) = CompletedOn(visit, z, b, d)
    BY <1>1, <1>7 DEF CompletedOn, new, old
  <1>12. \A o \in TreatedOn(visit', z, b, d) :
           o \in TreatedOn(visit, z, b, d) /\ visit'[o].treated = visit[o].treated
    BY <1>1, <1>8 DEF TreatedOn, new, old
  <1>13. \A o \in DroppedOn(visit', z, b, d) :
           o \in DroppedOn(visit, z, b, d) /\ visit'[o].cancelled = visit[o].cancelled
    BY <1>1, <1>9 DEF DroppedOn, new, old
  <1>14. \A o \in TreatedOn(visit, z, b, d) :
           \/ InProgress(o) /\ visit'[o].item = "CANCELLED"
           \/ o \in TreatedOn(visit', z, b, d) /\ visit'[o].treated = visit[o].treated
    BY <1>1, <1>5, <1>10 DEF TreatedOn, new, old
  <1>15. \A o \in DroppedOn(visit, z, b, d) :
           \/ InProgress(o) /\ visit'[o].item = "CANCELLED"
           \/ o \in DroppedOn(visit', z, b, d) /\ visit'[o].cancelled = visit[o].cancelled
    BY <1>1, <1>5, <1>10 DEF DroppedOn, new, old
  <1>16. DoneOn(visit', z, b, d) \subseteq DoneOn(visit, z, b, d)
    BY <1>12, <1>13 DEF DoneOn
  <1>17. ASSUME NEW row \in DoneOn(visit, z, b, d) \ DoneOn(visit', z, b, d)
         PROVE  InProgress(row[2]) /\ visit'[row[2]].item = "CANCELLED"
    <2>1. CASE \E o \in TreatedOn(visit, z, b, d) : row = <<"treatment", o, visit[o].treated>>
      <3>1. PICK o \in TreatedOn(visit, z, b, d) : row = <<"treatment", o, visit[o].treated>>
        BY <2>1
      <3>2. row[2] = o
        BY <3>1
      <3>3. ~ (o \in TreatedOn(visit', z, b, d) /\ visit'[o].treated = visit[o].treated)
        BY <3>1 DEF DoneOn
      <3>4. InProgress(o) /\ visit'[o].item = "CANCELLED"
        BY <1>14, <3>3
      <3> QED
        BY <3>2, <3>4
    <2>2. CASE \E o \in DroppedOn(visit, z, b, d) : row = <<"dropped", o, visit[o].cancelled>>
      <3>1. PICK o \in DroppedOn(visit, z, b, d) : row = <<"dropped", o, visit[o].cancelled>>
        BY <2>2
      <3>2. row[2] = o
        BY <3>1
      <3>3. ~ (o \in DroppedOn(visit', z, b, d) /\ visit'[o].cancelled = visit[o].cancelled)
        BY <3>1 DEF DoneOn
      <3>4. InProgress(o) /\ visit'[o].item = "CANCELLED"
        BY <1>15, <3>3
      <3> QED
        BY <3>2, <3>4
    <2> QED
      BY <2>1, <2>2 DEF DoneOn
  <1> QED
    BY <1>11, <1>16, <1>17 DEF z

\* What was done on a day that is over stays as it is, unless two requests write
\* at once, but for treatments that are removed from a visit still in progress:
\* a transition finds what it checked and is stamped later than the day
\* (visits.service.ts:327-338, 371-398, 430-464).
THEOREM WorkSettledHolds == Spec => WorkSettled
  <1> DEFINE Settled ==
        \A r \in Requests, b \in Branches, d \in Dates :
          Commit(r) /\ r \notin changed /\ Over(b, d) =>
              LET Done == TreatmentRows(Day1(b, d)) \cup DroppedRows(Day1(b, d)) IN
              /\ CompletedIn(Day1(b, d))' = CompletedIn(Day1(b, d))
              /\ Done' \subseteq Done
              /\ \A row \in Done \ Done' :
                    InProgress(row[2]) /\ visit'[row[2]].item = "CANCELLED"
  <1>1. TypeInv /\ CheckedInv => Settled
    <2> SUFFICES ASSUME TypeInv, CheckedInv, NEW r \in Requests, NEW b \in Branches, NEW d \in Dates,
                        Commit(r), r \notin changed, Over(b, d)
                 PROVE  LET Done == TreatmentRows(Day1(b, d)) \cup DroppedRows(Day1(b, d)) IN
                        /\ CompletedIn(Day1(b, d))' = CompletedIn(Day1(b, d))
                        /\ Done' \subseteq Done
                        /\ \A row \in Done \ Done' :
                              InProgress(row[2]) /\ visit'[row[2]].item = "CANCELLED"
      OBVIOUS
    <2>1. zone' = zone /\ d \in Int
      BY TimeAssumption DEF Commit, Places
    <2> QED
      BY <2>1, WorkStep, WorkOfDay, DoneOfDay
  <1>2. Spec => [][Settled]_vars
    <2> HIDE DEF Settled
    <2> QED
      BY <1>1, TypeInvariant, CheckedInvariant, PTL
  <1> QED
    BY <1>2 DEF WorkSettled

-----------------------------------------------------------------------------
(* Lists and summaries.                                                     *)

\* What a report counts, of the visits that a table has.
WithinOf(table, windows, v, t) ==
    table[v].branch \in DOMAIN windows /\ t # None /\ InWindow(windows[table[v].branch], t)

CreationsOf(table, windows) ==
    {<<"visit", v, table[v].created>> :
        v \in {o \in Visits : WithinOf(table, windows, o, table[o].created)}}
CompletionsOf(table, windows) ==
    {<<"completion", v, table[v].completed>> :
        v \in {o \in Visits : /\ table[o].status = "COMPLETED"
                              /\ WithinOf(table, windows, o, table[o].completed)}}
TreatmentsOf(table, windows) ==
    {<<"treatment", v, table[v].treated>> :
        v \in {o \in Visits : /\ table[o].item = "COMPLETED"
                              /\ WithinOf(table, windows, o, table[o].treated)}}
DropsOf(table, windows) ==
    {<<"dropped", v, table[v].cancelled>> :
        v \in {o \in Visits : /\ table[o].item = "CANCELLED"
                              /\ WithinOf(table, windows, o, table[o].cancelled)}}
PaymentsOf(table, windows) ==
    {<<"payment", v, table[v].paid>> :
        v \in {o \in Visits : WithinOf(table, windows, o, table[o].paid)}}

ActiveOf(table, windows) ==
    {<<"active", v, table[v].created>> :
        v \in {o \in Visits : table[o].status = "IN_PROGRESS" /\ table[o].branch \in DOMAIN windows}}
UnpaidOf(table, visits) ==
    {<<"unpaid", v, table[v].completed>> :
        v \in {o \in visits : table[o].status = "COMPLETED" /\ table[o].paid = None}}
CompletedOf(table, windows) ==
    {o \in Visits : /\ table[o].status = "COMPLETED"
                    /\ WithinOf(table, windows, o, table[o].completed)}

SummaryOf(table, op, windows) ==
    CreationsOf(table, windows) \cup TreatmentsOf(table, windows)
        \cup PaymentsOf(table, windows) \cup
        IF op = "salon"
        THEN CompletionsOf(table, windows) \cup UnpaidOf(table, CompletedOf(table, windows))
        ELSE ActiveOf(table, windows)
                \cup UnpaidOf(table, {v \in Visits : table[v].branch \in DOMAIN windows})

DayOf(windows, b) == [x \in {b} |-> windows[x]]

ProvidersIn(table)   == [v \in Visits |-> table[v].provider]
TheirsIn(table, rows) == {row \in rows : table[row[2]].provider # None}

AnswersOf(table, windows, query) ==
    CASE query = "top"       -> First(TreatmentsOf(table, windows), NameOf)
      [] query = "providers" ->
            First(TheirsIn(table, TreatmentsOf(table, windows) \cup DropsOf(table, windows)),
                  ProvidersIn(table))
      [] OTHER -> {CreationsOf(table, DayOf(windows, query))
                    \cup TreatmentsOf(table, DayOf(windows, query))
                    \cup PaymentsOf(table, DayOf(windows, query))}

LEMMA RowsOfTable ==
    ASSUME NEW windows
    PROVE  /\ CreationRows(windows) = CreationsOf(visit, windows)
           /\ CompletionRows(windows) = CompletionsOf(visit, windows)
           /\ TreatmentRows(windows) = TreatmentsOf(visit, windows)
           /\ DroppedRows(windows) = DropsOf(visit, windows)
           /\ PaymentRows(windows) = PaymentsOf(visit, windows)
  <1>1. CreationRows(windows) = CreationsOf(visit, windows)
    BY DEF CreationRows, CreatedIn, Within, CreationsOf, WithinOf
  <1>2. CompletionRows(windows) = CompletionsOf(visit, windows)
    BY DEF CompletionRows, CompletedIn, Within, CompletionsOf, WithinOf
  <1>3. TreatmentRows(windows) = TreatmentsOf(visit, windows)
    BY DEF TreatmentRows, TreatedIn, Within, TreatmentsOf, WithinOf
  <1>4. DroppedRows(windows) = DropsOf(visit, windows)
    BY DEF DroppedRows, DroppedIn, Within, DropsOf, WithinOf
  <1>5. PaymentRows(windows) = PaymentsOf(visit, windows)
    BY DEF PaymentRows, PaidIn, Within, PaymentsOf, WithinOf
  <1> QED
    BY <1>1, <1>2, <1>3, <1>4, <1>5

LEMMA AnswersOfTable ==
    ASSUME NEW windows
    PROVE  /\ \A op : SummaryRows(op, windows) = SummaryOf(visit, op, windows)
           /\ \A query : Answers(windows, query) = AnswersOf(visit, windows, query)
  <1>1. ActiveRows(windows) = ActiveOf(visit, windows)
    BY DEF ActiveRows, InProgress, ActiveOf
  <1>2. \A visits : UnpaidRows(visits) = UnpaidOf(visit, visits)
    BY DEF UnpaidRows, UnpaidOf
  <1>3. CompletedIn(windows) = CompletedOf(visit, windows)
    BY DEF CompletedIn, Within, CompletedOf, WithinOf
  <1>4. \A op : SummaryRows(op, windows) = SummaryOf(visit, op, windows)
    BY <1>1, <1>2, <1>3, RowsOfTable DEF SummaryRows, SummaryOf
  <1>5. ProviderOf = ProvidersIn(visit) /\ \A rows : OfSomebody(rows) = TheirsIn(visit, rows)
    BY DEF ProviderOf, ProvidersIn, OfSomebody, TheirsIn
  <1>6. ASSUME NEW query PROVE Answers(windows, query) = AnswersOf(visit, windows, query)
    <2>1. [b \in {query} |-> windows[b]] = DayOf(windows, query)
      BY DEF DayOf
    <2> QED
      BY <1>5, <2>1, RowsOfTable DEF Answers, AnswersOf
  <1> QED
    BY <1>4, <1>6

\* A report that is not yet answered has made the queries it has not left, after
\* its summary.
Asking(q) ==
    q.op \in Reports =>
        /\ DOMAIN q.windows # {}
        /\ DOMAIN q.lists = QueriesOf(q.op, DOMAIN q.windows)
        /\ q.left \subseteq DOMAIN q.lists
        /\ q.left # DOMAIN q.lists => q.summary # None

\* What it has is what it might get now.
Current(table, q) ==
    q.op \in Reports =>
        /\ q.summary \in {None, SummaryOf(table, q.op, q.windows)}
        /\ \A x \in DOMAIN q.lists \ q.left : q.lists[x] \in AnswersOf(table, q.windows, x)

\* What is never taken back: that a visit was created, and that it was paid.
KeptOf(table, windows) == CreationsOf(table, windows) \cup PaymentsOf(table, windows)

\* What the summary of a salon has of it is still there at some branch, and is in
\* the list of that branch if there is one already.
Held(table, q) ==
    q.op = "salon" /\ q.summary # None =>
        \A row \in q.summary : row[1] \in {"visit", "payment"} =>
            \E b \in DOMAIN q.windows :
                row \in KeptOf(table, DayOf(q.windows, b)) /\ (b \in q.left \/ row \in q.lists[b])

ReportsInv ==
    \A r \in Requests : /\ Asking(req[r]) /\ Held(visit, req[r])
                        /\ Current(visit, req[r]) \/ r \in changed

\* Each kind of row says what it is.
LEMMA KindsOfRows ==
    ASSUME NEW table, NEW windows
    PROVE  /\ \A row \in CreationsOf(table, windows) : row[1] = "visit"
           /\ \A row \in CompletionsOf(table, windows) : row[1] = "completion"
           /\ \A row \in TreatmentsOf(table, windows) : row[1] = "treatment"
           /\ \A row \in DropsOf(table, windows) : row[1] = "dropped"
           /\ \A row \in PaymentsOf(table, windows) : row[1] = "payment"
           /\ \A row \in ActiveOf(table, windows) : row[1] = "active"
           /\ \A visits : \A row \in UnpaidOf(table, visits) : row[1] = "unpaid"
  BY DEF CreationsOf, CompletionsOf, TreatmentsOf, DropsOf, PaymentsOf, ActiveOf, UnpaidOf

\* What is counted over all branches is what is counted at one of them.
LEMMA BranchByBranch ==
    ASSUME NEW table, NEW windows, NEW row
    PROVE  /\ row \in CreationsOf(table, windows) <=>
                \E b \in DOMAIN windows : row \in CreationsOf(table, DayOf(windows, b))
           /\ row \in TreatmentsOf(table, windows) <=>
                \E b \in DOMAIN windows : row \in TreatmentsOf(table, DayOf(windows, b))
           /\ row \in PaymentsOf(table, windows) <=>
                \E b \in DOMAIN windows : row \in PaymentsOf(table, DayOf(windows, b))
  <1>1. ASSUME NEW v, NEW t
        PROVE  WithinOf(table, windows, v, t) <=>
                 \E b \in DOMAIN windows : WithinOf(table, DayOf(windows, b), v, t)
    BY DEF WithinOf, DayOf
  <1>2. row \in CreationsOf(table, windows) <=>
          \E b \in DOMAIN windows : row \in CreationsOf(table, DayOf(windows, b))
    BY <1>1 DEF CreationsOf
  <1>3. row \in TreatmentsOf(table, windows) <=>
          \E b \in DOMAIN windows : row \in TreatmentsOf(table, DayOf(windows, b))
    BY <1>1 DEF TreatmentsOf
  <1>4. row \in PaymentsOf(table, windows) <=>
          \E b \in DOMAIN windows : row \in PaymentsOf(table, DayOf(windows, b))
    BY <1>1 DEF PaymentsOf
  <1> QED
    BY <1>2, <1>3, <1>4

\* Of the kinds of rows that are listed, a summary has what there is of each.
LEMMA SummaryKinds ==
    ASSUME NEW table, NEW op, NEW windows
    PROVE  /\ Of(SummaryOf(table, op, windows), {"visit", "payment"}) = KeptOf(table, windows)
           /\ Of(SummaryOf(table, op, windows), {"treatment"}) = TreatmentsOf(table, windows)
           /\ Of(SummaryOf(table, op, windows), {"visit", "treatment", "payment"})
                = KeptOf(table, windows) \cup TreatmentsOf(table, windows)
  BY KindsOfRows DEF SummaryOf, Of, KeptOf

\* A commit takes back neither a creation nor a payment.
LEMMA KeptCommit ==
    ASSUME TypeInv, NEW r \in Requests, Commit(r), NEW windows
    PROVE  KeptOf(visit, windows) \subseteq KeptOf(visit', windows)
  <1>1. PICK v, old, new :
          /\ old = visit[v] /\ new = visit'[v] /\ v \in Visits
          /\ \A o \in Visits \ {v} : visit'[o] = visit[o]
          /\ \/ old = NoVisit
             \/ new.branch = old.branch /\ new.created = old.created
          /\ old.paid = None \/ new.paid = old.paid
    <2> DEFINE v == req[r].visit
               q == req[r]
               old == visit[v]
               new == visit'[v]
    <2>1. /\ v \in Visits
          /\ \A o \in Visits \ {v} : visit'[o] = visit[o]
          /\ q.op = "create" => old = NoVisit
          /\ q.op # "create" => new.branch = old.branch /\ new.created = old.created
          /\ q.op = "pay" => old.paid = None
          /\ q.op \notin {"create", "pay"} => new.paid = old.paid
      BY CommitRow
    <2>2. NoVisit.paid = None
      BY DEF NoVisit
    <2> HIDE DEF v, q, old, new
    <2>3. /\ old = NoVisit \/ (new.branch = old.branch /\ new.created = old.created)
          /\ old.paid = None \/ new.paid = old.paid
      BY <2>1, <2>2
    <2> QED
      BY <2>1, <2>3 DEF old, new
  <1>2. NoVisit.created = None /\ NoVisit.paid = None
    BY DEF NoVisit
  <1>3. ASSUME NEW o \in Visits, WithinOf(visit, windows, o, visit[o].created)
        PROVE  WithinOf(visit', windows, o, visit'[o].created) /\ visit'[o].created = visit[o].created
    BY <1>1, <1>2, <1>3 DEF WithinOf
  <1>4. ASSUME NEW o \in Visits, WithinOf(visit, windows, o, visit[o].paid)
        PROVE  WithinOf(visit', windows, o, visit'[o].paid) /\ visit'[o].paid = visit[o].paid
    BY <1>1, <1>2, <1>4 DEF WithinOf
  <1>5. CreationsOf(visit, windows) \subseteq CreationsOf(visit', windows)
    BY <1>3 DEF CreationsOf
  <1>6. PaymentsOf(visit, windows) \subseteq PaymentsOf(visit', windows)
    BY <1>4 DEF PaymentsOf
  <1> QED
    BY <1>5, <1>6 DEF KeptOf

LEMMA ReportBegins ==
    ASSUME TypeInv, ReportsInv, NEW r \in Requests, NEW q, Remember(r, q), Watch,
           visit' = visit, Asking(q), Held(visit, q), Current(visit, q) \/ r \in changed
    PROVE  ReportsInv'
  <1>1. \A o \in Requests : req'[o] = IF o = r THEN q ELSE req[o]
    BY DEF TypeInv, WindowsTyped, Remember
  <1>2. \A o \in Requests : Current(visit', req'[o]) \/ o \in changed'
    <2> SUFFICES ASSUME NEW o \in Requests, o \in changed, ~ Current(visit, req'[o])
                 PROVE  o \in changed'
      BY <1>1 DEF ReportsInv
    <2>1. req'[o] # Idle
      BY DEF Current, Idle, Reports
    <2> QED
      BY <2>1 DEF Watch
  <1> QED
    BY <1>1, <1>2 DEF ReportsInv

LEMMA ReportCommit ==
    ASSUME TypeInv, ReportsInv, NEW r \in Requests, Commit(r), Watch
    PROVE  ReportsInv'
  <1>1. \A o \in Requests : req'[o] = IF o = r THEN Idle ELSE req[o]
    BY DEF TypeInv, WindowsTyped, Commit, Finish, Remember
  <1>2. Asking(Idle) /\ \A table : Held(table, Idle) /\ Current(table, Idle)
    BY DEF Asking, Held, Current, Idle, Reports
  <1>3. \A o \in Requests : Current(visit', req'[o]) \/ o \in changed'
    <2> SUFFICES ASSUME NEW o \in Requests, ~ Current(visit', req'[o])
                 PROVE  o \in changed'
      OBVIOUS
    <2>1. o # r /\ req'[o] = req[o] /\ req'[o] # Idle
      BY <1>1, <1>2
    <2>2. o \in changed \/ visit' # visit
      BY <2>1 DEF ReportsInv
    <2> QED
      BY <2>1, <2>2 DEF Watch
  <1>4. ASSUME NEW o \in Requests PROVE Held(visit', req[o])
    <2>1. Held(visit, req[o])
      BY DEF ReportsInv
    <2>2. \A b : KeptOf(visit, DayOf(req[o].windows, b)) \subseteq KeptOf(visit', DayOf(req[o].windows, b))
      BY KeptCommit
    <2> QED
      BY <2>1, <2>2 DEF Held
  <1>5. \A o \in Requests : Asking(req'[o]) /\ Held(visit', req'[o])
    BY <1>1, <1>2, <1>4 DEF ReportsInv
  <1> QED
    BY <1>3, <1>5 DEF ReportsInv

LEMMA AskReport ==
    ASSUME TypeInv, ReportsInv, NEW r \in Requests, NEW op \in Reports, NEW chosen, NEW days,
           Ask(r, op, chosen, days), Watch
    PROVE  ReportsInv'
  <1> DEFINE q == [Idle EXCEPT !.op = op, !.windows = WindowsOf(chosen, days),
                               !.left = QueriesOf(op, chosen),
                               !.lists = [x \in QueriesOf(op, chosen) |-> {}]]
  <1>1. Remember(r, q) /\ visit' = visit /\ chosen # {}
    BY DEF Ask
  <1>2. /\ q.op = op /\ DOMAIN q.windows = chosen /\ q.left = QueriesOf(op, chosen)
        /\ q.summary = None /\ DOMAIN q.lists = QueriesOf(op, chosen)
    BY DEF Idle, WindowsOf
  <1> HIDE DEF q
  <1>3. Asking(q) /\ Held(visit, q) /\ Current(visit, q)
    BY <1>1, <1>2 DEF Asking, Held, Current
  <1> QED
    BY <1>1, <1>3, ReportBegins

LEMMA SummariseReport ==
    ASSUME TypeInv, ReportsInv, NEW r \in Requests, Summarise(r), Watch
    PROVE  ReportsInv'
  <1>1. PICK q : /\ Remember(r, q) /\ visit' = visit /\ Alike(q, req[r])
                 /\ q.summary = SummaryRows(req[r].op, req[r].windows)
                 /\ q.left = req[r].left /\ q.lists = req[r].lists
    BY SummariseRemembers DEF TypeInv
  <1>2. Asking(req[r]) /\ (Current(visit, req[r]) \/ r \in changed)
    BY DEF ReportsInv
  <1>3. req[r].summary = None /\ req[r].op \in Reports
    BY DEF Summarise
  <1>4. q.summary = SummaryOf(visit, q.op, q.windows)
    <2>1. PICK w, op : w = req[r].windows /\ op = req[r].op
      OBVIOUS
    <2>2. SummaryRows(op, w) = SummaryOf(visit, op, w)
      BY AnswersOfTable
    <2> QED
      BY <1>1, <2>1, <2>2 DEF Alike
  <1>5. Asking(q) /\ (Current(visit, q) \/ r \in changed)
    BY <1>1, <1>2, <1>3, <1>4 DEF Asking, Current, Alike
  <1>6. Held(visit, q)
    <2> SUFFICES ASSUME q.op = "salon", NEW row \in q.summary, row[1] \in {"visit", "payment"}
                 PROVE  \E b \in DOMAIN q.windows :
                          row \in KeptOf(visit, DayOf(q.windows, b)) /\ b \in q.left
      BY DEF Held
    <2>1. q.left = DOMAIN q.windows
      BY <1>1, <1>2, <1>3 DEF Asking, Alike, QueriesOf
    <2>2. row \in Of(SummaryOf(visit, q.op, q.windows), {"visit", "payment"})
      BY <1>4 DEF Of
    <2>3. row \in KeptOf(visit, q.windows)
      BY <2>2, SummaryKinds
    <2>4. PICK w : w = q.windows
      OBVIOUS
    <2>5. \E b \in DOMAIN w : row \in KeptOf(visit, DayOf(w, b))
      BY <2>3, <2>4, BranchByBranch DEF KeptOf
    <2> QED
      BY <2>1, <2>4, <2>5
  <1> QED
    BY <1>1, <1>5, <1>6, ReportBegins

LEMMA QueryReport ==
    ASSUME TypeInv, ReportsInv, NEW r \in Requests, NEW query \in req[r].left,
           Query(r, query), Watch
    PROVE  ReportsInv'
  <1>0. PICK list \in Answers(req[r].windows, query) : \E q :
                 /\ Remember(r, q) /\ visit' = visit /\ Alike(q, req[r])
                 /\ q.summary = req[r].summary
                 /\ q.left = req[r].left \ {query}
                 /\ q.lists = [req[r].lists EXCEPT ![query] = list]
    BY QueryRemembers DEF TypeInv
  <1>1. PICK q : /\ Remember(r, q) /\ visit' = visit /\ Alike(q, req[r])
                 /\ q.summary = req[r].summary
                 /\ q.left = req[r].left \ {query}
                 /\ q.lists = [req[r].lists EXCEPT ![query] = list]
    BY <1>0
  <1>2. Asking(req[r]) /\ Held(visit, req[r]) /\ (Current(visit, req[r]) \/ r \in changed)
    BY DEF ReportsInv
  <1>3. req[r].summary # None
    BY DEF Query
  <1>4. list \in AnswersOf(visit, req[r].windows, query)
    <2>1. PICK w : w = req[r].windows
      OBVIOUS
    <2>2. Answers(w, query) = AnswersOf(visit, w, query)
      BY AnswersOfTable
    <2> QED
      BY <2>1, <2>2
  <1>5. Asking(q)
    BY <1>1, <1>2, <1>3 DEF Asking, Alike
  <1>6. ASSUME q.op \in Reports
        PROVE  /\ DOMAIN q.lists = DOMAIN req[r].lists /\ query \in DOMAIN q.lists
               /\ q.lists[query] = list
               /\ \A x \in DOMAIN q.lists \ {query} : q.lists[x] = req[r].lists[x]
    <2>1. query \in DOMAIN req[r].lists
      BY <1>1, <1>2, <1>6 DEF Asking, Alike
    <2> QED
      BY <1>1, <2>1
  <1>7. ASSUME Current(visit, req[r]) PROVE Current(visit, q)
    <2>1. SUFFICES ASSUME q.op \in Reports PROVE Current(visit, q)
      BY DEF Current
    <2>2. q.op = req[r].op /\ q.windows = req[r].windows
      BY <1>1 DEF Alike
    <2>3. q.summary \in {None, SummaryOf(visit, q.op, q.windows)}
      BY <1>1, <1>7, <2>1, <2>2 DEF Current
    <2>4. ASSUME NEW x \in DOMAIN q.lists \ q.left
          PROVE  q.lists[x] \in AnswersOf(visit, q.windows, x)
      <3>1. CASE x = query
        BY <1>4, <1>6, <2>1, <2>2, <3>1
      <3>2. CASE x # query
        BY <1>1, <1>6, <1>7, <2>1, <2>2, <3>2 DEF Current
      <3> QED
        BY <3>1, <3>2
    <2> QED
      BY <2>3, <2>4 DEF Current
  <1>8. Held(visit, q)
    <2> SUFFICES ASSUME q.op = "salon", NEW row \in q.summary, row[1] \in {"visit", "payment"}
                 PROVE  \E b \in DOMAIN q.windows :
                          /\ row \in KeptOf(visit, DayOf(q.windows, b))
                          /\ b \in q.left \/ row \in q.lists[b]
      BY DEF Held
    <2>1. q.op = req[r].op /\ q.windows = req[r].windows /\ q.op \in Reports
      BY <1>1 DEF Alike, Reports
    <2>2. PICK b \in DOMAIN q.windows :
            /\ row \in KeptOf(visit, DayOf(q.windows, b))
            /\ b \in req[r].left \/ row \in req[r].lists[b]
      BY <1>1, <1>2, <1>3, <2>1 DEF Held
    <2>3. b \in DOMAIN q.lists
      BY <1>5, <2>1 DEF Asking, QueriesOf
    <2>4. CASE b = query
      <3>1. b \in Branches
        BY <2>1 DEF TypeInv, MemoryRight, Formed
      <3>2. b # "top" /\ b # "providers"
        BY <3>1, NamesAssumption
      <3>3. list = CreationsOf(visit, DayOf(q.windows, b))
                     \cup TreatmentsOf(visit, DayOf(q.windows, b))
                     \cup PaymentsOf(visit, DayOf(q.windows, b))
        BY <1>4, <2>1, <2>4, <3>2 DEF AnswersOf
      <3>4. row \in q.lists[b]
        BY <1>6, <2>1, <2>2, <2>4, <3>3 DEF KeptOf
      <3> QED
        BY <2>2, <3>4
    <2>5. CASE b # query
      BY <1>1, <1>6, <2>1, <2>2, <2>3, <2>5
    <2> QED
      BY <2>4, <2>5
  <1> QED
    BY <1>1, <1>2, <1>5, <1>7, <1>8, ReportBegins

LEMMA ReportsStep == TypeInv /\ ReportsInv /\ [Next]_vars => ReportsInv'
  <1> SUFFICES ASSUME TypeInv, ReportsInv, [Next]_vars PROVE ReportsInv'
    OBVIOUS
  <1>1. CASE UNCHANGED vars
    BY <1>1 DEF vars, ReportsInv
  <1>2. CASE Next
    <2>1. Watch
      BY <1>2 DEF Next
    <2>2. ASSUME NEW r \in Requests, NEW q, Remember(r, q), visit' = visit, q.op \notin Reports
          PROVE  ReportsInv'
      <3>1. Asking(q) /\ Held(visit, q) /\ Current(visit, q)
        BY <2>2 DEF Asking, Held, Current, Reports
      <3> QED
        BY <2>1, <2>2, <3>1, ReportBegins
    <2>3. ASSUME NEW r \in Requests, Reply(r) \/ Stop(r) PROVE ReportsInv'
      BY <2>2, <2>3 DEF Reply, Stop, Finish, Idle, Reports
    <2>4. ASSUME NEW r \in Requests, NEW v \in Visits, NEW b \in Branches, NEW p, Create(r, v, b, p)
          PROVE  ReportsInv'
      <3> DEFINE q == [Idle EXCEPT !.op = "create", !.visit = v, !.branch = b,
                                   !.provider = p, !.at = now]
      <3>1. Remember(r, q) /\ visit' = visit
        BY <2>4 DEF Create
      <3>2. q.op \notin Reports
        BY DEF Idle, Reports
      <3> HIDE DEF q
      <3> QED
        BY <2>2, <3>1, <3>2
    <2>5. ASSUME NEW r \in Requests, NEW v \in Visits,
                 \/ Treat(r, v) \/ DropItem(r, v) \/ RemoveItem(r, v)
                 \/ \E p \in Providers \cup {None} : Assign(r, v, p)
                 \/ Complete(r, v) \/ Cancel(r, v) \/ Pay(r, v)
          PROVE  ReportsInv'
      <3>1. PICK op \in Writes, p \in Providers \cup {None} : Check(r, op, v, p)
        BY <2>5 DEF Treat, DropItem, RemoveItem, Assign, Complete, Cancel, Pay, Writes
      <3> DEFINE q == [Idle EXCEPT !.op = op, !.visit = v, !.provider = p,
                                   !.at = IF op \in Stamped THEN now ELSE None]
      <3>2. Remember(r, q) /\ visit' = visit
        BY <3>1 DEF Check
      <3>3. q.op = op
        BY DEF Idle
      <3> HIDE DEF q
      <3> QED
        BY <2>2, <3>2, <3>3 DEF Writes, Reports
    <2>6. ASSUME visit' = visit, req' = req PROVE ReportsInv'
      <3>1. \A r \in Requests : req'[r] = Idle => Current(visit, req'[r])
        BY DEF Current, Idle, Reports
      <3> QED
        BY <2>1, <2>6, <3>1 DEF ReportsInv, Watch
    <2>7. ASSUME NEW r \in Requests, Reporting(r) PROVE ReportsInv'
      BY <2>1, <2>3, <2>7, AskReport, SummariseReport, QueryReport
         DEF Reporting, Dashboard, Performance, Reports
    <2>8. ASSUME NEW r \in Requests, Writing(r) PROVE ReportsInv'
      BY <2>1, <2>4, <2>5, <2>8, ReportCommit DEF Writing
    <2>9. CASE Tick
      BY <2>6, <2>9 DEF Tick
    <2>10. CASE \E chosen \in SUBSET Branches, z \in Zones : Move(chosen, z)
      BY <2>6, <2>10 DEF Move
    <2>11. CASE \E b \in Branches : SwitchBranch(b)
      BY <2>6, <2>11 DEF SwitchBranch
    <2> QED
      BY <1>2, <2>3, <2>7, <2>8, <2>9, <2>10, <2>11 DEF Next
  <1> QED
    BY <1>1, <1>2

LEMMA ReportsInvariant == Spec => []ReportsInv
  <1>1. Init => ReportsInv
    BY DEF Init, ReportsInv, Asking, Held, Current, Idle, Reports
  <1> QED
    BY <1>1, ReportsStep, TypeInvariant, PTL DEF Spec

\* A list of the first groups leads what it is made of.
LEMMA FirstLeads ==
    ASSUME NEW rows, NEW column, NEW list \in First(rows, column)
    PROVE  Leads(list, rows, column)
  <1>1. PICK listed \in SUBSET Groups(rows, column) :
          /\ list = {row \in rows : column[row[2]] \in listed}
          /\ \A out \in Groups(rows, column) \ listed :
                /\ Cardinality(listed) = Limit
                /\ \A g \in listed : Count(rows, column, g) >= Count(rows, column, out)
    BY DEF First
  <1>2. Groups(list, column) = listed
    BY <1>1 DEF Groups
  <1>3. list \subseteq rows
    BY <1>1
  <1>4. ASSUME NEW row \in rows \ list
        PROVE  column[row[2]] \in Groups(rows, column) \ listed
    BY <1>1, <1>4 DEF Groups
  <1>5. Cardinality(Groups(list, column)) < Limit => list = rows
    <2> SUFFICES ASSUME Cardinality(listed) < Limit, NEW row \in rows \ list PROVE FALSE
      BY <1>2, <1>3
    <2> QED
      BY <1>1, <1>4, LimitAssumption
  <1>6. ASSUME NEW row \in rows \ list, NEW other \in list
        PROVE  Count(rows, column, column[row[2]]) <= Count(list, column, column[other[2]])
    <2>1. column[other[2]] \in listed
      BY <1>1
    <2>2. Count(rows, column, column[other[2]]) >= Count(rows, column, column[row[2]])
      BY <1>1, <1>4, <2>1
    <2>3. {x \in rows : x[1] = "treatment" /\ column[x[2]] = column[other[2]]}
            = {x \in list : x[1] = "treatment" /\ column[x[2]] = column[other[2]]}
      BY <1>1, <2>1
    <2>4. Count(rows, column, column[other[2]]) = Count(list, column, column[other[2]])
      BY <2>3 DEF Count
    <2> QED
      BY <2>2, <2>4
  <1> QED
    BY <1>3, <1>5, <1>6 DEF Leads

\* The days of the salon's performance.
LEMMA DaysAdd ==
    ASSUME TypeInv, ReportsInv, NEW r \in Requests, req[r].op = "salon", req[r].left = {}
    PROVE  DaysAddUp(req[r], r \in changed)
  <1> DEFINE q == req[r]
             w == q.windows
  <1>1. Asking(q) /\ Held(visit, q) /\ (Current(visit, q) \/ r \in changed)
    BY DEF ReportsInv
  <1>2. DOMAIN w \subseteq Branches /\ DOMAIN q.lists = DOMAIN w /\ DOMAIN w # {}
    BY <1>1 DEF TypeInv, MemoryRight, Formed, Asking, QueriesOf, Reports
  <1>3. q.summary # None
    BY <1>1, <1>2 DEF Asking, Reports
  <1>4. Of(q.summary, {"visit", "payment"}) \subseteq Breakdown(q)
    <2> SUFFICES ASSUME NEW row \in q.summary, row[1] \in {"visit", "payment"}
                 PROVE  row \in Breakdown(q)
      BY DEF Of
    <2>1. PICK b \in DOMAIN w : row \in q.lists[b]
      BY <1>1, <1>3 DEF Held
    <2> QED
      BY <1>2, <2>1 DEF Breakdown
  <1>5. ASSUME r \notin changed
        PROVE  Breakdown(q) = Of(q.summary, {"visit", "treatment", "payment"})
    <2>1. Current(visit, q)
      BY <1>1, <1>5
    <2>2. q.summary = SummaryOf(visit, q.op, w)
      BY <1>3, <2>1 DEF Current, Reports
    <2>3. Of(q.summary, {"visit", "treatment", "payment"})
            = KeptOf(visit, w) \cup TreatmentsOf(visit, w)
      BY <2>2, SummaryKinds
    <2>4. \A b \in DOMAIN w : q.lists[b] = CreationsOf(visit, DayOf(w, b))
            \cup TreatmentsOf(visit, DayOf(w, b)) \cup PaymentsOf(visit, DayOf(w, b))
      BY <1>2, <2>1, NamesAssumption DEF Current, AnswersOf, Reports
    <2>5. PICK x, lists, table : x = w /\ lists = q.lists /\ table = visit
      OBVIOUS
    <2> HIDE DEF q, w
    <2>6. ASSUME NEW row
          PROVE  row \in UNION {lists[b] : b \in DOMAIN lists} <=>
                   row \in KeptOf(table, x) \cup TreatmentsOf(table, x)
      <3>1. /\ row \in CreationsOf(table, x) <=>
                 \E b \in DOMAIN x : row \in CreationsOf(table, DayOf(x, b))
            /\ row \in TreatmentsOf(table, x) <=>
                 \E b \in DOMAIN x : row \in TreatmentsOf(table, DayOf(x, b))
            /\ row \in PaymentsOf(table, x) <=>
                 \E b \in DOMAIN x : row \in PaymentsOf(table, DayOf(x, b))
        BY BranchByBranch
      <3>2. DOMAIN lists = DOMAIN x
        BY <1>2, <2>5
      <3>3. \A b \in DOMAIN x : lists[b] = CreationsOf(table, DayOf(x, b))
              \cup TreatmentsOf(table, DayOf(x, b)) \cup PaymentsOf(table, DayOf(x, b))
        BY <2>4, <2>5
      <3> QED
        BY <3>1, <3>2, <3>3 DEF KeptOf
    <2>7. UNION {lists[b] : b \in DOMAIN lists} = KeptOf(table, x) \cup TreatmentsOf(table, x)
      BY <2>6
    <2> QED
      BY <2>3, <2>5, <2>7 DEF Breakdown
  <1> QED
    BY <1>4, <1>5 DEF DaysAddUp

\* The lists of the dashboard.
LEMMA ListsAdd ==
    ASSUME TypeInv, ReportsInv, NEW r \in Requests, req[r].op = "dashboard", req[r].left = {},
           r \notin changed
    PROVE  ListsAddUp(req[r])
  <1> DEFINE q == req[r]
             w == q.windows
  <1>1. Asking(q) /\ Current(visit, q)
    BY DEF ReportsInv
  <1>2. DOMAIN q.lists = {"top", "providers"}
    BY <1>1 DEF Asking, QueriesOf, Reports
  <1>3. q.summary = SummaryOf(visit, q.op, w)
    BY <1>1, <1>2 DEF Asking, Current, Reports
  <1>4. Of(q.summary, {"treatment"}) = TreatmentsOf(visit, w)
    BY <1>3, SummaryKinds
  <1>5. q.lists["top"] \in First(TreatmentsOf(visit, w), NameOf)
    BY <1>1, <1>2 DEF Current, AnswersOf, Reports
  <1>6. q.lists["providers"] \in
          First(TheirsIn(visit, TreatmentsOf(visit, w) \cup DropsOf(visit, w)), ProvidersIn(visit))
    BY <1>1, <1>2 DEF Current, AnswersOf, Reports
  <1>7. DroppedRows(w) = DropsOf(visit, w)
    BY DEF DroppedRows, DroppedIn, Within, DropsOf, WithinOf
  <1>8. TheirsIn(visit, TreatmentsOf(visit, w) \cup DropsOf(visit, w))
          = OfSomebody(TreatmentsOf(visit, w)) \cup OfSomebody(DropsOf(visit, w))
    BY DEF TheirsIn, OfSomebody
  <1>9. ProvidersIn(visit) = ProviderOf
    BY DEF ProvidersIn, ProviderOf
  <1> QED
    BY <1>4, <1>5, <1>6, <1>7, <1>8, <1>9, FirstLeads DEF ListsAddUp

\* The lists of a report have what its summary counts, for any number of
\* branches, visits, providers and lines: those of the salon's performance the
\* same visits and payments however many requests write, as neither is ever taken
\* back, and those of the dashboard its treatments (reports.service.ts:26-66,
\* 68-99, 155-259).
THEOREM AddsUpHolds == Spec => []AddsUp
  <1>1. TypeInv /\ ReportsInv => AddsUp
    BY DaysAdd, ListsAdd DEF AddsUp, Reports
  <1> QED
    BY <1>1, TypeInvariant, ReportsInvariant, PTL
=============================================================================

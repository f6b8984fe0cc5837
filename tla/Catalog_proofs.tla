---------------------------- MODULE Catalog_proofs ----------------------------
(***************************************************************************)
(* Proofs about Catalog, for every number of categories, services,         *)
(* branches, prices and requests.                                          *)
(***************************************************************************)
EXTENDS Catalog, TLAPS

-----------------------------------------------------------------------------
(* The inductive invariants.                                               *)

HasRow(k) == k \in Categories /\ category[k] # None
Found(s)  == s \in Services /\ Known(s)

\* What a request remembers of rows that it found: no row is ever removed.
Facts(q) ==
    /\ q.step = "write" /\ q.op \in {"updateCategory", "switchCategory", "addService"} =>
         HasRow(q.category)
    /\ q.step = "write" /\ q.op = "addService" => q.price \in Prices
    /\ q.step = "write" /\ q.op = "updateService" =>
         q.category = None \/ HasRow(q.category)
    /\ q.op = "updateService" => q.price \in Prices \cup {None}
    /\ q.op \in {"updateService", "switchService", "configure", "reset", "quote"} => Found(q.service)
    /\ q.op = "addService" /\ q.step = "audit" => Found(q.service)
    /\ q.op \in {"configure", "reset", "quote"} => q.branch \in Branches
    /\ q.op = "configure" => q.price \in Overrides \cup {None}
    /\ q.step \in {"available", "provider", "charge"} => q.op = "quote"
    /\ q.step = "answer" => OfSetting(q)
    /\ q.op = "none" => q.step = "idle"

Remembered == \A r \in Requests : Facts(req[r])

TypeInv == TypeOK /\ Remembered

\* What a quote has read is what the branch still offers.
Fresh(r) ==
    req[r].op = "quote" /\ r \notin changed =>
        /\ Offered(req[r].branch, req[r].service)
        /\ req[r].price = QuotedPrice(req[r].branch, req[r].service)

QuoteInv == TypeInv /\ \A r \in Requests : Fresh(r)

\* Until two changes overlap, what a change has read is still so, and what it
\* has written too.
Alone == \A r, o \in Requests : Changing(r) /\ Changing(o) => r = o

Current(q) ==
    /\ q.step = "write" /\ q.op = "updateService" => q.was = service[q.service].price
    /\ q.step = "write" /\ q.op = "configure" => q.had = setting[<<q.branch, q.service>>]
    /\ q.step = "audit" /\ NamesPrice(q) => q.price = service[q.service].price
    /\ q.step \in {"audit", "answer"} /\ OfSetting(q) =>
         setting[<<q.branch, q.service>>] = SettingAfter(q)

Serial == overlapped \/ (Alone /\ \A r \in Requests : Current(req[r]))

SerialInv == TypeInv /\ Serial

-----------------------------------------------------------------------------
(* Steps.                                                                  *)

\* Nothing is removed: what has a row keeps one.
Grows ==
    /\ \A k \in Categories : category[k] # None => category'[k] # None
    /\ \A s \in Services : Known(s) => Known(s)'

TablesOK ==
    /\ category \in [Categories -> BOOLEAN \cup {None}]
    /\ service \in [Services -> ServiceRows]
    /\ setting \in [Places -> SettingRows]
    /\ open \subseteq Branches
    /\ \A s \in Services : Known(s) => category[service[s].category] # None
    /\ \A b \in Branches, s \in Services : setting[<<b, s>>].row => Known(s)

\* A request that moves on: the others remember what they did.
Moves(r) ==
    /\ req' = [req EXCEPT ![r] = req'[r]]
    /\ req'[r] \in Memories

\* A request that moves on with what it has.
Goes(r, step) ==
    /\ Moves(r)
    /\ req'[r].step = step /\ req'[r].op = req[r].op
    /\ req'[r].category = req[r].category /\ req'[r].service = req[r].service
    /\ req'[r].branch = req[r].branch /\ req'[r].price = req[r].price
    /\ req'[r].on = req[r].on /\ req'[r].was = req[r].was /\ req'[r].had = req[r].had
    /\ req'[r].provider = req[r].provider

LEMMA GoToGoes ==
  ASSUME TypeInv, NEW r \in Requests, NEW step \in Steps, GoTo(r, step)
  PROVE  Goes(r, step)
  <1>1. req \in [Requests -> Memories]
    BY DEF TypeInv, TypeOK
  <1> DEFINE q == [req[r] EXCEPT !.step = step]
  <1>2. req' = [req EXCEPT ![r] = q] /\ req'[r] = q
    BY <1>1 DEF GoTo
  <1>3. /\ q \in Memories /\ q.step = step /\ q.op = req[r].op
        /\ q.category = req[r].category /\ q.service = req[r].service
        /\ q.branch = req[r].branch /\ q.price = req[r].price
        /\ q.on = req[r].on /\ q.was = req[r].was /\ q.had = req[r].had
        /\ q.provider = req[r].provider
    BY <1>1 DEF Memories
  <1> HIDE DEF q
  <1> QED
    BY <1>2, <1>3 DEF Goes, Moves

LEMMA IdleFacts == Idle \in Memories /\ Facts(Idle)
  BY DEF Idle, Memories, Ops, Steps, SettingRows, Facts, OfSetting

LEMMA FinishMoves ==
  ASSUME TypeInv, NEW r \in Requests, Finish(r)
  PROVE  Moves(r) /\ req'[r] = Idle /\ Facts(req[r])'
  <1>1. req' = [req EXCEPT ![r] = Idle] /\ req'[r] = Idle
    BY DEF Finish, TypeInv, TypeOK
  <1>2. Facts(req[r])'
    BY <1>1 DEF Facts, OfSetting, Idle
  <1> QED
    BY <1>1, <1>2, IdleFacts DEF Moves

LEMMA Served ==
  ASSUME TypeInv, Watch, Grows, TablesOK', NEW r \in Requests, Moves(r), Facts(req[r])'
  PROVE  TypeInv'
  <1>1. req \in [Requests -> Memories] /\ Remembered
    BY DEF TypeInv, TypeOK
  <1>2. \A o \in Requests \ {r} : req'[o] = req[o]
    BY <1>1 DEF Moves
  <1>3. ASSUME NEW o \in Requests, o # r PROVE Facts(req[o])'
    <2>1. req'[o] = req[o] /\ Facts(req[o])
      BY <1>1, <1>2, <1>3 DEF Remembered
    <2> QED
      BY <2>1 DEF Facts, HasRow, Found, OfSetting, Grows
  <1>4. changed' \subseteq {o \in Requests : req'[o].op = "quote"} /\ overlapped' \in BOOLEAN
    BY DEF Watch, TypeInv, TypeOK
  <1> QED
    BY <1>1, <1>3, <1>4 DEF Moves, Remembered, TypeInv, TypeOK, TablesOK

\* A step that writes no row.
LEMMA SameRows ==
  ASSUME TypeInv, Watch, UNCHANGED Rows, NEW r \in Requests, Moves(r), Facts(req[r])'
  PROVE  TypeInv'
  <1>1. TablesOK' /\ Grows
    BY DEF Rows, TablesOK, Grows, TypeInv, TypeOK, Known
  <1> QED
    BY <1>1, Served

-----------------------------------------------------------------------------
(* Type correctness, handler by handler.                                   *)

LEMMA SettingShape ==
  ASSUME NEW x \in SettingRows
  PROVE  /\ x.available \in BOOLEAN /\ x.row \in BOOLEAN
         /\ x.override \in Overrides \cup {None}
         /\ ~ x.row => x = NoSetting
  <1>1. CASE x = NoSetting
    BY <1>1 DEF NoSetting
  <1>2. CASE x \in [available : BOOLEAN, override : Overrides \cup {None}, row : {TRUE}]
    <2>1. x.available \in BOOLEAN /\ x.override \in Overrides \cup {None} /\ x.row = TRUE
      BY <1>2
    <2> QED
      BY <2>1
  <1> QED
    BY <1>1, <1>2 DEF SettingRows

LEMMA ServiceShape ==
  ASSUME NEW x \in ServiceRows
  PROVE  /\ x.price \in Prices \cup {None}
         /\ x # NoService => /\ x \in [category : Categories, price : Prices, active : BOOLEAN]
                             /\ x.category \in Categories /\ x.price \in Prices
  BY DEF ServiceRows, NoService

LEMMA AddCategoryStep ==
  ASSUME TypeInv, Watch, NEW r \in Requests, AddCategory(r)
  PROVE  TypeInv'
  <1> DEFINE q == [Idle EXCEPT !.op = "addCategory", !.step = "write"]
  <1>1. req' = [req EXCEPT ![r] = q] /\ req'[r] = q /\ UNCHANGED Rows
    BY DEF AddCategory, Begin, Remember, TypeInv, TypeOK
  <1>2. q \in Memories /\ q.op = "addCategory" /\ q.step = "write"
    BY DEF Idle, Memories, Ops, Steps, SettingRows
  <1> HIDE DEF q
  <1>3. Facts(req[r])'
    BY <1>1, <1>2 DEF Facts, OfSetting
  <1> QED
    BY <1>1, <1>2, <1>3, SameRows DEF Moves

LEMMA UpdateCategoryStep ==
  ASSUME TypeInv, Watch, NEW r \in Requests, NEW k \in Categories,
         UpdateCategory(r, k)
  PROVE  TypeInv'
  <1> DEFINE q == [Idle EXCEPT !.op = "updateCategory", !.category = k, !.step = "write"]
  <1>1. req' = [req EXCEPT ![r] = q] /\ req'[r] = q /\ UNCHANGED Rows /\ category[k] # None
    BY DEF UpdateCategory, Begin, Remember, TypeInv, TypeOK
  <1>2. q \in Memories /\ q.op = "updateCategory" /\ q.step = "write" /\ q.category = k
    BY DEF Idle, Memories, Ops, Steps, SettingRows
  <1> HIDE DEF q
  <1>3. Facts(req[r])'
    BY <1>1, <1>2 DEF Facts, OfSetting, HasRow, Rows
  <1> QED
    BY <1>1, <1>2, <1>3, SameRows DEF Moves

LEMMA SwitchCategoryStep ==
  ASSUME TypeInv, Watch, NEW r \in Requests, NEW k \in Categories, NEW on \in BOOLEAN,
         SwitchCategory(r, k, on)
  PROVE  TypeInv'
  <1> DEFINE q == [Idle EXCEPT !.op = "switchCategory", !.category = k, !.on = on, !.step = "write"]
  <1>1. req' = [req EXCEPT ![r] = q] /\ req'[r] = q /\ UNCHANGED Rows /\ category[k] # None
    BY DEF SwitchCategory, Begin, Remember, TypeInv, TypeOK
  <1>2. q \in Memories /\ q.op = "switchCategory" /\ q.step = "write" /\ q.category = k
    BY DEF Idle, Memories, Ops, Steps, SettingRows
  <1> HIDE DEF q
  <1>3. Facts(req[r])'
    BY <1>1, <1>2 DEF Facts, OfSetting, HasRow, Rows
  <1> QED
    BY <1>1, <1>2, <1>3, SameRows DEF Moves

LEMMA AddServiceStep ==
  ASSUME TypeInv, Watch, NEW r \in Requests, NEW k \in Categories, NEW p \in Prices,
         AddService(r, k, p)
  PROVE  TypeInv'
  <1> DEFINE q == [Idle EXCEPT !.op = "addService", !.category = k, !.price = p, !.step = "write"]
  <1>1. req' = [req EXCEPT ![r] = q] /\ req'[r] = q /\ UNCHANGED Rows /\ category[k] # None
    BY DEF AddService, Begin, Remember, TypeInv, TypeOK
  <1>2. /\ q \in Memories /\ q.op = "addService" /\ q.step = "write" /\ q.category = k
        /\ q.price = p
    BY DEF Idle, Memories, Ops, Steps, SettingRows
  <1> HIDE DEF q
  <1>3. Facts(req[r])'
    BY <1>1, <1>2 DEF Facts, OfSetting, HasRow, Rows
  <1> QED
    BY <1>1, <1>2, <1>3, SameRows DEF Moves

LEMMA UpdateServiceStep ==
  ASSUME TypeInv, Watch, NEW r \in Requests, NEW s \in Services,
         NEW k \in Categories \cup {None}, NEW p \in Prices \cup {None}, UpdateService(r, s, k, p)
  PROVE  TypeInv'
  <1> DEFINE q == [Idle EXCEPT !.op = "updateService", !.service = s, !.category = k,
                               !.price = p, !.was = service[s].price, !.step = "write"]
  <1>1. /\ req' = [req EXCEPT ![r] = q] /\ req'[r] = q /\ UNCHANGED Rows
        /\ Known(s) /\ (k # None => category[k] # None)
    BY DEF UpdateService, Begin, Remember, TypeInv, TypeOK
  <1>2. service[s].price \in Prices
    BY <1>1 DEF TypeInv, TypeOK, ServiceRows, Known
  <1>3. /\ q \in Memories /\ q.op = "updateService" /\ q.step = "write" /\ q.service = s
        /\ q.category = k /\ q.price = p
    BY <1>2 DEF Idle, Memories, Ops, Steps, SettingRows
  <1> HIDE DEF q
  <1>4. Facts(req[r])'
    BY <1>1, <1>3 DEF Facts, OfSetting, HasRow, Found, Known, Rows
  <1> QED
    BY <1>1, <1>3, <1>4, SameRows DEF Moves

LEMMA SwitchServiceStep ==
  ASSUME TypeInv, Watch, NEW r \in Requests, NEW s \in Services, NEW on \in BOOLEAN,
         SwitchService(r, s, on)
  PROVE  TypeInv'
  <1> DEFINE q == [Idle EXCEPT !.op = "switchService", !.service = s, !.on = on, !.step = "write"]
  <1>1. req' = [req EXCEPT ![r] = q] /\ req'[r] = q /\ UNCHANGED Rows /\ Known(s)
    BY DEF SwitchService, Begin, Remember, TypeInv, TypeOK
  <1>2. q \in Memories /\ q.op = "switchService" /\ q.step = "write" /\ q.service = s
    BY DEF Idle, Memories, Ops, Steps, SettingRows
  <1> HIDE DEF q
  <1>3. Facts(req[r])'
    BY <1>1, <1>2 DEF Facts, OfSetting, Found, Known, Rows
  <1> QED
    BY <1>1, <1>2, <1>3, SameRows DEF Moves

LEMMA ConfigureStep ==
  ASSUME TypeInv, Watch, NEW r \in Requests, NEW b \in Branches, NEW s \in Services,
         NEW on \in BOOLEAN, NEW p \in Overrides \cup {None}, Configure(r, b, s, on, p)
  PROVE  TypeInv'
  <1> DEFINE q == [Idle EXCEPT !.op = "configure", !.service = s, !.branch = b, !.on = on,
                               !.price = p, !.had = setting[<<b, s>>], !.step = "write"]
  <1>1. req' = [req EXCEPT ![r] = q] /\ req'[r] = q /\ UNCHANGED Rows /\ Known(s)
    BY DEF Configure, Begin, Remember, TypeInv, TypeOK
  <1>2. setting[<<b, s>>] \in SettingRows
    BY DEF TypeInv, TypeOK, Places
  <1>3. /\ q \in Memories /\ q.op = "configure" /\ q.step = "write" /\ q.service = s
        /\ q.branch = b /\ q.price = p
    BY <1>2 DEF Idle, Memories, Ops, Steps
  <1> HIDE DEF q
  <1>4. Facts(req[r])'
    BY <1>1, <1>3 DEF Facts, OfSetting, Found, Known, Rows
  <1> QED
    BY <1>1, <1>3, <1>4, SameRows DEF Moves

LEMMA ResetStep ==
  ASSUME TypeInv, Watch, NEW r \in Requests, NEW b \in Branches, NEW s \in Services, Reset(r, b, s)
  PROVE  TypeInv'
  <1> DEFINE q == [Idle EXCEPT !.op = "reset", !.service = s, !.branch = b, !.step = "write"]
  <1>1. req' = [req EXCEPT ![r] = q] /\ req'[r] = q /\ UNCHANGED Rows /\ Known(s)
    BY DEF Reset, Begin, Remember, TypeInv, TypeOK
  <1>2. /\ q \in Memories /\ q.op = "reset" /\ q.step = "write" /\ q.service = s /\ q.branch = b
    BY DEF Idle, Memories, Ops, Steps, SettingRows
  <1> HIDE DEF q
  <1>3. Facts(req[r])'
    BY <1>1, <1>2 DEF Facts, OfSetting, Found, Known, Rows
  <1> QED
    BY <1>1, <1>2, <1>3, SameRows DEF Moves

LEMMA QuoteStep ==
  ASSUME TypeInv, Watch, NEW r \in Requests, NEW b \in Branches, NEW s \in Services,
         NEW p \in {"none", "given", "default"}, Quote(r, b, s, p)
  PROVE  TypeInv'
  <1> DEFINE q == [Idle EXCEPT !.op = "quote", !.service = s, !.branch = b,
                               !.price = QuotedPrice(b, s), !.provider = p,
                               !.step = IF p = "none" THEN "charge" ELSE "available"]
  <1>1. req' = [req EXCEPT ![r] = q] /\ req'[r] = q /\ UNCHANGED Rows /\ Known(s)
    BY DEF Quote, Remember, TypeInv, TypeOK
  <1>2. QuotedPrice(b, s) \in Prices \cup Overrides \cup {None}
    <2>1. setting[<<b, s>>] \in SettingRows /\ service[s] \in ServiceRows
      BY DEF TypeInv, TypeOK, Places
    <2>2. setting[<<b, s>>].override \in Overrides \cup {None}
      BY <2>1, SettingShape
    <2>3. service[s].price \in Prices \cup {None}
      BY <2>1, ServiceShape
    <2> QED
      BY <2>2, <2>3 DEF QuotedPrice
  <1>3. /\ q \in Memories /\ q.op = "quote" /\ q.step \in {"available", "charge"}
        /\ q.service = s /\ q.branch = b
    BY <1>2 DEF Idle, Memories, Ops, Steps, SettingRows
  <1> HIDE DEF q
  <1>4. Facts(req[r])'
    BY <1>1, <1>3 DEF Facts, OfSetting, Found, Known, Rows
  <1> QED
    BY <1>1, <1>3, <1>4, SameRows DEF Moves

LEMMA WriteNewCategoryStep ==
  ASSUME TypeInv, Watch, NEW r \in Requests, NEW k \in Categories, WriteNewCategory(r, k)
  PROVE  TypeInv'
  <1>1. /\ req[r].step = "write" /\ req[r].op = "addCategory"
        /\ category' = [category EXCEPT ![k] = TRUE] /\ UNCHANGED <<service, setting, open>>
    BY DEF WriteNewCategory, Writing
  <1>2. Goes(r, "audit")
    BY GoToGoes DEF WriteNewCategory, Steps
  <1>3. TablesOK' /\ Grows
    <2>1. PICK on \in BOOLEAN : on # None /\ category' = [category EXCEPT ![k] = on]
      BY <1>1, NoneAssumption
    <2>2. UNCHANGED <<service, setting, open>>
      BY <1>1
    <2> QED
      BY <2>1, <2>2 DEF TablesOK, Grows, TypeInv, TypeOK, Known
  <1>4. Facts(req[r])'
    BY <1>1, <1>2 DEF Goes, Facts, OfSetting
  <1> QED
    BY <1>2, <1>3, <1>4, Served DEF Goes

LEMMA WriteCategoryStep ==
  ASSUME TypeInv, Watch, NEW r \in Requests, WriteCategory(r)
  PROVE  TypeInv'
  <1> DEFINE k == req[r].category
             on == IF req[r].op = "updateCategory" THEN category[k] ELSE req[r].on
  <1>1. /\ req[r].step = "write" /\ req[r].op \in {"updateCategory", "switchCategory"}
        /\ UNCHANGED <<service, setting, open>>
    BY DEF WriteCategory, Writing
  <1>2. k \in Categories /\ category[k] # None
    BY <1>1 DEF TypeInv, Remembered, Facts, HasRow
  <1>3. on \in BOOLEAN /\ on # None
    BY <1>2, NoneAssumption DEF TypeInv, TypeOK, Memories
  <1>4. category' = [category EXCEPT ![k] = on]
    BY DEF WriteCategory
  <1> HIDE DEF k, on
  <1>5. Goes(r, "audit")
    BY GoToGoes DEF WriteCategory, Steps
  <1>6. TablesOK' /\ Grows
    BY <1>1, <1>2, <1>3, <1>4 DEF TablesOK, Grows, TypeInv, TypeOK, Known
  <1>7. Facts(req[r])'
    BY <1>1, <1>5 DEF Goes, Facts, OfSetting
  <1> QED
    BY <1>5, <1>6, <1>7, Served DEF Goes

\* A service gets a row, or a new one, with a category that has one.
LEMMA ServiceTables ==
  ASSUME TypeInv, NEW s \in Services,
         NEW x \in [category : Categories, price : Prices, active : BOOLEAN],
         category[x.category] # None,
         service' = [service EXCEPT ![s] = x], UNCHANGED <<category, setting, open>>
  PROVE  TablesOK' /\ Grows /\ Known(s)'
  <1>1. x \in ServiceRows /\ x # NoService
    <2>1. x.category # None
      BY NoneAssumption
    <2> QED
      BY <2>1 DEF ServiceRows, NoService
  <1>2. /\ service' \in [Services -> ServiceRows] /\ service'[s] = x
        /\ \A o \in Services \ {s} : service'[o] = service[o]
    BY <1>1 DEF TypeInv, TypeOK
  <1>3. Grows /\ Known(s)'
    BY <1>1, <1>2 DEF Grows, Known
  <1>4. \A o \in Services : Known(o)' => category'[service'[o].category] # None
    BY <1>2 DEF Known, TypeInv, TypeOK
  <1>5. \A b \in Branches, o \in Services : setting'[<<b, o>>].row => Known(o)'
    BY <1>3 DEF Grows, TypeInv, TypeOK
  <1> QED
    BY <1>2, <1>3, <1>4, <1>5 DEF TablesOK, TypeInv, TypeOK

LEMMA WriteNewServiceStep ==
  ASSUME TypeInv, Watch, NEW r \in Requests, NEW s \in Services, WriteNewService(r, s)
  PROVE  TypeInv'
  <1> DEFINE x == [category |-> req[r].category, price |-> req[r].price, active |-> TRUE]
             q == [req[r] EXCEPT !.step = "audit", !.service = s]
  <1>1. /\ req[r].step = "write" /\ req[r].op = "addService" /\ req[r] \in Memories
        /\ service' = [service EXCEPT ![s] = x] /\ UNCHANGED <<category, setting, open>>
        /\ req' = [req EXCEPT ![r] = q] /\ req'[r] = q
    BY DEF WriteNewService, Writing, Remember, TypeInv, TypeOK
  <1>2. HasRow(req[r].category) /\ req[r].price \in Prices
    BY <1>1 DEF TypeInv, Remembered, Facts
  <1>3. x \in [category : Categories, price : Prices, active : BOOLEAN]
        /\ category[x.category] # None
    BY <1>2 DEF HasRow
  <1> HIDE DEF x
  <1>4. q \in Memories /\ q.op = "addService" /\ q.step = "audit" /\ q.service = s
    BY <1>1 DEF Memories, Steps
  <1> HIDE DEF q
  <1>5. TablesOK' /\ Grows /\ Known(s)'
    BY <1>1, <1>3, ServiceTables
  <1>6. Facts(req[r])'
    BY <1>1, <1>4, <1>5 DEF Facts, OfSetting, Found
  <1> QED
    BY <1>1, <1>4, <1>5, <1>6, Served DEF Moves

\* The row that a change of a service leaves.
LEMMA ServiceAfterShape ==
  ASSUME TypeInv, NEW r \in Requests, WriteService(r)
  PROVE  /\ req[r].service \in Services
         /\ ServiceAfter(req[r]) \in [category : Categories, price : Prices, active : BOOLEAN]
         /\ category[ServiceAfter(req[r]).category] # None
         /\ req[r].op = "updateService" /\ req[r].price # None =>
               ServiceAfter(req[r]).price = req[r].price
  <1> DEFINE q == req[r]
             row == service[q.service]
  <1>1. /\ q \in Memories /\ q.step = "write" /\ q.op \in {"updateService", "switchService"}
        /\ Facts(q)
    BY DEF WriteService, Writing, TypeInv, TypeOK, Remembered
  <1>2. q.service \in Services /\ row # NoService /\ category[row.category] # None
    BY <1>1 DEF Facts, Found, Known, TypeInv, TypeOK
  <1>3. row \in ServiceRows
    BY <1>2 DEF TypeInv, TypeOK
  <1>4. row \in [category : Categories, price : Prices, active : BOOLEAN]
    BY <1>2, <1>3, ServiceShape
  <1>5. q.op = "updateService" => /\ q.category = None \/ HasRow(q.category)
                                  /\ q.price \in Prices \cup {None}
    BY <1>1 DEF Facts
  <1>6. q.on \in BOOLEAN
    BY <1>1 DEF Memories
  <1>7. ServiceAfter(q) =
           IF q.op = "switchService" THEN [row EXCEPT !.active = q.on]
           ELSE [row EXCEPT !.category = IF q.category = None THEN row.category ELSE q.category,
                            !.price = IF q.price = None THEN row.price ELSE q.price]
    BY <1>4 DEF ServiceAfter
  <1> HIDE DEF row, q
  <1>8. CASE q.op = "switchService"
    <2>1. ServiceAfter(q) = [row EXCEPT !.active = q.on]
      BY <1>7, <1>8
    <2>2. /\ ServiceAfter(q) \in [category : Categories, price : Prices, active : BOOLEAN]
          /\ ServiceAfter(q).category = row.category
      BY <1>4, <1>6, <2>1
    <2> QED
      BY <1>2, <1>8, <2>2 DEF q
  <1>9. CASE q.op = "updateService"
    <2> DEFINE k == IF q.category = None THEN row.category ELSE q.category
               p == IF q.price = None THEN row.price ELSE q.price
    <2>1. k \in Categories /\ category[k] # None /\ p \in Prices /\ (q.price # None => p = q.price)
      BY <1>2, <1>4, <1>5, <1>9 DEF HasRow
    <2>2. ServiceAfter(q) = [row EXCEPT !.category = k, !.price = p]
      BY <1>7, <1>9
    <2> HIDE DEF k, p
    <2>3. /\ ServiceAfter(q) \in [category : Categories, price : Prices, active : BOOLEAN]
          /\ ServiceAfter(q).category = k /\ ServiceAfter(q).price = p
      BY <1>4, <2>1, <2>2
    <2> QED
      BY <1>2, <2>1, <2>3 DEF q
  <1> QED
    BY <1>1, <1>8, <1>9 DEF q

LEMMA WriteServiceStep ==
  ASSUME TypeInv, Watch, NEW r \in Requests, WriteService(r)
  PROVE  TypeInv'
  <1>1. /\ req[r].step = "write" /\ req[r].op \in {"updateService", "switchService"}
        /\ service' = [service EXCEPT ![req[r].service] = ServiceAfter(req[r])]
        /\ UNCHANGED <<category, setting, open>>
    BY DEF WriteService, Writing
  <1>2. Goes(r, "audit")
    BY GoToGoes DEF WriteService, Steps
  <1>3. PICK s \in Services, x \in [category : Categories, price : Prices, active : BOOLEAN] :
           s = req[r].service /\ x = ServiceAfter(req[r]) /\ category[x.category] # None
    BY ServiceAfterShape
  <1>4. TablesOK' /\ Grows /\ Known(s)'
    BY <1>1, <1>3, ServiceTables
  <1>5. Facts(req[r]) /\ req[r].service = s
    BY <1>3 DEF TypeInv, Remembered
  <1>6. Facts(req[r])'
    BY <1>1, <1>2, <1>4, <1>5 DEF Goes, Facts, OfSetting, Found
  <1> QED
    BY <1>2, <1>4, <1>6, Served DEF Goes

LEMMA SettingAfterShape ==
  ASSUME TypeInv, NEW r \in Requests, req[r].op \in {"configure", "reset"}
  PROVE  /\ req[r].branch \in Branches /\ req[r].service \in Services /\ Known(req[r].service)
         /\ <<req[r].branch, req[r].service>> \in Places
         /\ SettingAfter(req[r]) \in SettingRows
  <1>1. /\ req[r].branch \in Branches /\ req[r].service \in Services /\ Known(req[r].service)
        /\ req[r].op = "configure" => req[r].price \in Overrides \cup {None}
        /\ req[r].on \in BOOLEAN
    BY DEF TypeInv, TypeOK, Remembered, Facts, Found, Memories
  <1>2. CASE req[r].op = "configure"
    <2>1. SettingAfter(req[r]) = [available |-> req[r].on, override |-> req[r].price, row |-> TRUE]
      BY <1>2 DEF SettingAfter
    <2> QED
      BY <1>1, <1>2, <2>1 DEF SettingRows, Places
  <1>3. CASE req[r].op = "reset"
    BY <1>1, <1>3 DEF SettingAfter, SettingRows, Places
  <1> QED
    BY <1>2, <1>3

LEMMA WriteSettingStep ==
  ASSUME TypeInv, Watch, NEW r \in Requests, WriteSetting(r)
  PROVE  TypeInv'
  <1>1. /\ req[r].step = "write" /\ req[r].op \in {"configure", "reset"}
        /\ setting' = [setting EXCEPT ![<<req[r].branch, req[r].service>>] = SettingAfter(req[r])]
        /\ UNCHANGED <<category, service, open>>
    BY DEF WriteSetting, Writing
  <1>2. Goes(r, "audit")
    BY GoToGoes DEF WriteSetting, Steps
  <1>3. PICK b \in Branches, s \in Services, x \in SettingRows :
           /\ b = req[r].branch /\ s = req[r].service /\ x = SettingAfter(req[r]) /\ Known(s)
    BY <1>1, SettingAfterShape
  <1>4. /\ setting' \in [Places -> SettingRows]
        /\ \A p \in Places : p # <<b, s>> => setting'[p] = setting[p]
    BY <1>1, <1>3 DEF TypeInv, TypeOK, Places
  <1>5. ASSUME NEW c \in Branches, NEW o \in Services, setting'[<<c, o>>].row PROVE Known(o)'
    <2>1. Known(o)' <=> Known(o)
      BY <1>1 DEF Known
    <2>2. CASE o = s
      BY <1>3, <2>1, <2>2
    <2>3. CASE o # s
      BY <1>4, <1>5, <2>1, <2>3 DEF TypeInv, TypeOK, Places
    <2> QED
      BY <2>2, <2>3
  <1>6. TablesOK' /\ Grows
    BY <1>1, <1>4, <1>5 DEF TablesOK, Grows, TypeInv, TypeOK, Known
  <1>7. Facts(req[r]) /\ Known(s)'
    BY <1>1, <1>3 DEF TypeInv, Remembered, Known
  <1>8. Facts(req[r])'
    BY <1>1, <1>2, <1>3, <1>7 DEF Goes, Facts, OfSetting, Found
  <1> QED
    BY <1>2, <1>6, <1>8, Served DEF Goes

LEMMA FinishStep ==
  ASSUME TypeInv, Watch, NEW r \in Requests, Finish(r), UNCHANGED Rows
  PROVE  TypeInv'
  BY FinishMoves, SameRows

\* A request that moves on without having written.
LEMMA GoesStep ==
  ASSUME TypeInv, Watch, NEW r \in Requests, NEW step \in Steps, Goes(r, step), UNCHANGED Rows,
         \/ step = "answer" /\ OfSetting(req[r])
         \/ step \in {"available", "provider", "charge"} /\ req[r].op = "quote"
  PROVE  TypeInv'
  <1>1. Facts(req[r])
    BY DEF TypeInv, Remembered
  <1>2. Facts(req[r])'
    BY <1>1 DEF Goes, Facts, OfSetting, Found, Known, Rows
  <1> QED
    BY <1>2, SameRows DEF Goes

LEMMA AuditStep ==
  ASSUME TypeInv, Watch, NEW r \in Requests, Audit(r)
  PROVE  TypeInv'
  <1>1. CASE OfSetting(req[r])
    BY <1>1, GoToGoes, GoesStep DEF Audit, Steps
  <1>2. CASE ~ OfSetting(req[r])
    BY <1>2, FinishStep DEF Audit
  <1> QED
    BY <1>1, <1>2

\* A quote goes on, with its price and without its provider if need be, or ends.
Asked(r) ==
    \/ Finish(r)
    \/ /\ Moves(r) /\ req'[r].op = "quote"
       /\ req'[r].step \in {"available", "provider", "charge"}
       /\ req'[r].service = req[r].service /\ req'[r].branch = req[r].branch
       /\ req'[r].price = req[r].price

LEMMA AskAsked ==
  ASSUME TypeInv, NEW r \in Requests, AskAvailable(r) \/ AskProvider(r)
  PROVE  req[r].op = "quote" /\ UNCHANGED Rows /\ Asked(r)
  <1>1. req[r].op = "quote" /\ req[r] \in Memories /\ req \in [Requests -> Memories]
    BY DEF AskAvailable, AskProvider, TypeInv, TypeOK, Remembered, Facts
  <1>2. Decline(r) => Asked(r)
    <2> DEFINE q == [req[r] EXCEPT !.step = "charge", !.provider = "none"]
    <2>1. ASSUME Remember(r, q) PROVE Asked(r)
      <3>1. req' = [req EXCEPT ![r] = q] /\ req'[r] = q
        BY <1>1, <2>1 DEF Remember
      <3>2. /\ q \in Memories /\ q.op = "quote" /\ q.step = "charge"
            /\ q.service = req[r].service /\ q.branch = req[r].branch /\ q.price = req[r].price
        BY <1>1 DEF Memories, Steps
      <3> HIDE DEF q
      <3> QED
        BY <3>1, <3>2 DEF Asked, Moves
    <2> QED
      BY <2>1 DEF Decline, Asked
  <1>3. ASSUME GoTo(r, "provider") \/ GoTo(r, "charge") PROVE Asked(r)
    BY <1>1, <1>3, GoToGoes DEF Goes, Asked, Steps
  <1>4. ASSUME Remember(r, [req[r] EXCEPT !.step = "available", !.provider = "given"])
        PROVE  Asked(r)
    <2> DEFINE q == [req[r] EXCEPT !.step = "available", !.provider = "given"]
    <2>1. req' = [req EXCEPT ![r] = q] /\ req'[r] = q
      BY <1>1, <1>4 DEF Remember
    <2>2. /\ q \in Memories /\ q.op = "quote" /\ q.step = "available"
          /\ q.service = req[r].service /\ q.branch = req[r].branch /\ q.price = req[r].price
      BY <1>1 DEF Memories, Steps
    <2> HIDE DEF q
    <2> QED
      BY <2>1, <2>2 DEF Asked, Moves
  <1>5. CASE AskAvailable(r)
    BY <1>1, <1>2, <1>3, <1>5 DEF AskAvailable
  <1>6. CASE AskProvider(r)
    BY <1>1, <1>2, <1>3, <1>4, <1>6 DEF AskProvider
  <1> QED
    BY <1>5, <1>6, <1>1

LEMMA AskStep ==
  ASSUME TypeInv, Watch, NEW r \in Requests, AskAvailable(r) \/ AskProvider(r)
  PROVE  TypeInv'
  <1>1. req[r].op = "quote" /\ UNCHANGED Rows /\ Asked(r)
    BY AskAsked
  <1>2. CASE Finish(r)
    BY <1>1, <1>2, FinishStep
  <1>3. CASE ~ Finish(r)
    <2>1. Facts(req[r])
      BY DEF TypeInv, Remembered
    <2>2. Facts(req[r])'
      BY <1>1, <1>3, <2>1 DEF Asked, Facts, OfSetting, Found, Known, Rows
    <2> QED
      BY <1>1, <1>3, <2>2, SameRows DEF Asked
  <1> QED
    BY <1>2, <1>3

LEMMA SwitchBranchStep ==
  ASSUME TypeInv, Watch, NEW b \in Branches, SwitchBranch(b)
  PROVE  TypeInv'
  <1>1. /\ open' \subseteq Branches
        /\ UNCHANGED <<category, service, setting, req>>
    BY DEF SwitchBranch, TypeInv, TypeOK
  <1>2. TablesOK'
    BY <1>1 DEF TablesOK, TypeInv, TypeOK, Known
  <1>3. \A r \in Requests : Facts(req[r])'
    BY <1>1 DEF TypeInv, Remembered, Facts, HasRow, Found, OfSetting, Known
  <1>4. changed' \subseteq {o \in Requests : req'[o].op = "quote"} /\ overlapped' \in BOOLEAN
    BY DEF Watch, TypeInv, TypeOK
  <1> QED
    BY <1>1, <1>2, <1>3, <1>4 DEF TypeInv, TypeOK, TablesOK, Remembered

LEMMA TypeStep == TypeInv /\ [Next]_vars => TypeInv'
  <1> SUFFICES ASSUME TypeInv, [Next]_vars PROVE TypeInv'
    OBVIOUS
  <1>1. CASE UNCHANGED vars
    BY <1>1 DEF vars, TypeInv, TypeOK, Remembered, Facts, HasRow, Found, OfSetting, Known
  <1>2. CASE Next
    <2>1. Watch
      BY <1>2 DEF Next
    <2>2. ASSUME NEW r \in Requests, Listing(r) PROVE TypeInv'
      <3>1. ASSUME Refuse(r) PROVE TypeInv'
        BY <2>1, <3>1, FinishStep DEF Refuse
      <3> QED
        BY <2>1, <2>2, <3>1, AddCategoryStep, WriteNewCategoryStep, UpdateCategoryStep,
           SwitchCategoryStep, WriteCategoryStep, AddServiceStep, WriteNewServiceStep,
           UpdateServiceStep, SwitchServiceStep, WriteServiceStep
        DEF Listing
    <2>3. ASSUME NEW r \in Requests, Setting(r) PROVE TypeInv'
      <3>1. ASSUME Answer(r) PROVE TypeInv'
        BY <2>1, <3>1, FinishStep DEF Answer
      <3> QED
        BY <2>1, <2>3, <3>1, ConfigureStep, ResetStep, WriteSettingStep DEF Setting
    <2>4. ASSUME NEW r \in Requests, Quoting(r) PROVE TypeInv'
      <3>1. ASSUME Charge(r) PROVE TypeInv'
        BY <2>1, <3>1, FinishStep DEF Charge
      <3> QED
        BY <2>1, <2>4, <3>1, QuoteStep, AskStep DEF Quoting
    <2>5. ASSUME NEW r \in Requests, Stop(r) PROVE TypeInv'
      BY <2>1, <2>5, FinishStep DEF Stop
    <2> QED
      BY <1>2, <2>1, <2>2, <2>3, <2>4, <2>5, AuditStep, SwitchBranchStep DEF Next
  <1> QED
    BY <1>1, <1>2

LEMMA TypeInit == Init => TypeInv
  <1> SUFFICES ASSUME Init PROVE TypeInv
    OBVIOUS
  <1>1. \A r \in Requests : req[r] \in Memories /\ Facts(req[r])
    BY IdleFacts DEF Init
  <1>2. \A s \in Services : service[s] \in ServiceRows /\ ~ Known(s)
    BY DEF Init, ServiceRows, Known
  <1>3. \A p \in Places : setting[p] \in SettingRows /\ ~ setting[p].row
    BY DEF Init, SettingRows, NoSetting
  <1>4. setting \in [Places -> SettingRows] /\ service \in [Services -> ServiceRows]
    BY <1>2, <1>3 DEF Init
  <1>5. \A b \in Branches, s \in Services : ~ setting[<<b, s>>].row
    BY <1>3 DEF Places
  <1>6. TypeOK
    BY <1>1, <1>2, <1>4, <1>5 DEF Init, TypeOK
  <1> QED
    BY <1>1, <1>6 DEF TypeInv, Remembered

LEMMA TypeInvariant == Spec => []TypeInv
  BY TypeInit, TypeStep, PTL DEF Spec

\* A service has a category that exists, a branch setting a service, and what
\* a request remembers of them is well-formed (service-catalog.service.ts:40-462).
THEOREM TypeCorrect == Spec => []TypeOK
  <1>1. TypeInv => TypeOK
    BY DEF TypeInv
  <1> QED
    BY <1>1, TypeInvariant, PTL

-----------------------------------------------------------------------------
(* What is charged.                                                        *)

OthersStay(r) == \A o \in Requests \ {r} : req'[o] = req[o]

\* The catalog's own requests do not become quotes, and one request is served
\* at a time.
LEMMA ListingServes ==
  ASSUME TypeInv, NEW r \in Requests, Listing(r)
  PROVE  OthersStay(r) /\ req'[r].op # "quote"
  <1>1. req \in [Requests -> Memories]
    BY DEF TypeInv, TypeOK
  <1>2. CASE AddCategory(r)
    BY <1>1, <1>2 DEF AddCategory, Begin, Remember, OthersStay, Idle
  <1>3. ASSUME NEW k \in Categories, WriteNewCategory(r, k)
        PROVE  OthersStay(r) /\ req'[r].op # "quote"
    <2>1. Goes(r, "audit") /\ req[r].op = "addCategory"
      BY <1>3, GoToGoes DEF WriteNewCategory, Writing, Steps
    <2> QED
      BY <1>1, <2>1 DEF Goes, Moves, OthersStay
  <1>4. ASSUME NEW k \in Categories, NEW on \in BOOLEAN, UpdateCategory(r, k) \/ SwitchCategory(r, k, on)
        PROVE  OthersStay(r) /\ req'[r].op # "quote"
    BY <1>1, <1>4 DEF UpdateCategory, SwitchCategory, Begin, Remember, OthersStay, Idle
  <1>5. CASE WriteCategory(r) \/ WriteService(r)
    <2>1. Goes(r, "audit")
      BY <1>5, GoToGoes DEF WriteCategory, WriteService, Steps
    <2>2. req[r].op \in {"updateCategory", "switchCategory", "updateService", "switchService"}
      BY <1>5 DEF WriteCategory, WriteService, Writing
    <2> QED
      BY <1>1, <2>1, <2>2 DEF Goes, Moves, OthersStay
  <1>6. ASSUME NEW k \in Categories, NEW p \in Prices, AddService(r, k, p)
        PROVE  OthersStay(r) /\ req'[r].op # "quote"
    BY <1>1, <1>6 DEF AddService, Begin, Remember, OthersStay, Idle
  <1>7. ASSUME NEW s \in Services, WriteNewService(r, s)
        PROVE  OthersStay(r) /\ req'[r].op # "quote"
    <2>1. req[r].op = "addService" /\ req[r] \in Memories
      BY <1>1, <1>7 DEF WriteNewService, Writing
    <2>2. req' = [req EXCEPT ![r] = [req[r] EXCEPT !.step = "audit", !.service = s]]
      BY <1>7 DEF WriteNewService, Remember
    <2>3. [req[r] EXCEPT !.step = "audit", !.service = s].op = "addService"
      BY <2>1 DEF Memories
    <2> QED
      BY <1>1, <2>2, <2>3 DEF OthersStay
  <1>8. ASSUME NEW s \in Services, NEW k \in Categories \cup {None}, NEW p \in Prices \cup {None},
               UpdateService(r, s, k, p)
        PROVE  OthersStay(r) /\ req'[r].op # "quote"
    BY <1>1, <1>8 DEF UpdateService, Begin, Remember, OthersStay, Idle
  <1>9. ASSUME NEW s \in Services, NEW on \in BOOLEAN, SwitchService(r, s, on)
        PROVE  OthersStay(r) /\ req'[r].op # "quote"
    BY <1>1, <1>9 DEF SwitchService, Begin, Remember, OthersStay, Idle
  <1>10. CASE Refuse(r)
    BY <1>1, <1>10 DEF Refuse, Finish, OthersStay, Idle
  <1> HIDE DEF OthersStay
  <1> QED
    BY <1>2, <1>3, <1>4, <1>5, <1>6, <1>7, <1>8, <1>9, <1>10 DEF Listing

LEMMA SettingServes ==
  ASSUME TypeInv, NEW r \in Requests, Setting(r) \/ Audit(r) \/ Stop(r) \/ Charge(r)
  PROVE  OthersStay(r) /\ req'[r].op # "quote"
  <1>1. req \in [Requests -> Memories]
    BY DEF TypeInv, TypeOK
  <1>2. ASSUME Finish(r) PROVE OthersStay(r) /\ req'[r].op # "quote"
    BY <1>1, <1>2 DEF Finish, OthersStay, Idle
  <1>3. ASSUME NEW b \in Branches, NEW s \in Services, NEW on \in BOOLEAN,
               NEW p \in Overrides \cup {None}, Configure(r, b, s, on, p)
        PROVE  OthersStay(r) /\ req'[r].op # "quote"
    BY <1>1, <1>3 DEF Configure, Begin, Remember, OthersStay, Idle
  <1>4. ASSUME NEW b \in Branches, NEW s \in Services, Reset(r, b, s)
        PROVE  OthersStay(r) /\ req'[r].op # "quote"
    BY <1>1, <1>4 DEF Reset, Begin, Remember, OthersStay, Idle
  <1>5. CASE WriteSetting(r)
    <2>1. Goes(r, "audit") /\ req[r].op \in {"configure", "reset"}
      BY <1>5, GoToGoes DEF WriteSetting, Writing, Steps
    <2> QED
      BY <1>1, <2>1 DEF Goes, Moves, OthersStay
  <1>6. CASE Audit(r)
    <2>1. CASE OfSetting(req[r])
      <3>1. Goes(r, "answer") /\ req[r].op \in {"configure", "reset"}
        BY <1>6, <2>1, GoToGoes DEF Audit, OfSetting, Steps
      <3> QED
        BY <1>1, <3>1 DEF Goes, Moves, OthersStay
    <2>2. CASE ~ OfSetting(req[r])
      BY <1>2, <1>6, <2>2 DEF Audit
    <2> QED
      BY <2>1, <2>2
  <1>7. CASE Answer(r) \/ Stop(r) \/ Charge(r)
    BY <1>2, <1>7 DEF Answer, Stop, Charge
  <1> QED
    BY <1>3, <1>4, <1>5, <1>6, <1>7 DEF Setting

\* A quote that goes on has just begun, has asked, or waits.
LEMMA QuoteCases ==
  ASSUME TypeInv, Next, NEW r \in Requests, req'[r].op = "quote"
  PROVE  \/ req'[r] = req[r]
         \/ \E b \in Branches, s \in Services, p \in {"none", "given", "default"} : Quote(r, b, s, p)
         \/ req[r].op = "quote" /\ Asked(r)
  <1> DEFINE Goal ==
         \/ req'[r] = req[r]
         \/ \E b \in Branches, s \in Services, p \in {"none", "given", "default"} : Quote(r, b, s, p)
         \/ req[r].op = "quote" /\ Asked(r)
  <1>1. \A o \in Requests : OthersStay(o) /\ req'[o].op # "quote" => Goal
    BY DEF OthersStay
  <1>2. ASSUME NEW o \in Requests, NEW b \in Branches, NEW s \in Services,
               NEW p \in {"none", "given", "default"}, Quote(o, b, s, p)
        PROVE  Goal
    <2>1. CASE o = r
      BY <1>2, <2>1
    <2>2. CASE o # r
      BY <1>2, <2>2 DEF Quote, Remember, TypeInv, TypeOK
    <2> QED
      BY <2>1, <2>2
  <1>3. ASSUME NEW o \in Requests, AskAvailable(o) \/ AskProvider(o) PROVE Goal
    <2>1. req[o].op = "quote" /\ Asked(o)
      BY <1>3, AskAsked
    <2>2. CASE o = r
      BY <2>1, <2>2
    <2>3. CASE o # r
      BY <2>1, <2>3 DEF Asked, Finish, Moves, TypeInv, TypeOK
    <2> QED
      BY <2>2, <2>3
  <1>4. ASSUME NEW b \in Branches, SwitchBranch(b) PROVE Goal
    BY <1>4 DEF SwitchBranch
  <1>5. ASSUME NEW o \in Requests, Listing(o) \/ Setting(o) \/ Audit(o) \/ Stop(o) \/ Charge(o)
        PROVE  OthersStay(o) /\ req'[o].op # "quote"
    BY <1>5, ListingServes, SettingServes
  <1> HIDE DEF Goal
  <1>6. Goal
    BY <1>1, <1>2, <1>3, <1>4, <1>5 DEF Next, Quoting
  <1> QED
    BY <1>6 DEF Goal

LEMMA QuoteStepInv == QuoteInv /\ [Next]_vars => QuoteInv'
  <1> SUFFICES ASSUME QuoteInv, [Next]_vars PROVE QuoteInv'
    OBVIOUS
  <1>1. TypeInv /\ TypeInv'
    BY TypeStep DEF QuoteInv
  <1>2. CASE UNCHANGED vars
    BY <1>1, <1>2 DEF vars, QuoteInv, Fresh, Offered, Active, QuotedPrice
  <1>3. CASE Next
    <2> SUFFICES ASSUME NEW r \in Requests, req'[r].op = "quote", r \notin changed'
                 PROVE  /\ Offered(req[r].branch, req[r].service)'
                        /\ req'[r].price = QuotedPrice(req[r].branch, req[r].service)'
      BY <1>1 DEF QuoteInv, Fresh
    <2>1. r \notin changed /\ UNCHANGED Rows
      BY <1>3 DEF Next, Watch
    <2>2. CASE req'[r] = req[r]
      BY <2>1, <2>2 DEF QuoteInv, Fresh, Rows, Offered, Active, QuotedPrice
    <2>3. ASSUME NEW b \in Branches, NEW s \in Services, NEW p \in {"none", "given", "default"},
                 Quote(r, b, s, p)
          PROVE  /\ Offered(req[r].branch, req[r].service)'
                 /\ req'[r].price = QuotedPrice(req[r].branch, req[r].service)'
      <3> DEFINE q == [Idle EXCEPT !.op = "quote", !.service = s, !.branch = b,
                                   !.price = QuotedPrice(b, s), !.provider = p,
                                   !.step = IF p = "none" THEN "charge" ELSE "available"]
      <3>1. req'[r] = q /\ Offered(b, s)
        BY <1>1, <2>3 DEF Quote, Remember, TypeInv, TypeOK
      <3>2. q.service = s /\ q.branch = b /\ q.price = QuotedPrice(b, s)
        BY DEF Idle
      <3> HIDE DEF q
      <3> QED
        BY <2>1, <3>1, <3>2 DEF Rows, Offered, Active, QuotedPrice
    <2>4. CASE req[r].op = "quote" /\ Asked(r)
      <3>1. ~ Finish(r)
        BY <1>1 DEF Finish, Idle, TypeInv, TypeOK
      <3> QED
        BY <2>1, <2>4, <3>1 DEF Asked, QuoteInv, Fresh, Rows, Offered, Active, QuotedPrice
    <2> QED
      BY <1>1, <1>3, <2>2, <2>3, <2>4, QuoteCases
  <1> QED
    BY <1>2, <1>3

\* A treatment is charged at the price that the branch shows for it, and only
\* while it shows it as available, unless something was written in between
\* (visits.service.ts:534-563, service-catalog.service.ts:497-513).
THEOREM QuoteShownHolds == Spec => []QuoteShown
  <1>1. Init => QuoteInv
    BY TypeInit DEF Init, QuoteInv, Fresh, Idle
  <1>2. QuoteInv => QuoteShown
    <2> SUFFICES ASSUME QuoteInv, NEW r \in Requests, req[r].step = "charge", r \notin changed
                 PROVE  /\ EffectivelyAvailable(req[r].branch, req[r].service)
                        /\ req[r].price = EffectivePrice(req[r].branch, req[r].service)
      BY DEF QuoteShown
    <2>1. /\ req[r].op = "quote" /\ req[r].branch \in Branches /\ req[r].service \in Services
          /\ TypeInv
      BY DEF QuoteInv, TypeInv, Remembered, Facts, Found
    <2> DEFINE p == <<req[r].branch, req[r].service>>
    <2>2. setting[p] \in SettingRows
      BY <2>1 DEF TypeInv, TypeOK, Places
    <2>3. ~ setting[p].row => setting[p].available
      BY <2>2, SettingShape DEF NoSetting
    <2>4. Fresh(r)
      BY DEF QuoteInv
    <2> QED
      BY <2>1, <2>3, <2>4
      DEF Fresh, EffectivelyAvailable, EffectivePrice, Offered, QuotedPrice
  <1> QED
    BY <1>1, <1>2, QuoteStepInv, PTL DEF Spec

-----------------------------------------------------------------------------
(* What the audit trail and the answers tell.                              *)

\* What a step of r leaves to be shown: what r has read and written is so, and
\* if it wrote a service or a setting, it is a change.
Truthful(r) ==
    /\ Current(req[r])'
    /\ UNCHANGED <<service, setting>> \/ Changing(r)'

LEMMA IdleTruthful ==
  ASSUME TypeInv, NEW r \in Requests, Finish(r), UNCHANGED <<service, setting>>
  PROVE  Truthful(r)
  <1>1. req'[r] = Idle
    BY FinishMoves
  <1> QED
    BY <1>1 DEF Truthful, Current, NamesPrice, OfSetting, Idle

LEMMA CategoryTruthful ==
  ASSUME TypeInv, NEW r \in Requests,
         \/ AddCategory(r) \/ WriteCategory(r)
         \/ \E k \in Categories : WriteNewCategory(r, k)
         \/ \E k \in Categories, on \in BOOLEAN : UpdateCategory(r, k) \/ SwitchCategory(r, k, on)
  PROVE  Truthful(r)
  <1>1. UNCHANGED <<service, setting>>
    BY DEF AddCategory, WriteCategory, WriteNewCategory, UpdateCategory, SwitchCategory, Begin, Rows
  <1>2. req'[r].op \in {"addCategory", "updateCategory", "switchCategory"}
    <2>1. CASE WriteCategory(r) \/ \E k \in Categories : WriteNewCategory(r, k)
      <3>1. Goes(r, "audit")
        BY <2>1, GoToGoes DEF WriteCategory, WriteNewCategory, Steps
      <3> QED
        BY <2>1, <3>1 DEF WriteCategory, WriteNewCategory, Writing, Goes
    <2>2. CASE AddCategory(r)
      BY <2>2 DEF AddCategory, Begin, Remember, Idle, TypeInv, TypeOK
    <2>3. ASSUME NEW k \in Categories, NEW on \in BOOLEAN, UpdateCategory(r, k) \/ SwitchCategory(r, k, on)
          PROVE  req'[r].op \in {"addCategory", "updateCategory", "switchCategory"}
      <3>1. req \in [Requests -> Memories]
        BY DEF TypeInv, TypeOK
      <3>2. CASE UpdateCategory(r, k)
        BY <3>1, <3>2 DEF UpdateCategory, Begin, Remember, Idle
      <3>3. CASE SwitchCategory(r, k, on)
        BY <3>1, <3>3 DEF SwitchCategory, Begin, Remember, Idle
      <3> QED
        BY <2>3, <3>2, <3>3
    <2> QED
      BY <2>1, <2>2, <2>3
  <1> QED
    BY <1>1, <1>2 DEF Truthful, Current, NamesPrice, OfSetting

LEMMA ServiceTruthful ==
  ASSUME TypeInv, NEW r \in Requests,
         \/ \E k \in Categories, p \in Prices : AddService(r, k, p)
         \/ \E s \in Services : WriteNewService(r, s)
         \/ \E s \in Services, k \in Categories \cup {None}, p \in Prices \cup {None} :
               UpdateService(r, s, k, p)
         \/ \E s \in Services, on \in BOOLEAN : SwitchService(r, s, on)
         \/ WriteService(r)
  PROVE  Truthful(r)
  <1>1. req \in [Requests -> Memories]
    BY DEF TypeInv, TypeOK
  <1>2. ASSUME NEW k \in Categories, NEW p \in Prices, AddService(r, k, p) PROVE Truthful(r)
    <2>1. req'[r].op = "addService" /\ req'[r].step = "write" /\ UNCHANGED Rows
      BY <1>1, <1>2 DEF AddService, Begin, Remember, Idle
    <2> QED
      BY <2>1 DEF Truthful, Current, NamesPrice, OfSetting, Rows
  <1>3. ASSUME NEW s \in Services, WriteNewService(r, s) PROVE Truthful(r)
    <2> DEFINE x == [category |-> req[r].category, price |-> req[r].price, active |-> TRUE]
               q == [req[r] EXCEPT !.step = "audit", !.service = s]
    <2>1. /\ req[r].op = "addService" /\ req[r] \in Memories
          /\ service' = [service EXCEPT ![s] = x] /\ req'[r] = q
      BY <1>1, <1>3 DEF WriteNewService, Writing, Remember
    <2>2. q.op = "addService" /\ q.step = "audit" /\ q.service = s /\ q.price = req[r].price
      BY <2>1 DEF Memories
    <2>3. service'[s].price = req[r].price
      BY <2>1 DEF TypeInv, TypeOK
    <2> HIDE DEF q, x
    <2> QED
      BY <2>1, <2>2, <2>3 DEF Truthful, Current, NamesPrice, OfSetting, Changing
  <1>4. ASSUME NEW s \in Services, NEW k \in Categories \cup {None}, NEW p \in Prices \cup {None},
               UpdateService(r, s, k, p)
        PROVE  Truthful(r)
    <2> DEFINE q == [Idle EXCEPT !.op = "updateService", !.service = s, !.category = k,
                                 !.price = p, !.was = service[s].price, !.step = "write"]
    <2>1. req'[r] = q /\ UNCHANGED Rows
      BY <1>1, <1>4 DEF UpdateService, Begin, Remember
    <2>2. q.op = "updateService" /\ q.step = "write" /\ q.service = s /\ q.was = service[s].price
      BY DEF Idle
    <2> HIDE DEF q
    <2> QED
      BY <2>1, <2>2 DEF Truthful, Current, NamesPrice, OfSetting, Rows
  <1>5. ASSUME NEW s \in Services, NEW on \in BOOLEAN, SwitchService(r, s, on) PROVE Truthful(r)
    <2>1. req'[r].op = "switchService" /\ UNCHANGED Rows
      BY <1>1, <1>5 DEF SwitchService, Begin, Remember, Idle
    <2> QED
      BY <2>1 DEF Truthful, Current, NamesPrice, OfSetting, Rows
  <1>6. CASE WriteService(r)
    <2>1. /\ service' = [service EXCEPT ![req[r].service] = ServiceAfter(req[r])]
          /\ req[r].op \in {"updateService", "switchService"} /\ Goes(r, "audit")
      BY <1>6, GoToGoes DEF WriteService, Writing, Steps
    <2>2. /\ req[r].service \in Services
          /\ req[r].op = "updateService" /\ req[r].price # None =>
                ServiceAfter(req[r]).price = req[r].price
      BY <1>6, ServiceAfterShape
    <2>3. service'[req[r].service] = ServiceAfter(req[r])
      BY <2>1, <2>2 DEF TypeInv, TypeOK
    <2> QED
      BY <2>1, <2>2, <2>3 DEF Goes, Truthful, Current, NamesPrice, OfSetting, Changing
  <1> QED
    BY <1>2, <1>3, <1>4, <1>5, <1>6

LEMMA SettingTruthful ==
  ASSUME TypeInv, NEW r \in Requests, Current(req[r]), Setting(r) \/ Audit(r)
  PROVE  Truthful(r)
  <1>1. req \in [Requests -> Memories]
    BY DEF TypeInv, TypeOK
  <1>2. ASSUME NEW b \in Branches, NEW s \in Services, NEW on \in BOOLEAN,
               NEW p \in Overrides \cup {None}, Configure(r, b, s, on, p)
        PROVE  Truthful(r)
    <2> DEFINE q == [Idle EXCEPT !.op = "configure", !.service = s, !.branch = b, !.on = on,
                                 !.price = p, !.had = setting[<<b, s>>], !.step = "write"]
    <2>1. req'[r] = q /\ UNCHANGED Rows
      BY <1>1, <1>2 DEF Configure, Begin, Remember
    <2>2. /\ q.op = "configure" /\ q.step = "write" /\ q.service = s /\ q.branch = b
          /\ q.had = setting[<<b, s>>]
      BY DEF Idle
    <2> HIDE DEF q
    <2> QED
      BY <2>1, <2>2 DEF Truthful, Current, NamesPrice, OfSetting, Rows
  <1>3. ASSUME NEW b \in Branches, NEW s \in Services, Reset(r, b, s) PROVE Truthful(r)
    <2>1. req'[r].op = "reset" /\ req'[r].step = "write" /\ UNCHANGED Rows
      BY <1>1, <1>3 DEF Reset, Begin, Remember, Idle
    <2> QED
      BY <2>1 DEF Truthful, Current, NamesPrice, OfSetting, Rows
  <1>4. CASE WriteSetting(r)
    <2>1. /\ setting' = [setting EXCEPT ![<<req[r].branch, req[r].service>>] = SettingAfter(req[r])]
          /\ req[r].op \in {"configure", "reset"} /\ Goes(r, "audit")
      BY <1>4, GoToGoes DEF WriteSetting, Writing, Steps
    <2>2. <<req[r].branch, req[r].service>> \in Places
      BY <2>1, SettingAfterShape
    <2>3. setting'[<<req[r].branch, req[r].service>>] = SettingAfter(req[r])
      BY <2>1, <2>2 DEF TypeInv, TypeOK
    <2>4. SettingAfter(req[r])' = SettingAfter(req[r])
      BY <2>1 DEF Goes, SettingAfter
    <2> QED
      BY <2>1, <2>3, <2>4 DEF Goes, Truthful, Current, NamesPrice, Changing
  <1>5. CASE Audit(r) /\ OfSetting(req[r])
    <2>1. Goes(r, "answer") /\ UNCHANGED Rows /\ req[r].step = "audit"
      BY <1>5, GoToGoes DEF Audit, Steps
    <2>2. SettingAfter(req[r])' = SettingAfter(req[r])
      BY <2>1 DEF Goes, SettingAfter
    <2> QED
      BY <1>5, <2>1, <2>2 DEF Goes, Truthful, Current, NamesPrice, OfSetting, Rows
  <1>6. CASE Audit(r) /\ ~ OfSetting(req[r])
    BY <1>6, IdleTruthful DEF Audit, Rows
  <1>7. CASE Answer(r)
    BY <1>7, IdleTruthful DEF Answer, Rows
  <1> QED
    BY <1>2, <1>3, <1>4, <1>5, <1>6, <1>7 DEF Setting

\* A quote has read nothing that is audited.
LEMMA QuotingTruthful ==
  ASSUME TypeInv, NEW r \in Requests, Quoting(r)
  PROVE  OthersStay(r) /\ Truthful(r)
  <1>1. req \in [Requests -> Memories]
    BY DEF TypeInv, TypeOK
  <1>2. ASSUME NEW b \in Branches, NEW s \in Services, NEW p \in {"none", "given", "default"},
               Quote(r, b, s, p)
        PROVE  OthersStay(r) /\ Truthful(r)
    <2>1. req'[r].op = "quote" /\ OthersStay(r) /\ UNCHANGED Rows
      BY <1>1, <1>2 DEF Quote, Remember, Idle, OthersStay
    <2> QED
      BY <2>1 DEF Truthful, Current, NamesPrice, OfSetting, Rows
  <1>3. CASE AskAvailable(r) \/ AskProvider(r)
    <2>1. UNCHANGED Rows /\ Asked(r)
      BY <1>3, AskAsked
    <2>2. CASE Finish(r)
      BY <1>1, <2>1, <2>2, IdleTruthful DEF Rows, Finish, OthersStay
    <2>3. CASE ~ Finish(r)
      BY <1>1, <2>1, <2>3
      DEF Asked, Moves, OthersStay, Truthful, Current, NamesPrice, OfSetting, Rows
    <2> QED
      BY <2>2, <2>3
  <1>4. CASE Charge(r)
    BY <1>1, <1>4, IdleTruthful DEF Charge, Rows, Finish, OthersStay
  <1> QED
    BY <1>2, <1>3, <1>4 DEF Quoting

LEMMA SerialStep == SerialInv /\ [Next]_vars => SerialInv'
  <1> SUFFICES ASSUME SerialInv, [Next]_vars PROVE SerialInv'
    OBVIOUS
  <1>1. TypeInv /\ TypeInv'
    BY TypeStep DEF SerialInv
  <1>2. CASE UNCHANGED vars
    <2>1. Serial'
      BY <1>2 DEF SerialInv, Serial, Alone, Changing, Current, NamesPrice, OfSetting, SettingAfter,
                  vars
    <2> QED
      BY <1>1, <2>1 DEF SerialInv
  <1>3. CASE Next /\ overlapped'
    BY <1>1, <1>3 DEF SerialInv, Serial
  <1>4. CASE Next /\ ~ overlapped'
    <2>1. ~ overlapped /\ \A r, o \in Requests : r # o => ~ (req'[r].op \notin {"none", "quote"}
                                                           /\ req'[o].op \notin {"none", "quote"})
      BY <1>4 DEF Next, Watch, Changing
    <2>2. Alone'
      BY <2>1 DEF Alone, Changing
    <2>3. \A r \in Requests : Current(req[r])
      BY <2>1 DEF SerialInv, Serial
    <2>4. ASSUME NEW o \in Requests, OthersStay(o), Truthful(o), NEW r \in Requests
          PROVE  Current(req[r])'
      <3>1. CASE r = o
        BY <2>4, <3>1 DEF Truthful
      <3>2. CASE r # o /\ UNCHANGED <<service, setting>>
        <4>1. req'[r] = req[r] /\ Current(req[r])
          BY <2>3, <2>4, <3>2 DEF OthersStay
        <4> QED
          BY <3>2, <4>1 DEF Current, NamesPrice, OfSetting, SettingAfter
      <3>3. CASE r # o /\ Changing(o)'
        <4>1. req'[r].op \in {"none", "quote"}
          BY <2>1, <3>3 DEF Changing
        <4> QED
          BY <4>1 DEF Current, NamesPrice, OfSetting
      <3> QED
        BY <2>4, <3>1, <3>2, <3>3 DEF Truthful
    <2>5. ASSUME NEW b \in Branches, SwitchBranch(b), NEW r \in Requests PROVE Current(req[r])'
      <3>1. UNCHANGED <<service, setting, req>> /\ Current(req[r])
        BY <2>3, <2>5 DEF SwitchBranch
      <3> QED
        BY <3>1 DEF Current, NamesPrice, OfSetting, SettingAfter
    <2>6. ASSUME NEW o \in Requests, Listing(o) PROVE OthersStay(o) /\ Truthful(o)
      <3>1. CASE Refuse(o)
        BY <1>1, <2>6, <3>1, ListingServes, IdleTruthful DEF Refuse, Rows
      <3>2. CASE ~ Refuse(o)
        BY <1>1, <2>6, <3>2, ListingServes, CategoryTruthful, ServiceTruthful DEF Listing
      <3> QED
        BY <3>1, <3>2
    <2>7. ASSUME NEW o \in Requests, Setting(o) \/ Audit(o) PROVE OthersStay(o) /\ Truthful(o)
      BY <1>1, <2>3, <2>7, SettingServes, SettingTruthful
    <2>8. ASSUME NEW o \in Requests, Stop(o) PROVE OthersStay(o) /\ Truthful(o)
      BY <1>1, <2>8, SettingServes, IdleTruthful DEF Stop, Rows
    <2>9. ASSUME NEW o \in Requests, Quoting(o) PROVE OthersStay(o) /\ Truthful(o)
      BY <1>1, <2>9, QuotingTruthful
    <2>10. \A r \in Requests : Current(req[r])'
      BY <1>4, <2>4, <2>5, <2>6, <2>7, <2>8, <2>9 DEF Next
    <2> QED
      BY <1>1, <2>2, <2>10 DEF SerialInv, Serial
  <1> QED
    BY <1>2, <1>3, <1>4

LEMMA SerialInvariant == Spec => []SerialInv
  <1>1. Init => SerialInv
    BY TypeInit DEF Init, SerialInv, Serial, Alone, Changing, Current, NamesPrice, OfSetting, Idle
  <1> QED
    BY <1>1, SerialStep, PTL DEF Spec

\* Until two changes overlap, an audit row names the price or the setting that
\* the write replaced, and what it says is there now is still stored when it is
\* added (service-catalog.service.ts:310-336 and 393-436).
THEOREM TrailTrueHolds == Spec => TrailTrue
  <1> DEFINE Told ==
        overlapped \/ \A r \in Requests :
          LET q == req[r] IN
          /\ WriteService(r) /\ NamesPrice(q) => q.was = service[q.service].price
          /\ WriteSetting(r) /\ q.op = "configure" => q.had = setting[<<q.branch, q.service>>]
          /\ Audit(r) /\ NamesPrice(q) => q.price = service[q.service].price
          /\ Audit(r) /\ OfSetting(q) => setting[<<q.branch, q.service>>] = SettingAfter(q)
  <1>1. SerialInv => Told
    <2> SUFFICES ASSUME SerialInv, ~ overlapped, NEW r \in Requests
                 PROVE  LET q == req[r] IN
          /\ WriteService(r) /\ NamesPrice(q) => q.was = service[q.service].price
          /\ WriteSetting(r) /\ q.op = "configure" => q.had = setting[<<q.branch, q.service>>]
          /\ Audit(r) /\ NamesPrice(q) => q.price = service[q.service].price
          /\ Audit(r) /\ OfSetting(q) => setting[<<q.branch, q.service>>] = SettingAfter(q)
      OBVIOUS
    <2>1. Current(req[r])
      BY DEF SerialInv, Serial
    <2>2. WriteService(r) /\ NamesPrice(req[r]) => req[r].step = "write" /\ req[r].op = "updateService"
      BY DEF WriteService, Writing, NamesPrice
    <2>3. WriteSetting(r) => req[r].step = "write"
      BY DEF WriteSetting, Writing
    <2>4. Audit(r) => req[r].step = "audit"
      BY DEF Audit
    <2> QED
      BY <2>1, <2>2, <2>3, <2>4 DEF Current
  <1>2. Spec => [][Told]_vars
    <2> HIDE DEF Told
    <2> QED
      BY <1>1, SerialInvariant, PTL
  <1> QED
    BY <1>2 DEF TrailTrue

\* Until two changes overlap, a branch setting is answered with what was asked
\* for, and a reset with the default (service-catalog.service.ts:437 and 461).
THEOREM AnswerTrueHolds == Spec => AnswerTrue
  <1> DEFINE Told ==
        overlapped \/ \A r \in Requests :
          LET q == req[r] IN
          Answer(r) /\ q.branch \in open =>
            /\ EffectivePrice(q.branch, q.service) =
                  IF q.op = "configure" /\ q.price # None THEN q.price
                  ELSE service[q.service].price
            /\ EffectivelyAvailable(q.branch, q.service) <=>
                  Active(q.service) /\ (q.op = "configure" => q.on)
  <1>1. SerialInv => Told
    <2> SUFFICES ASSUME SerialInv, ~ overlapped, NEW r \in Requests, Answer(r)
                 PROVE  LET q == req[r] IN
            /\ EffectivePrice(q.branch, q.service) =
                  IF q.op = "configure" /\ q.price # None THEN q.price
                  ELSE service[q.service].price
            /\ EffectivelyAvailable(q.branch, q.service) <=>
                  Active(q.service) /\ (q.op = "configure" => q.on)
      OBVIOUS
    <2> DEFINE q == req[r]
               x == setting[<<q.branch, q.service>>]
    <2>1. q.step = "answer" /\ Current(q) /\ Facts(q)
      BY DEF Answer, SerialInv, Serial, TypeInv, Remembered
    <2>2. q.op \in {"configure", "reset"} /\ x = SettingAfter(q)
      BY <2>1 DEF Current, Facts, OfSetting
    <2>3. CASE q.op = "configure"
      <3>1. x = [available |-> q.on, override |-> q.price, row |-> TRUE]
        BY <2>2, <2>3 DEF SettingAfter
      <3>2. x.available = q.on /\ x.override = q.price
        BY <3>1
      <3> QED
        BY <2>3, <3>2 DEF EffectivePrice, EffectivelyAvailable
    <2>4. CASE q.op = "reset"
      <3>1. x.available = TRUE /\ x.override = None
        BY <2>2, <2>4 DEF SettingAfter, NoSetting
      <3> QED
        BY <2>4, <3>1 DEF EffectivePrice, EffectivelyAvailable
    <2> QED
      BY <2>2, <2>3, <2>4
  <1>2. Spec => [][Told]_vars
    <2> HIDE DEF Told
    <2> QED
      BY <1>1, SerialInvariant, PTL
  <1> QED
    BY <1>2 DEF AnswerTrue
=============================================================================

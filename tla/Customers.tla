------------------------------ MODULE Customers ------------------------------
(***************************************************************************)
(* The customers of the salons and the phone numbers they are found by:    *)
(* create, update and setActive of CustomersService, which look for        *)
(* another active customer of the salon with the phone number and write    *)
(* afterwards, outside any transaction, under a partial unique index       *)
(* (migrations/20260926000000_stage_3_customers).                          *)
(*                                                                         *)
(* A phone number is its normalized form, and None when there is none.  An *)
(* update that does not mention the phone changes nothing here.            *)
(***************************************************************************)
EXTENDS FiniteSets

CONSTANTS
    Ids,       \* the Customer rows there may be
    Phones,    \* normalized phone numbers
    TenantOf,  \* the salon of each row
    Slots,     \* slots for requests being served at the same time
    None       \* no phone number, and no row

ASSUME NoneAssumption == None \notin Phones

VARIABLES
    phone,      \* the normalizedPhone of each customer
    active,     \* the customers whose isActive is set
    exists,     \* the customers with a row
    pending,    \* what each request being served is about to write
    everOverlapped  \* history: whether two requests have ever been served at once

customerVars == <<phone, active, exists, pending, everOverlapped>>

-----------------------------------------------------------------------------
NoWrite == [op |-> "none"]

\* on: what isActive is set to; number: the phone number that was checked.
Writes == [op : {"create", "update", "setActive"}, id : Ids,
           number : Phones \cup {None}, on : BOOLEAN]

CustomersInit ==
    /\ phone = [c \in Ids |-> None]
    /\ active = {}
    /\ exists = {}
    /\ pending = [r \in Slots |-> NoWrite]
    /\ everOverlapped = FALSE

-----------------------------------------------------------------------------
\* The active customers of the salon of c with this number, other than c.
Others(c, number) ==
    {d \in active \ {c} : TenantOf[d] = TenantOf[c] /\ phone[d] = number}

\* requireUniquePhone.
Unique(c, number) == number = None \/ Others(c, number) = {}

Serve(r, w) ==
    /\ pending[r] = NoWrite
    /\ pending' = [pending EXCEPT ![r] = w]
    /\ UNCHANGED <<phone, active, exists>>

CheckCreate(r, c, number) ==
    /\ c \notin exists
    /\ \A o \in Slots : pending[o] # NoWrite => pending[o].id # c
    /\ Unique(c, number)
    /\ Serve(r, [op |-> "create", id |-> c, number |-> number, on |-> TRUE])

CheckUpdate(r, c, number) ==
    /\ c \in exists
    /\ Unique(c, number)
    /\ Serve(r, [op |-> "update", id |-> c, number |-> number, on |-> TRUE])

\* Wrong on purpose: who comes back is not looked up.
CheckSetActiveNever(r, c, on) ==
    /\ c \in exists
    /\ Serve(r, [op |-> "setActive", id |-> c, number |-> phone[c], on |-> on])

CheckSetActive(r, c, on) ==
    /\ c \in exists
    /\ on => Unique(c, phone[c])
    /\ Serve(r, [op |-> "setActive", id |-> c, number |-> phone[c], on |-> on])

-----------------------------------------------------------------------------
\* The row that the write leaves: setActive writes isActive only, whatever the
\* number has become.
NumberAfter(w) == IF w.op = "setActive" THEN phone[w.id] ELSE w.number
ActiveAfter(w) ==
    \/ w.op = "create"
    \/ w.op = "update" /\ w.id \in active
    \/ w.op = "setActive" /\ w.on

\* Wrong on purpose: the number that was checked is held against the index, not
\* the one that is there.
RefusesChecked(w) == ActiveAfter(w) /\ w.op # "setActive" /\ Others(w.id, w.number) # {}
                     /\ w.number # None

\* Customer_active_phone_key.
Refuses(w) ==
    /\ ActiveAfter(w)
    /\ NumberAfter(w) # None
    /\ Others(w.id, NumberAfter(w)) # {}

Write(r) ==
    LET w == pending[r] IN
    /\ w # NoWrite
    /\ ~ Refuses(w)
    /\ exists' = exists \cup {w.id}
    /\ phone' = [phone EXCEPT ![w.id] = NumberAfter(w)]
    /\ active' = IF ActiveAfter(w) THEN active \cup {w.id} ELSE active \ {w.id}
    /\ pending' = [pending EXCEPT ![r] = NoWrite]

\* CUSTOMER_PHONE_EXISTS from the index, or a fault.
Fail(r) ==
    /\ pending[r] # NoWrite
    /\ pending' = [pending EXCEPT ![r] = NoWrite]
    /\ UNCHANGED <<phone, active, exists>>

Handling(r) ==
    \/ \E c \in Ids, n \in Phones \cup {None} : CheckCreate(r, c, n) \/ CheckUpdate(r, c, n)
    \/ \E c \in Ids, on \in BOOLEAN : CheckSetActive(r, c, on)
    \/ Write(r)
    \/ Fail(r)

UnderWay(r) == pending[r] # NoWrite

\* The history only watches; no step depends on it.
WatchOverlap == everOverlapped' = (everOverlapped \/ \E r, s \in Slots : r # s /\ UnderWay(r)' /\ UnderWay(s)')

CustomersNext == (\E r \in Slots : Handling(r)) /\ WatchOverlap

CustomersSpec == CustomersInit /\ [][CustomersNext]_customerVars

-----------------------------------------------------------------------------
\* Every part of the state has its type, and the customers who are active exist.
CustomersTypeOK ==
    /\ phone \in [Ids -> Phones \cup {None}]
    /\ active \subseteq exists /\ exists \subseteq Ids
    /\ pending \in [Slots -> Writes \cup {NoWrite}]
    /\ everOverlapped \in BOOLEAN
    /\ \A r \in Slots : pending[r] # NoWrite /\ pending[r].op # "create" => pending[r].id \in exists

\* Two active customers of a salon never have the same phone number, whatever
\* was checked when, and however numbers move while somebody who is inactive
\* comes back (customers.service.ts:164-191, 215-232, and the index).
PhoneUnique ==
    \A c, d \in active :
        c # d /\ TenantOf[c] = TenantOf[d] /\ phone[c] # None => phone[c] # phone[d]

\* Until two requests overlap the check is all it takes: nothing that passes
\* it is turned away by the index afterwards (customers.service.ts:47, 129, 172).
CheckSuffices == everOverlapped \/ \A r \in Slots : pending[r] # NoWrite => ~ Refuses(pending[r])
=============================================================================

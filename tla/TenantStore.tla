------------------------------ MODULE TenantStore ------------------------------
(***************************************************************************)
(* The tenants, the index from a WhatsApp number to its tenant, and the    *)
(* file they are saved to.  byPhone and byLinkedSession are one index: a   *)
(* number is a phone number id or a session id, and is its own entry id.   *)
(* Every operation is one synchronous handler: it changes the maps, then   *)
(* rewrites the file, which may fail before or after truncating it.        *)
(***************************************************************************)
EXTENDS Naturals

CONSTANTS Tenants, Numbers, Policies

VARIABLES byId,       \* tenant id -> the tenant, or NoTenant
          routes,     \* number -> the tenant it is indexed under
          file, torn  \* what the file holds, and whether it was cut short

store == <<byId, routes, file, torn>>

NoTenant == [id |-> "none"]

ASSUME TenantIds == "none" \notin Tenants

(* legacy: the flat phoneNumberId or sessionId, at most one; listed: the   *)
(* numbers array is there, and replaces it.                                *)
Tenant == [id : Tenants, legacy : SUBSET Numbers, listed : BOOLEAN,
           numbers : SUBSET Numbers, policy : Policies, shadow : BOOLEAN]

Known(t) == byId[t].id = t
TenantNumbers(o) ==
    IF o.id = "none" THEN {} ELSE IF o.listed THEN o.numbers ELSE o.legacy

StoreTypeOK ==
    /\ byId \in [Tenants -> Tenant \cup {NoTenant}]
    /\ routes \in [Numbers -> Tenant \cup {NoTenant}]
    /\ file \in [Tenants -> Tenant \cup {NoTenant}]
    /\ torn \in BOOLEAN
    /\ \A t \in Tenants : byId[t].id \in {t, "none"} /\ file[t].id \in {t, "none"}

(* No two tenants of a map claim one number: the constructor of the store  *)
(* throws on a file for which this fails.                                  *)
Disjoint(tenants) ==
    \A t, u \in Tenants :
        t # u => TenantNumbers(tenants[t]) \cap TenantNumbers(tenants[u]) = {}

(* validateTenants asks for the flat number, whatever the numbers array    *)
(* says: phoneNumberId of a cloud tenant, sessionId of a linked device.    *)
ValidTenant(o) == o.legacy # {}

(* What loadConfig asks of the file at a start: a tenant at least, each    *)
(* of them valid.                                                          *)
Accepted(tenants) ==
    /\ \E t \in Tenants : tenants[t] # NoTenant
    /\ \A t \in Tenants : tenants[t] # NoTenant => ValidTenant(tenants[t])

(* The index the constructor builds.                                       *)
RoutesOf(tenants) ==
    [n \in Numbers |->
        IF \E t \in Tenants : n \in TenantNumbers(tenants[t])
        THEN tenants[CHOOSE t \in Tenants : n \in TenantNumbers(tenants[t])]
        ELSE NoTenant]

Outcomes == {"written", "unwritten", "cut", "duplicate"}

Persist(outcome) ==
    \/ outcome = "written" /\ file' = byId' /\ torn' = FALSE
    \/ outcome = "unwritten" /\ UNCHANGED <<file, torn>>
    \/ outcome = "cut" /\ torn' = TRUE /\ UNCHANGED file

Deindexed(o) ==
    [n \in Numbers |-> IF n \in TenantNumbers(o) THEN NoTenant ELSE routes[n]]

Taken(o) ==
    {n \in TenantNumbers(o) : Deindexed(byId[o.id])[n].id \notin {o.id, "none"}}

IndexBeforeDeindex(o, outcome) ==       \* mutant: the old entries go last
    /\ outcome # "duplicate" /\ Taken(o) = {}
    /\ byId' = [byId EXCEPT ![o.id] = o]
    /\ routes' = [n \in Numbers |->
            IF n \in TenantNumbers(byId[o.id]) THEN NoTenant
            ELSE IF n \in TenantNumbers(o) THEN o ELSE routes[n]]
    /\ Persist(outcome)

(* _index takes the old tenant out before it looks for duplicates: one     *)
(* that is refused leaves neither, and the numbers it had got to route to  *)
(* the object that was refused.                                            *)
Index(o, outcome) ==
    \/ /\ outcome # "duplicate" /\ Taken(o) = {}
       /\ byId' = [byId EXCEPT ![o.id] = o]
       /\ routes' = [n \in Numbers |->
               IF n \in TenantNumbers(o) THEN o ELSE Deindexed(byId[o.id])[n]]
       /\ Persist(outcome)
    \/ /\ outcome = "duplicate" /\ Taken(o) # {}
       /\ byId' = [byId EXCEPT ![o.id] = NoTenant]
       /\ \E indexed \in SUBSET (TenantNumbers(o) \ Taken(o)) :
             routes' = [n \in Numbers |->
                 IF n \in indexed THEN o ELSE Deindexed(byId[o.id])[n]]
       /\ UNCHANGED <<file, torn>>

Create(o, outcome) == byId[o.id] = NoTenant /\ Index(o, outcome)

Update(o, outcome) == Known(o.id) /\ Index(o, outcome)

(* A tenant whose array is empty is taken for one of the flat format.      *)
AddNumber(t, n, outcome) ==
    LET old == byId[t]
        base == IF old.listed /\ old.numbers # {} THEN old.numbers ELSE old.legacy
    IN  /\ Known(t) /\ n \notin base
        /\ Index([old EXCEPT !.listed = TRUE, !.numbers = base \cup {n}], outcome)

RemoveNumber(t, n, outcome) ==
    LET old == byId[t]
    IN  /\ Known(t) /\ old.listed /\ n \in old.numbers
        /\ Index([old EXCEPT !.numbers = old.numbers \ {n}], outcome)

Delete(t, outcome) ==
    /\ Known(t) /\ outcome # "duplicate"
    /\ byId' = [byId EXCEPT ![t] = NoTenant]
    /\ routes' = Deindexed(byId[t])
    /\ Persist(outcome)

(* The process starts again from what it last wrote, if loadConfig and the *)
(* constructor take it: no operation above asks for what Accepted does, so *)
(* that a tenant without its flat number, or the last one's end, is saved  *)
(* and the process stays down.                                             *)
Load ==
    /\ ~ torn /\ Accepted(file) /\ Disjoint(file)
    /\ byId' = file /\ routes' = RoutesOf(file)
    /\ UNCHANGED <<file, torn>>

StoreInit ==
    /\ file \in [Tenants -> Tenant \cup {NoTenant}] /\ torn = FALSE
    /\ \A t \in Tenants : file[t].id \in {t, "none"}
    /\ Accepted(file) /\ Disjoint(file)
    /\ byId = file /\ routes = RoutesOf(file)

StoreNext ==
    \/ \E outcome \in Outcomes :
          \/ \E o \in Tenant : Create(o, outcome) \/ Update(o, outcome)
          \/ \E t \in Tenants, n \in Numbers :
                AddNumber(t, n, outcome) \/ RemoveNumber(t, n, outcome)
          \/ \E t \in Tenants : Delete(t, outcome)
    \/ Load

StoreSpec == StoreInit /\ [][StoreNext]_store

(* A tenant that is listed is the one each of its numbers leads to,        *)
(* whatever changes were refused or not saved before.                      *)
LiveTenantsAreRouted ==
    \A t \in Tenants : Known(t) =>
        \A n \in TenantNumbers(byId[t]) : routes[n] = byId[t]

(* No number is saved for two tenants: of a file that was written to its   *)
(* end the constructor refuses none.  loadConfig may: see Accepted.        *)
SavedNumbersAreDistinct == Disjoint(file)

(* The types, and the two above: what the supervisor's runs rely on.       *)
StoreInv == StoreTypeOK /\ LiveTenantsAreRouted /\ SavedNumbersAreDistinct
=============================================================================

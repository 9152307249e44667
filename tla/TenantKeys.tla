---- MODULE TenantKeys ----
\* Authentication (src/api/auth.py) against the tenant registry
\* (src/platform/tenant_registry.py) while the tenant routes change it, and the answers
\* exceptions become (src/common/error_handling.py). Single-tenant mode and the
\* super-admin key, which read no shared state, are left out.
EXTENDS Integers, FiniteSets

CONSTANTS
    Requests, Tenants, Keys,
    MaxEvents,   \* bound: registry changes and failing Redis calls
    None

VARIABLES
    hash,      \* per API key: the tenant of tenant:api_keys
    index,     \* per tenant: tenant:api_keys_idx
    record,    \* per tenant: its status, or None
    req,
    edit,      \* update_tenant: the record it read
    removal,   \* unregister: what it read
    gone,      \* history: keys once in the hash and removed from it
    raced,     \* history: keys generated inside an unregister of their tenant
    events

vars == <<hash, index, record, req, edit, removal, gone, raced, events>>
registry == <<hash, index, record, edit, removal, gone, raced>>

New == [pc |-> "new", key |-> None, hint |-> None, tenant |-> None,
        late |-> FALSE, ran |-> FALSE, answer |-> "none"]

Init ==
    /\ hash = [k \in Keys |-> None]
    /\ index = [t \in Tenants |-> {}]
    /\ record \in [Tenants -> {None, "active"}]
    /\ req = [r \in Requests |-> New]
    /\ edit = None /\ removal = None
    /\ gone = {} /\ raced = {}
    /\ events = 0

Event == events < MaxEvents /\ events' = events + 1
At(r, pc) == req[r].pc = pc
Known(t) == record[t] # None
Stored(t, s) == [record EXCEPT ![t] = s]
Ended(r, a) == [New EXCEPT !.pc = "done", !.answer = a, !.late = req[r].late]
Ends(r, a) == req' = [req EXCEPT ![r] = Ended(r, a)]

Arrive(r, k, h) ==
    /\ At(r, "new")
    /\ req' = [req EXCEPT ![r].pc = "verify", ![r].key = k, ![r].hint = h, ![r].late = k \in gone]
    /\ UNCHANGED <<registry, events>>

\* validate_key: the hash gives the tenant, the header may contradict it, then the
\* tenant's record is read
Matches(r) == hash[req[r].key] # None /\ req[r].hint \in {None, hash[req[r].key]}
Verify(r) ==
    /\ At(r, "verify")
    /\ IF Matches(r)
       THEN req' = [req EXCEPT ![r].pc = "record", ![r].tenant = hash[req[r].key]]
       ELSE Ends(r, "401")
    /\ UNCHANGED <<registry, events>>
ReadRecord(r) ==
    /\ At(r, "record")
    /\ CASE ~Known(req[r].tenant) -> Ends(r, "401")
         [] record[req[r].tenant] = "suspended" -> Ends(r, "403")
         [] OTHER -> req' = [req EXCEPT ![r].pc = "handler"]
    /\ UNCHANGED <<registry, events>>

\* log_errors: a failing GET of the record is swallowed and reads as no tenant; a
\* failing HGET is not wrapped
RegistryFails(r) ==
    /\ req[r].pc \in {"verify", "record"}
    /\ Event
    /\ Ends(r, IF At(r, "record") THEN "401" ELSE "500")
    /\ UNCHANGED registry

\* The registered exception handlers
Response(o) == CASE o = "ok" -> "200" [] o = "business" -> "400"
                 [] o = "external" -> "503" [] o = "system" -> "500"
Handle(r) ==
    /\ At(r, "handler")
    /\ \E o \in {"ok", "business", "external", "system"} :
          req' = [req EXCEPT ![r] = [Ended(r, Response(o)) EXCEPT !.ran = TRUE]]
    /\ UNCHANGED <<registry, events>>

----
\* The tenant routes; none of them excludes another
Register(t) ==
    /\ Event
    /\ record' = Stored(t, "active")
    /\ UNCHANGED <<hash, index, req, edit, removal, gone, raced>>
UpdateRead(t) ==
    /\ edit = None /\ Known(t) /\ Event
    /\ edit' = [tenant |-> t, status |-> record[t]]
    /\ UNCHANGED <<hash, index, record, req, removal, gone, raced>>
UpdateWrite ==
    /\ edit # None
    /\ \E s \in {edit.status, "active", "suspended"} : record' = Stored(edit.tenant, s)
    /\ edit' = None
    /\ UNCHANGED <<hash, index, req, removal, gone, raced, events>>

Generate(k, t) ==
    /\ hash[k] = None /\ k \notin gone /\ Event
    /\ hash' = [hash EXCEPT ![k] = t]
    /\ index' = [index EXCEPT ![t] = @ \cup {k}]
    /\ raced' = IF removal # None /\ removal.tenant = t THEN raced \cup {k} ELSE raced
    /\ UNCHANGED <<record, req, edit, removal, gone>>
\* No route calls it; the tenant given need not be the key's
Revoke(k, t) ==
    /\ hash[k] # None /\ Event
    /\ hash' = [hash EXCEPT ![k] = None]
    /\ index' = [index EXCEPT ![t] = @ \ {k}]
    /\ gone' = gone \cup {k}
    /\ UNCHANGED <<record, req, edit, removal, raced>>

\* unregister: SMEMBERS, one pipeline of HDELs and DEL, then the record
UnregisterRead(t) ==
    /\ removal = None /\ Event
    /\ removal' = [tenant |-> t, keys |-> index[t], pc |-> IF index[t] = {} THEN "record" ELSE "keys"]
    /\ UNCHANGED <<hash, index, record, req, edit, gone, raced>>
RemovedNone(ks) == {}
Removed(ks) == ks
UnregisterKeys ==
    /\ removal # None /\ removal.pc = "keys"
    /\ hash' = [k \in Keys |-> IF k \in Removed(removal.keys) THEN None ELSE hash[k]]
    /\ index' = [index EXCEPT ![removal.tenant] = {}]
    /\ gone' = gone \cup removal.keys
    /\ removal' = [removal EXCEPT !.pc = "record"]
    /\ UNCHANGED <<record, req, edit, raced, events>>
UnregisterRecord ==
    /\ removal # None /\ removal.pc = "record"
    /\ record' = [record EXCEPT ![removal.tenant] = None]
    /\ removal' = None
    /\ UNCHANGED <<hash, index, req, edit, gone, raced, events>>

\* A request, and the tenant routes: the API and its two services (src/scheduler_ops_api,
\* src/scheduler_task_api) share this code
KeyCheck(r) == Verify(r) \/ ReadRecord(r)
Authenticate(r) ==
    \/ \E k \in Keys, h \in Tenants \cup {None} : Arrive(r, k, h)
    \/ KeyCheck(r) \/ RegistryFails(r)
Unregister == (\E t \in Tenants : UnregisterRead(t)) \/ UnregisterKeys \/ UnregisterRecord
TenantRoutes ==
    \/ \E t \in Tenants : Register(t) \/ UpdateRead(t)
    \/ \E k \in Keys, t \in Tenants : Generate(k, t)
    \/ UpdateWrite \/ Unregister
Authentication == \E r \in Requests : Authenticate(r)
Next ==
    \/ Authentication \/ TenantRoutes
    \/ \E r \in Requests : Handle(r)
    \/ \E k \in Keys, t \in Tenants : Revoke(k, t)
Spec == Init /\ [][Next]_vars

----
TypeOK ==
    /\ hash \in [Keys -> Tenants \cup {None}]
    /\ index \in [Tenants -> SUBSET Keys]
    /\ record \in [Tenants -> {None, "active", "suspended"}]
    /\ \A r \in Requests : req[r].ran => At(r, "done")

\* A key in the hash is in its tenant's index, where unregister finds it, unless it
\* was generated while an unregister of that tenant was under way.
KeysIndexed == \A k \in Keys : hash[k] # None /\ k \notin raced => k \in index[hash[k]]

\* A request that comes after its key was revoked, by itself or with its tenant, does
\* not reach a handler, whatever is registered, updated or failing meanwhile.
RevokedStaysOut == \A r \in Requests : req[r].late => ~req[r].ran
====

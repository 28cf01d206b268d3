----------------------------- MODULE Databases -----------------------------
(***************************************************************************)
(* The database connections of the control plane (server_databases.go,     *)
(* server_database_edit.go, server_database_actions.go,                    *)
(* database_lifecycle.go): instances that share a PostgreSQL catalog, each *)
(* with a registry of handlers and their Redis clients. A handler is the   *)
(* profile it was built from; h.profiles and h.handlers always name the    *)
(* same profiles and are one variable.                                     *)
(*                                                                         *)
(* What runs under h.mu, with the SQL transaction it contains, is one      *)
(* step. An endpoint stands for a name, address and index: what duplicate  *)
(* compares.                                                               *)
(***************************************************************************)
EXTENDS Integers, FiniteSets

CONSTANTS Instance, Request, Endpoint,
          MaxId,       \* identities of connections
          Initial,     \* the endpoints each instance is started with
          MaxFaults    \* failed statements, pings, lost commits, crashes, shutdowns

VARIABLES
    catalog,    \* the tables: the profiles, the default and registry_revision
    history,    \* every catalog committed so far, by revision
    up,         \* the phase of each instance
    handlers, default, revision,   \* h.handlers, h.defaultID, h.revision
    leases,     \* h.leases: the references to each handler
    open,       \* handlers and candidates whose Redis client is open
    ask, committed, answer,        \* what requests want, have changed and were told
    pc, at, since,                 \* where each request runs, and the revision at its start
    held, new,                     \* the handlers it leases, the profile it built
    ids, tokens, faults

registry == <<handlers, default, revision, leases, open>>
requests == <<ask, committed, answer, pc, at, since, held, new>>
vars == <<catalog, history, up, handlers, default, revision, leases, open,
          ask, committed, answer, pc, at, since, held, new, ids, tokens, faults>>

Id == 1..MaxId
Local == 1
NoDatabase == 0
NoProfile == [id |-> NoDatabase]
Nothing == [op |-> "nothing"]

ASSUME DatabasesAssumption ==
    /\ Instance # {} /\ MaxId \in Nat \ {0} /\ MaxFaults \in Nat
    /\ Initial \in [Instance -> SUBSET Endpoint]
    /\ \A i \in Instance : \A e, f \in Initial[i] : e = f

Uninitialized == [rev |-> 0, profiles |-> {}, default |-> NoDatabase]

Init ==
    /\ catalog = Uninitialized
    /\ history = <<>>
    /\ up = [i \in Instance |-> "down"]
    /\ handlers = [i \in Instance |-> {}]
    /\ default = [i \in Instance |-> NoDatabase]
    /\ revision = [i \in Instance |-> 0]
    /\ leases = [i \in Instance |-> <<>>]
    /\ open = [i \in Instance |-> {}]
    /\ ask = [r \in Request |-> Nothing]
    /\ committed = [r \in Request |-> FALSE]
    /\ answer = [r \in Request |-> "none"]
    /\ pc = [r \in Request |-> "new"]
    /\ at = [r \in Request |-> CHOOSE i \in Instance : TRUE]
    /\ since = [r \in Request |-> 0]
    /\ held = [r \in Request |-> {}]
    /\ new = [r \in Request |-> NoProfile]
    /\ ids = {Local} /\ tokens = 0 /\ faults = 0

Fault ==
    /\ faults < MaxFaults
    /\ faults' = faults + 1

---------------------------------------------------------------------------
(* The catalog.                                                            *)

validProfileDefault(profiles, d) ==
    IF profiles = {} THEN d = NoDatabase ELSE \E p \in profiles : p.id = d

(* SaveProfilesRevision claims the revision the instance has loaded.       *)
Claims_Always(i) == TRUE
Claims(i) == catalog.rev = revision[i]

Committed(profiles, d) ==
    /\ catalog' = [rev |-> catalog.rev + 1, profiles |-> profiles, default |-> d]
    /\ history' = [n \in 1..catalog.rev + 1 |-> IF n <= catalog.rev THEN history[n] ELSE catalog']

---------------------------------------------------------------------------
(* Handlers and their clients.                                             *)

Lease == [refs |-> 0, retired |-> FALSE]

(* closeRetiredLocked: which of these handlers close now.                  *)
Idle_All(L, H) == H
Idle(L, H) == {h \in H : L[h].refs = 0}

(* The handlers of i become H, over the leases L: replaced and removed     *)
(* ones retire, and close once no request leases them; others get an open  *)
(* client and a lease of their own.                                        *)
Install(i, H, L) ==
    LET gone == handlers[i] \ H
        fresh == H \ handlers[i]
    IN  /\ handlers' = [handlers EXCEPT ![i] = H]
        /\ leases' = [leases EXCEPT ![i] =
                        [h \in (DOMAIN L \ Idle(L, gone)) \cup fresh |->
                           IF h \in fresh THEN Lease
                           ELSE [refs |-> L[h].refs, retired |-> L[h].retired \/ h \in gone]]]
        /\ open' = [open EXCEPT ![i] = (@ \ Idle(L, gone)) \cup fresh]

(* installSnapshotLocked refuses a catalog it cannot serve as a whole.     *)
InstallsSnapshot ==
    /\ validProfileDefault(catalog.profiles, catalog.default)
    /\ \A p, q \in catalog.profiles : p # q => p.id # q.id /\ p.endpoint # q.endpoint

installSnapshotLocked(i) ==
    /\ Install(i, catalog.profiles, leases[i])
    /\ default' = [default EXCEPT ![i] = catalog.default]
    /\ revision' = [revision EXCEPT ![i] = catalog.rev]

Referenced(L, H) ==
    [h \in DOMAIN L |-> IF h \in H THEN [L[h] EXCEPT !.refs = @ + 1] ELSE L[h]]

Named(i, id) == {h \in handlers[i] : h.id = id}

duplicate(i, p) == \E h \in handlers[i] : h.id # p.id /\ h.endpoint = p.endpoint

---------------------------------------------------------------------------
(* The life of an instance.                                                *)

(* NewMetadataDatabaseHandler loads the catalog; when there is none it     *)
(* installs its own startup connection, and then tries to save it.         *)
Boot(i) ==
    /\ up[i] = "down"
    /\ IF catalog.rev > 0
       THEN /\ InstallsSnapshot
            /\ installSnapshotLocked(i)
            /\ up' = [up EXCEPT ![i] = "serving"]
            /\ UNCHANGED tokens
       ELSE /\ Install(i, {[id |-> Local, endpoint |-> e, rev |-> tokens + 1] : e \in Initial[i]}, leases[i])
            /\ default' = [default EXCEPT ![i] = IF Initial[i] = {} THEN NoDatabase ELSE Local]
            /\ revision' = [revision EXCEPT ![i] = 0]
            /\ up' = [up EXCEPT ![i] = "loaded"]
            /\ tokens' = tokens + 1
    /\ UNCHANGED <<catalog, history, requests, ids, faults>>

(* The first instance to save wins; the others install its catalog.        *)
SaveInitial(i) ==
    /\ up[i] = "loaded"
    /\ IF Claims(i)
       THEN /\ Committed(handlers[i], default[i])
            /\ revision' = [revision EXCEPT ![i] = @ + 1]
            /\ UNCHANGED <<handlers, default, leases, open>>
       ELSE /\ InstallsSnapshot
            /\ installSnapshotLocked(i)
            /\ UNCHANGED <<catalog, history>>
    /\ up' = [up EXCEPT ![i] = "serving"]
    /\ UNCHANGED <<requests, ids, tokens, faults>>

Close(i) ==
    /\ up[i] = "serving"
    /\ Fault
    /\ up' = [up EXCEPT ![i] = "closed"]
    /\ leases' = [leases EXCEPT ![i] =
                    [h \in DOMAIN @ \ Idle(@, DOMAIN @) |-> [refs |-> @[h].refs, retired |-> TRUE]]]
    /\ open' = [open EXCEPT ![i] = @ \ Idle(leases[i], DOMAIN leases[i])]
    /\ UNCHANGED <<catalog, history, handlers, default, revision, requests, ids, tokens>>

(* The process ends, and every request it runs with it.                    *)
Crash(i) ==
    /\ up[i] # "down"
    /\ Fault
    /\ up' = [up EXCEPT ![i] = "down"]
    /\ handlers' = [handlers EXCEPT ![i] = {}]
    /\ leases' = [leases EXCEPT ![i] = <<>>]
    /\ open' = [open EXCEPT ![i] = {}]
    /\ pc' = [r \in Request |-> IF at[r] = i /\ pc[r] # "new" THEN "done" ELSE pc[r]]
    /\ held' = [r \in Request |-> IF at[r] = i THEN {} ELSE held[r]]
    /\ UNCHANGED <<catalog, history, default, revision, ask, committed, answer, at, since, new, ids, tokens>>

---------------------------------------------------------------------------
(* Requests.                                                               *)

Answered(r, a) ==
    /\ answer' = [answer EXCEPT ![r] = a]
    /\ pc' = [pc EXCEPT ![r] = IF held[r] = {} THEN "done" ELSE "release"]

(* An edit quotes the revision of settings that its author once saw.       *)
Asks ==
    [op : {"scoped", "remove", "default"}, id : ids]
    \cup [op : {"routed", "view"}]
    \cup [op : {"add"}, endpoint : Endpoint]
    \cup UNION {[op : {"edit"}, id : {p.id}, seen : {p.rev}, endpoint : Endpoint] :
                   p \in UNION {history[n].profiles : n \in DOMAIN history}}

Arrive(r) ==
    /\ pc[r] = "new"
    /\ \E i \in Instance, a \in Asks :
         /\ up[i] = "serving"
         /\ at' = [at EXCEPT ![r] = i]
         /\ ask' = [ask EXCEPT ![r] = a]
    /\ pc' = [pc EXCEPT ![r] = "refresh"]
    /\ since' = [since EXCEPT ![r] = catalog.rev]
    /\ UNCHANGED <<catalog, history, up, registry, committed, answer, held, new, ids, tokens, faults>>

Entry(op) == CASE op = "add" -> "check" [] op \in {"remove", "default"} -> "save" [] OTHER -> "route"

(* The instance has the revision that the tables have.                     *)
Current_OnceLoaded(i) == revision[i] > 0
Current(i) == catalog.rev = revision[i]

(* The committed catalog is installed before any request is routed.        *)
refresh(r) ==
    LET i == at[r]
        routes == pc' = [pc EXCEPT ![r] = Entry(ask[r].op)] /\ UNCHANGED answer
    IN  /\ pc[r] = "refresh"
        /\ \/ /\ up[i] = "closed"
              /\ Answered(r, "error")
              /\ UNCHANGED <<registry, faults>>
           \/ /\ up[i] = "serving"
              /\ Fault /\ Answered(r, "error")
              /\ UNCHANGED registry
           \/ /\ up[i] = "serving"
              /\ IF Current(i)
                 THEN routes /\ UNCHANGED registry
                 ELSE IF InstallsSnapshot
                      THEN routes /\ installSnapshotLocked(i)
                      ELSE Answered(r, "error") /\ UNCHANGED registry
              /\ UNCHANGED faults
        /\ UNCHANGED <<catalog, history, up, ask, committed, at, since, held, new, ids, tokens>>

(* The handlers that acquire, acquireDefault or acquireDatabaseHandlers    *)
(* finds for the request.                                                  *)
Found(r) ==
    LET i == at[r]
    IN  IF up[i] = "closed" THEN {}
        ELSE CASE ask[r].op = "view" -> handlers[i]
               [] ask[r].op = "routed" -> Named(i, default[i])
               [] OTHER -> Named(i, ask[r].id)

acquire(r) ==
    LET i == at[r]
    IN  /\ pc[r] = "route"
        /\ IF Found(r) = {} /\ ask[r].op # "view"
           THEN Answered(r, "missing") /\ UNCHANGED <<held, leases>>
           ELSE /\ held' = [held EXCEPT ![r] = Found(r)]
                /\ leases' = [leases EXCEPT ![i] = Referenced(@, Found(r))]
                /\ IF ask[r].op # "edit"
                   THEN pc' = [pc EXCEPT ![r] = "use"] /\ UNCHANGED answer
                   ELSE IF \E h \in Found(r) : h.rev # ask[r].seen
                        THEN pc' = [pc EXCEPT ![r] = "release"] /\ answer' = [answer EXCEPT ![r] = "stale"]
                        ELSE pc' = [pc EXCEPT ![r] = "check"] /\ UNCHANGED answer
        /\ UNCHANGED <<catalog, history, up, handlers, default, revision, open, ask, committed,
                       at, since, new, ids, tokens, faults>>

(* A new connection is compared with the registered ones and pinged        *)
(* outside the lock.                                                       *)
Check(r) ==
    LET i == at[r]
        id == IF ask[r].op = "edit" THEN ask[r].id ELSE NoDatabase
        clash == duplicate(i, [id |-> id, endpoint |-> ask[r].endpoint])
    IN  /\ pc[r] = "check"
        /\ \/ clash /\ Answered(r, "duplicate") /\ UNCHANGED <<open, new, ids, tokens, faults>>
           \/ ~clash /\ Fault /\ Answered(r, "error") /\ UNCHANGED <<open, new, ids, tokens>>
           \/ /\ ~clash
              /\ \E n \in IF ask[r].op = "edit" THEN {id} ELSE Id \ ids :
                   /\ new' = [new EXCEPT ![r] = [id |-> n, endpoint |-> ask[r].endpoint, rev |-> tokens + 1]]
                   /\ ids' = ids \cup {n}
              /\ tokens' = tokens + 1
              /\ open' = [open EXCEPT ![i] = @ \cup {new'[r]}]
              /\ pc' = [pc EXCEPT ![r] = "save"]
              /\ UNCHANGED <<answer, faults>>
        /\ UNCHANGED <<catalog, history, up, handlers, default, revision, leases, ask, committed,
                       at, since, held>>

(* What the request makes of the profiles and the default of its instance. *)
NextProfiles(r) ==
    LET i == at[r]
    IN  CASE ask[r].op \in {"add", "edit"} -> (handlers[i] \ held[r]) \cup {new[r]}
          [] ask[r].op = "remove" -> handlers[i] \ Named(i, ask[r].id)
          [] OTHER -> handlers[i]

Lowest(profiles) ==
    IF profiles = {} THEN NoDatabase
    ELSE CHOOSE d \in {p.id : p \in profiles} : \A p \in profiles : d <= p.id

NextDefault(r) ==
    LET i == at[r]
    IN  CASE ask[r].op = "add" /\ default[i] = NoDatabase -> new[r].id
          [] ask[r].op = "remove" /\ default[i] = ask[r].id -> Lowest(NextProfiles(r))
          [] ask[r].op = "default" -> ask[r].id
          [] OTHER -> default[i]

(* Why a change is refused once the lock is taken, "none" if it is not.    *)
Refusal(r) ==
    LET i == at[r]
        op == ask[r].op
    IN  IF up[i] = "closed" THEN IF op \in {"add", "edit"} THEN "error" ELSE "missing"
        ELSE IF op \in {"remove", "default"} /\ Named(i, ask[r].id) = {} THEN "missing"
        ELSE IF op = "edit" /\ ~(held[r] \subseteq handlers[i]) THEN "stale"
        ELSE IF op \in {"add", "edit"} /\ duplicate(i, new[r]) THEN "duplicate"
        ELSE IF ~validProfileDefault(NextProfiles(r), NextDefault(r)) THEN "error"
        ELSE IF ~Claims(i) THEN "stale"
        ELSE "none"

(* The deferred close of a client that was not retained.                   *)
Discard(r) == open' = [open EXCEPT ![at[r]] = @ \ {new[r]}]

Refuse(r) ==
    /\ pc[r] = "save"
    /\ Refusal(r) # "none"
    /\ Answered(r, Refusal(r))
    /\ Discard(r)
    /\ UNCHANGED <<catalog, history, up, handlers, default, revision, leases, ask, committed,
                   at, since, held, new, ids, tokens, faults>>

(* The transaction fails, or commits although its outcome is not learnt.   *)
SaveFails(r) ==
    /\ pc[r] = "save"
    /\ Refusal(r) = "none"
    /\ Fault
    /\ Answered(r, "error")
    /\ Discard(r)
    /\ \/ UNCHANGED <<catalog, history, committed>>
       \/ /\ Committed(NextProfiles(r), NextDefault(r))
          /\ committed' = [committed EXCEPT ![r] = TRUE]
    /\ UNCHANGED <<up, handlers, default, revision, leases, ask, at, since, held, new, ids, tokens>>

Save(r) ==
    LET i == at[r]
        target == IF ask[r].op = "default" THEN Named(i, ask[r].id) ELSE {}
    IN  /\ pc[r] = "save"
        /\ Refusal(r) = "none"
        /\ Committed(NextProfiles(r), NextDefault(r))
        /\ committed' = [committed EXCEPT ![r] = TRUE]
        /\ answer' = [answer EXCEPT ![r] = "ok"]
        /\ held' = [held EXCEPT ![r] = @ \cup target]
        /\ pc' = [pc EXCEPT ![r] = IF held'[r] = {} THEN "done" ELSE "release"]
        /\ Install(i, NextProfiles(r), Referenced(leases[i], target))
        /\ default' = [default EXCEPT ![i] = NextDefault(r)]
        /\ revision' = [revision EXCEPT ![i] = @ + 1]
        /\ UNCHANGED <<up, ask, at, since, new, ids, tokens, faults>>

release(r) ==
    LET i == at[r]
        L == leases[i]
    IN  /\ pc[r] \in {"use", "release"}
        /\ \E h \in held[r] :
             /\ held' = [held EXCEPT ![r] = @ \ {h}]
             /\ IF L[h].retired /\ L[h].refs = 1
                THEN /\ leases' = [leases EXCEPT ![i] = [g \in DOMAIN L \ {h} |-> L[g]]]
                     /\ open' = [open EXCEPT ![i] = @ \ {h}]
                ELSE /\ leases' = [leases EXCEPT ![i][h].refs = @ - 1]
                     /\ UNCHANGED open
        /\ pc' = [pc EXCEPT ![r] = IF held'[r] = {} THEN "done" ELSE "release"]
        /\ answer' = IF held'[r] = {} /\ answer[r] = "none" THEN [answer EXCEPT ![r] = "ok"] ELSE answer
        /\ UNCHANGED <<catalog, history, up, handlers, default, revision, ask, committed,
                       at, since, new, ids, tokens, faults>>

(* A view of a registry without handlers.                                  *)
ViewNothing(r) ==
    /\ pc[r] = "use" /\ held[r] = {}
    /\ Answered(r, "ok")
    /\ UNCHANGED <<catalog, history, up, registry, ask, committed, at, since, held, new, ids, tokens, faults>>

Next ==
    \/ \E i \in Instance : Boot(i) \/ SaveInitial(i) \/ Close(i) \/ Crash(i)
    \/ \E r \in Request :
         \/ Arrive(r) \/ refresh(r) \/ acquire(r) \/ Check(r)
         \/ Refuse(r) \/ SaveFails(r) \/ Save(r) \/ release(r) \/ ViewNothing(r)

Spec == Init /\ [][Next]_vars

---------------------------------------------------------------------------
(* Properties.                                                             *)

C == INSTANCE Catalog

(* The instances together behave as one catalog: a stale writer is refused *)
(* and never erases the change of another instance, an edit replaces the   *)
(* settings its author saw, no request is applied twice, and every         *)
(* instance can install what any instance commits (saveProfilesLocked,     *)
(* SaveProfilesRevision).                                                  *)
ImplementsCatalog == C!CatalogSpec

(* The Redis clients that are open are those of the registered handlers,   *)
(* of handlers some request still leases, and of candidates that a request *)
(* is about to save: none is closed in use and none is left open           *)
(* (closeRetiredLocked, swapHandlerLocked and the deferred closes).        *)
OpenExactlyInUse ==
    \A i \in Instance :
        open[i] = (IF up[i] \in {"loaded", "serving"} THEN handlers[i] ELSE {})
                  \cup (UNION {held[r] : r \in {q \in Request : at[q] = i}})
                  \cup {new[r] : r \in {q \in Request : at[q] = i /\ pc[q] = "save" /\ ask[q].op \in {"add", "edit"}}}

(* The connections that serve a request were all registered in one         *)
(* catalog committed at or after its arrival.                              *)
Fresh(r) ==
    \E n \in since[r]..catalog.rev :
        /\ held[r] \subseteq history[n].profiles
        /\ ask[r].op = "routed" => \A h \in held[r] : h.id = history[n].default
        /\ ask[r].op = "view" => held[r] = history[n].profiles \/ up[at[r]] = "closed"

(* Routing is never stale, whichever instance committed the catalog        *)
(* (refresh before acquire, acquireDefault and acquireDatabaseHandlers).   *)
RoutesFresh == \A r \in Request : pc[r] = "use" => Fresh(r)
=============================================================================

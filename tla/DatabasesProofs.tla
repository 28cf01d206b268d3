-------------------------- MODULE DatabasesProofs ---------------------------
(***************************************************************************)
(* The instances of the control plane implement one catalog, and route     *)
(* every request by a catalog committed since it arrived, for any number   *)
(* of instances, requests, connections and faults.                         *)
(***************************************************************************)
EXTENDS Databases, TLAPS

Ops == {"scoped", "routed", "view", "add", "edit", "remove", "default"}
Changes == {"add", "edit", "remove", "default"}

Distinct(H) == \A p, q \in H : p # q => p.id # q.id /\ p.endpoint # q.endpoint

Domains ==
    /\ DOMAIN up = Instance /\ DOMAIN handlers = Instance /\ DOMAIN default = Instance
    /\ revision \in [Instance -> Nat]
    /\ DOMAIN ask = Request /\ DOMAIN committed = Request /\ DOMAIN answer = Request
    /\ DOMAIN pc = Request /\ DOMAIN held = Request /\ DOMAIN new = Request
    /\ since \in [Request -> Nat]
    /\ at \in [Request -> Instance]

(* The committed catalogs can be installed, and the last one is current.   *)
CatalogInv ==
    /\ catalog.rev \in Nat
    /\ catalog.rev > 0 => history[catalog.rev] = catalog
    /\ Distinct(catalog.profiles)
    /\ validProfileDefault(catalog.profiles, catalog.default)
    /\ \A p \in catalog.profiles : p.id \in ids
    /\ Local \in ids

(* A registry is a committed catalog, the one whose revision it holds, or  *)
(* the startup configuration of an instance that has not saved it.         *)
RegistryInv(i) ==
    /\ Distinct(handlers[i])
    /\ up[i] \in {"down", "loaded", "serving", "closed"}
    /\ up[i] \in {"serving", "closed"} =>
         /\ 1 <= revision[i] /\ revision[i] <= catalog.rev
         /\ handlers[i] = history[revision[i]].profiles
         /\ default[i] = history[revision[i]].default
    /\ up[i] = "loaded" =>
         /\ revision[i] = 0
         /\ validProfileDefault(handlers[i], default[i])
         /\ \A h \in handlers[i] : h.id = Local

Waiting == {"new", "refresh", "route", "check", "save", "use"}

(* What a request has done by the point it has reached.                    *)
ProgressInv(r) ==
    /\ pc[r] \in Waiting \cup {"release", "done"}
    /\ pc[r] = "new" => ask[r] = Nothing
    /\ pc[r] \notin {"new", "done"} => up[at[r]] \in {"serving", "closed"} /\ ask[r].op \in Ops
    /\ pc[r] \in Waiting => answer[r] = "none" /\ committed[r] = FALSE
    /\ pc[r] \in {"new", "refresh", "route"} => held[r] = {}
    /\ pc[r] = "route" => ask[r].op \notin {"add", "remove", "default"}
    /\ pc[r] = "check" => ask[r].op \in {"add", "edit"}
    /\ pc[r] = "save" => ask[r].op \in Changes
    /\ pc[r] = "use" \/ (pc[r] = "release" /\ answer[r] = "none") => ask[r].op \notin Changes
    /\ pc[r] = "refresh" => since[r] <= catalog.rev
    /\ pc[r] = "route" => since[r] <= revision[at[r]]
    /\ pc[r] \notin {"new", "done"} => 1 <= since[r]

(* The profile a request is about to save, and the one it replaces.        *)
CandidateInv(r) ==
    /\ pc[r] \in {"check", "save"} /\ ask[r].op = "add" => held[r] = {}
    /\ pc[r] \in {"check", "save"} /\ ask[r].op = "edit" =>
         \E old \in held[r] : held[r] = {old} /\ old.id = ask[r].id /\ old.rev = ask[r].seen
    /\ pc[r] = "save" /\ ask[r].op \in {"add", "edit"} => new[r].endpoint = ask[r].endpoint
    /\ pc[r] = "save" /\ ask[r].op = "edit" => new[r].id = ask[r].id
    /\ pc[r] = "save" /\ ask[r].op = "add" =>
         /\ new[r].id \in ids
         /\ \A p \in catalog.profiles : p.id # new[r].id
         /\ \A q \in Request \ {r} : pc[q] = "save" /\ ask[q].op = "add" => new[q].id # new[r].id

DatabasesInv ==
    /\ Domains
    /\ CatalogInv
    /\ \A i \in Instance : RegistryInv(i)
    /\ \A r \in Request : ProgressInv(r) /\ CandidateInv(r)
    /\ RoutesFresh

---------------------------------------------------------------------------
(* Frames.                                                                 *)

(* Committed catalogs are only added to.                                   *)
Extends ==
    /\ catalog'.rev \in Nat /\ catalog.rev <= catalog'.rev
    /\ \A n \in 1..catalog.rev : history'[n] = history[n]

Same(r) ==
    /\ pc'[r] = pc[r] /\ ask'[r] = ask[r] /\ committed'[r] = committed[r] /\ answer'[r] = answer[r]
    /\ held'[r] = held[r] /\ new'[r] = new[r] /\ at'[r] = at[r] /\ since'[r] = since[r]

(* The registry that serves a request does not go back.                    *)
Serves(i) ==
    /\ up[i] \in {"serving", "closed"} => up'[i] \in {"serving", "closed"}
    /\ up[i] = "closed" => up'[i] = "closed"
    /\ revision[i] <= revision'[i]

LEMMA UnchangedExtends ==
    ASSUME CatalogInv, UNCHANGED <<catalog, history>>
    PROVE  Extends
BY SMTT(60) DEF CatalogInv, Extends

LEMMA UnchangedCatalog ==
    ASSUME CatalogInv, UNCHANGED <<catalog, history>>, ids \subseteq ids'
    PROVE  CatalogInv'
BY Zenon DEF CatalogInv, Distinct, validProfileDefault

LEMMA CommittedExtends ==
    ASSUME CatalogInv, NEW P, NEW d, Committed(P, d), Distinct(P), validProfileDefault(P, d),
           \A p \in P : p.id \in ids, UNCHANGED ids
    PROVE  /\ Extends /\ CatalogInv'
           /\ catalog'.rev = catalog.rev + 1 /\ catalog'.profiles = P /\ catalog'.default = d
           /\ history'[catalog.rev + 1] = catalog'
<1>1. /\ catalog.rev \in Nat
      /\ catalog' = [rev |-> catalog.rev + 1, profiles |-> P, default |-> d]
  BY Zenon DEF CatalogInv, Committed
<1>2. catalog'.rev = catalog.rev + 1 /\ catalog'.profiles = P /\ catalog'.default = d
  BY <1>1, Zenon
<1>3. history' = [n \in 1..catalog.rev + 1 |-> IF n <= catalog.rev THEN history[n] ELSE catalog']
  BY Zenon DEF Committed
<1>4. Extends /\ history'[catalog.rev + 1] = catalog'
  BY <1>1, <1>2, <1>3, SMTT(60) DEF Extends
<1>5. CatalogInv'
  BY <1>1, <1>2, <1>4, SMTT(60) DEF CatalogInv, Distinct, validProfileDefault
<1>6. QED
  BY <1>2, <1>4, <1>5, Zenon

LEMMA RegistryFrame ==
    ASSUME Extends, CatalogInv, NEW i \in Instance, RegistryInv(i), revision[i] \in Nat,
           handlers'[i] = handlers[i], default'[i] = default[i], revision'[i] = revision[i],
           up'[i] = up[i] \/ (up[i] = "serving" /\ up'[i] = "closed")
    PROVE  RegistryInv(i)'
<1>1. up'[i] \in {"serving", "closed"} =>
         /\ 1 <= revision'[i] /\ revision'[i] <= catalog'.rev
         /\ history'[revision'[i]] = history[revision[i]]
  BY SMTT(60) DEF RegistryInv, Extends, CatalogInv
<1>2. QED
  BY <1>1, Zenon DEF RegistryInv, Distinct, validProfileDefault

LEMMA ProgressFrame ==
    ASSUME Extends, Domains, Domains', CatalogInv, NEW r \in Request, ProgressInv(r), Same(r),
           pc[r] \in {"new", "done"} \/ Serves(at[r])
    PROVE  ProgressInv(r)'
<1>1. at[r] \in Instance /\ since[r] \in Nat /\ revision[at[r]] \in Nat /\ revision'[at[r]] \in Nat
  BY Zenon DEF Domains
<1>2. pc[r] = "refresh" => since[r] <= catalog'.rev
  BY <1>1, SMTT(60) DEF ProgressInv, Extends, CatalogInv
<1>3. CASE pc[r] \in {"new", "done"}
  BY <1>3, Zenon DEF ProgressInv, Same, Waiting
<1>4. CASE pc[r] \notin {"new", "done"}
  <2>1. Serves(at[r]) /\ up'[at[r]] \in {"serving", "closed"}
    BY <1>4, Zenon DEF Serves, ProgressInv
  <2>2. pc[r] = "route" => since[r] <= revision'[at[r]]
    <3>1. CASE pc[r] = "route"
      <4>1. since[r] <= revision[at[r]] /\ revision[at[r]] <= revision'[at[r]]
        BY <2>1, <3>1, Zenon DEF ProgressInv, Serves
      <4>2. QED
        BY <4>1, <1>1, SMTT(60)
    <3>2. QED
      BY <3>1, Zenon
  <2>3. QED
    BY <1>2, <1>4, <2>1, <2>2, Zenon DEF ProgressInv, Same, Waiting
<1>5. QED
  BY <1>3, <1>4, Zenon

LEMMA FreshFrame ==
    ASSUME Extends, Domains, CatalogInv, NEW r \in Request, Same(r), Serves(at[r]), Fresh(r), 1 <= since[r]
    PROVE  Fresh(r)'
<1>1. PICK n \in since[r]..catalog.rev :
        /\ held[r] \subseteq history[n].profiles
        /\ ask[r].op = "routed" => \A h \in held[r] : h.id = history[n].default
        /\ ask[r].op = "view" => held[r] = history[n].profiles \/ up[at[r]] = "closed"
  BY Zenon DEF Fresh
<1>2. since[r] \in Nat /\ n \in 1..catalog.rev /\ n \in since[r]..catalog'.rev
  BY <1>1, SMTT(60) DEF Domains, Extends, CatalogInv
<1>3. history'[n] = history[n]
  BY <1>2, Zenon DEF Extends
<1>4. QED
  BY <1>1, <1>2, <1>3, ZenonT(60) DEF Fresh, Same, Serves

(* A request that starts to save a new connection gives it a new identity. *)
Saves(r) ==
    pc'[r] = "save" /\ ask'[r].op = "add" =>
        new'[r].id \notin ids \/ (pc[r] = "save" /\ ask[r].op = "add" /\ new'[r] = new[r])

Keeps(r) == ProgressInv(r) /\ CandidateInv(r) /\ (pc[r] = "use" => Fresh(r))

(* A request is not disturbed by the steps of others.                      *)
LEMMA RequestFrame ==
    ASSUME Extends, Domains, Domains', CatalogInv, ids \subseteq ids',
           NEW r \in Request, Keeps(r), Same(r), pc[r] \in {"new", "done"} \/ Serves(at[r]),
           pc[r] = "save" /\ ask[r].op = "add" => \A p \in catalog'.profiles : p.id # new[r].id,
           \A s \in Request \ {r} : Saves(s)
    PROVE  Keeps(r)'
<1>1. ProgressInv(r)'
  BY ProgressFrame, Zenon DEF Keeps
<1>2. CandidateInv(r)'
  BY ZenonT(60) DEF Keeps, Same, Saves, CandidateInv
<1>3. pc'[r] = "use" => Fresh(r)'
  BY FreshFrame, Zenon DEF Keeps, Same, ProgressInv
<1>4. QED
  BY <1>1, <1>2, <1>3, Zenon DEF Keeps

LEMMA InvParts ==
    DatabasesInv <=> /\ Domains /\ CatalogInv
                     /\ \A i \in Instance : RegistryInv(i)
                     /\ \A r \in Request : Keeps(r)
BY Zenon DEF DatabasesInv, Keeps, RoutesFresh

LEMMA InstalledRegistry ==
    ASSUME Domains, CatalogInv, NEW i \in Instance, installSnapshotLocked(i), catalog.rev > 0,
           UNCHANGED <<catalog, history>>, up'[i] \in {"serving", "closed"}
    PROVE  RegistryInv(i)'
<1>1. handlers'[i] = catalog.profiles /\ default'[i] = catalog.default /\ revision'[i] = catalog.rev
  BY Zenon DEF Domains, installSnapshotLocked, Install
<1>2. QED
  BY <1>1, SMTT(60) DEF CatalogInv, RegistryInv, Distinct

(* The registries other than that of i are left alone.                     *)
OnlyAt(i) ==
    /\ DOMAIN handlers' = Instance /\ DOMAIN default' = Instance /\ revision' \in [Instance -> Nat]
    /\ \A j \in Instance \ {i} :
         handlers'[j] = handlers[j] /\ default'[j] = default[j] /\ revision'[j] = revision[j]

LEMMA InstalledOnlyAt ==
    ASSUME Domains, CatalogInv, NEW i \in Instance, installSnapshotLocked(i)
    PROVE  OnlyAt(i)
BY Zenon DEF Domains, CatalogInv, installSnapshotLocked, Install, OnlyAt

---------------------------------------------------------------------------
(* The life of an instance.                                                *)

LEMMA BootStep ==
    ASSUME DatabasesInv, NEW i \in Instance, Boot(i)
    PROVE  DatabasesInv'
<1>1. /\ Domains /\ CatalogInv /\ (\A j \in Instance : RegistryInv(j)) /\ (\A r \in Request : Keeps(r))
      /\ UNCHANGED <<catalog, history, requests, ids>> /\ up[i] = "down"
  BY InvParts, Zenon DEF Boot
<1>2. Extends /\ CatalogInv'
  BY <1>1, UnchangedExtends, UnchangedCatalog, Zenon
<1>3. OnlyAt(i)
  <2>1. CASE catalog.rev > 0
    BY <1>1, <2>1, InstalledOnlyAt, Zenon DEF Boot
  <2>2. CASE ~(catalog.rev > 0)
    BY <1>1, <2>2, SMTT(60) DEF Boot, Install, Domains, OnlyAt
  <2>3. QED
    BY <2>1, <2>2, Zenon
<1>4. up' = [up EXCEPT ![i] = "serving"] \/ up' = [up EXCEPT ![i] = "loaded"]
  BY Zenon DEF Boot
<1>5. Domains'
  BY <1>1, <1>3, <1>4, Zenon DEF Domains, OnlyAt, requests
<1>6. ASSUME NEW j \in Instance PROVE RegistryInv(j)'
  <2>1. CASE j # i
    <3>1. handlers'[j] = handlers[j] /\ default'[j] = default[j] /\ revision'[j] = revision[j] /\ up'[j] = up[j]
      BY <1>1, <1>3, <1>4, <2>1, Zenon DEF Domains, OnlyAt
    <3>2. QED
      BY <1>1, <1>2, <3>1, RegistryFrame, Zenon DEF Domains
  <2>2. CASE j = i /\ catalog.rev > 0
    <3>1. installSnapshotLocked(i) /\ up'[i] = "serving"
      BY <1>1, <2>2, Zenon DEF Boot, Domains
    <3>2. QED
      BY <1>1, <2>2, <3>1, InstalledRegistry, Zenon
  <2>3. CASE j = i /\ ~(catalog.rev > 0)
    <3> DEFINE H == {[id |-> Local, endpoint |-> e, rev |-> tokens + 1] : e \in Initial[i]}
    <3>1. /\ handlers'[i] = H
          /\ default'[i] = IF Initial[i] = {} THEN NoDatabase ELSE Local
          /\ revision'[i] = 0 /\ up'[i] = "loaded"
      BY <1>1, <2>3, Zenon DEF Boot, Domains, Install
    <3>2. \A p, q \in H : p = q
      BY DatabasesAssumption, Zenon
    <3>3. H # {} <=> Initial[i] # {}
      BY Zenon, Zenon
    <3>4. \A p \in H : p.id = Local
      BY SMTT(60), Zenon
    <3>5. validProfileDefault(H, IF Initial[i] = {} THEN NoDatabase ELSE Local)
      BY <3>3, <3>4, Zenon DEF validProfileDefault
    <3> HIDE DEF H
    <3>6. QED
      BY <2>3, <3>1, <3>2, <3>4, <3>5, Zenon DEF RegistryInv, Distinct, validProfileDefault
  <2>4. QED
    BY <2>1, <2>2, <2>3, Zenon
<1>7. ASSUME NEW r \in Request PROVE Keeps(r)'
  <2>1. Same(r) /\ \A s \in Request : Saves(s)
    BY <1>1, Zenon DEF Same, Saves, requests
  <2>2. pc[r] \in {"new", "done"} \/ Serves(at[r])
    <3>1. CASE at[r] = i
      BY <1>1, <3>1, Zenon DEF Keeps, ProgressInv
    <3>2. CASE at[r] # i
      BY <1>1, <1>3, <1>4, <3>2, SMTT(60) DEF Domains, OnlyAt, Serves
    <3>3. QED
      BY <3>1, <3>2, Zenon
  <2>3. pc[r] = "save" /\ ask[r].op = "add" => \A p \in catalog'.profiles : p.id # new[r].id
    BY <1>1, Zenon DEF Keeps, CandidateInv
  <2>4. QED
    BY <1>1, <1>2, <1>5, <2>1, <2>2, <2>3, RequestFrame, Zenon
<1>8. QED
  BY <1>2, <1>5, <1>6, <1>7, InvParts, Zenon DEF DatabasesInv, Keeps, RoutesFresh

LEMMA SaveInitialStep ==
    ASSUME DatabasesInv, NEW i \in Instance, SaveInitial(i)
    PROVE  DatabasesInv'
<1>1. /\ Domains /\ CatalogInv /\ (\A j \in Instance : RegistryInv(j)) /\ (\A r \in Request : Keeps(r))
      /\ UNCHANGED <<requests, ids>> /\ up[i] = "loaded" /\ up' = [up EXCEPT ![i] = "serving"]
      /\ revision[i] = 0
  BY InvParts, Zenon DEF SaveInitial, RegistryInv
<1>2. Extends /\ CatalogInv' /\ OnlyAt(i) /\ RegistryInv(i)'
  <2>1. CASE Claims(i)
    <3>1. /\ Committed(handlers[i], default[i]) /\ catalog.rev = 0
          /\ handlers' = handlers /\ default' = default /\ revision' = [revision EXCEPT ![i] = @ + 1]
      BY <1>1, <2>1, Zenon DEF SaveInitial, Claims
    <3>2. \A h \in handlers[i] : h.id \in ids
      BY <1>1, Zenon DEF RegistryInv, CatalogInv
    <3>3. /\ Extends /\ CatalogInv' /\ catalog'.rev = 1 /\ history'[1] = catalog'
          /\ catalog'.profiles = handlers[i] /\ catalog'.default = default[i]
      BY <1>1, <3>1, <3>2, CommittedExtends, SMTT(60) DEF RegistryInv
    <3>4. OnlyAt(i) /\ revision'[i] = 1 /\ up'[i] = "serving"
      BY <1>1, <3>1, SMTT(60) DEF Domains, OnlyAt
    <3>5. RegistryInv(i)'
      BY <1>1, <3>1, <3>3, <3>4, SMTT(60) DEF RegistryInv, Distinct
    <3>6. QED
      BY <3>3, <3>4, <3>5, Zenon
  <2>2. CASE ~Claims(i)
    <3>1. installSnapshotLocked(i) /\ UNCHANGED <<catalog, history>> /\ catalog.rev > 0 /\ up'[i] = "serving"
      BY <1>1, <2>2, SMTT(60) DEF SaveInitial, Claims, CatalogInv, Domains
    <3>2. QED
      BY <1>1, <3>1, UnchangedExtends, UnchangedCatalog, InstalledOnlyAt, InstalledRegistry, Zenon
  <2>3. QED
    BY <2>1, <2>2, Zenon
<1>3. Domains'
  BY <1>1, <1>2, Zenon DEF Domains, OnlyAt, requests
<1>4. ASSUME NEW j \in Instance PROVE RegistryInv(j)'
  BY <1>1, <1>2, RegistryFrame, Zenon DEF Domains, OnlyAt
<1>5. ASSUME NEW r \in Request PROVE Keeps(r)'
  <2>1. Same(r) /\ \A s \in Request : Saves(s)
    BY <1>1, Zenon DEF Same, Saves, requests
  <2>2. pc[r] \in {"new", "done"} \/ Serves(at[r])
    <3>1. CASE at[r] = i
      BY <1>1, <3>1, Zenon DEF Keeps, ProgressInv
    <3>2. CASE at[r] # i
      BY <1>1, <1>2, <3>2, SMTT(60) DEF Domains, OnlyAt, Serves
    <3>3. QED
      BY <3>1, <3>2, Zenon
  <2>3. pc[r] = "save" /\ ask[r].op = "add" => \A p \in catalog'.profiles : p.id # new[r].id
    <3>1. CASE Claims(i)
      <4>1. catalog.rev = 0
        BY <1>1, <3>1, Zenon DEF Claims
      <4>2. up[at[r]] \notin {"serving", "closed"}
        BY <1>1, <4>1, SMTT(60) DEF RegistryInv, Domains
      <4>3. QED
        BY <1>1, <4>2, Zenon DEF Keeps, ProgressInv
    <3>2. CASE ~Claims(i)
      BY <1>1, <3>2, Zenon DEF SaveInitial, Keeps, CandidateInv
    <3>3. QED
      BY <3>1, <3>2, Zenon
  <2>4. QED
    BY <1>1, <1>2, <1>3, <2>1, <2>2, <2>3, RequestFrame, Zenon
<1>6. QED
  BY <1>2, <1>3, <1>4, <1>5, InvParts, Zenon DEF DatabasesInv, Keeps, RoutesFresh

LEMMA CloseStep ==
    ASSUME DatabasesInv, NEW i \in Instance, Close(i)
    PROVE  DatabasesInv'
<1>1. /\ Domains /\ CatalogInv /\ (\A j \in Instance : RegistryInv(j)) /\ (\A r \in Request : Keeps(r))
      /\ UNCHANGED <<catalog, history, handlers, default, revision, requests, ids>>
      /\ up[i] = "serving" /\ up' = [up EXCEPT ![i] = "closed"]
  BY InvParts, Zenon DEF Close
<1>2. Extends /\ CatalogInv'
  BY <1>1, UnchangedExtends, UnchangedCatalog, Zenon
<1>3. Domains'
  BY <1>1, Zenon DEF Domains, requests
<1>4. ASSUME NEW j \in Instance PROVE RegistryInv(j)'
  BY <1>1, <1>2, RegistryFrame, Zenon DEF Domains
<1>5. ASSUME NEW r \in Request PROVE Keeps(r)'
  <2>1. Same(r) /\ \A s \in Request : Saves(s)
    BY <1>1, Zenon DEF Same, Saves, requests
  <2>2. Serves(at[r])
    BY <1>1, SMTT(60) DEF Domains, Serves
  <2>3. pc[r] = "save" /\ ask[r].op = "add" => \A p \in catalog'.profiles : p.id # new[r].id
    BY <1>1, Zenon DEF Keeps, CandidateInv
  <2>4. QED
    BY <1>1, <1>2, <1>3, <2>1, <2>2, <2>3, RequestFrame, Zenon
<1>6. QED
  BY <1>2, <1>3, <1>4, <1>5, InvParts, Zenon DEF DatabasesInv, Keeps, RoutesFresh

LEMMA CrashStep ==
    ASSUME DatabasesInv, NEW i \in Instance, Crash(i)
    PROVE  DatabasesInv'
<1>1. /\ Domains /\ CatalogInv /\ (\A j \in Instance : RegistryInv(j)) /\ (\A r \in Request : Keeps(r))
      /\ UNCHANGED <<catalog, history, default, revision, ask, committed, answer, at, since, new, ids>>
      /\ up' = [up EXCEPT ![i] = "down"] /\ handlers' = [handlers EXCEPT ![i] = {}]
      /\ pc' = [r \in Request |-> IF at[r] = i /\ pc[r] # "new" THEN "done" ELSE pc[r]]
      /\ held' = [r \in Request |-> IF at[r] = i THEN {} ELSE held[r]]
  BY InvParts, Zenon DEF Crash
<1>2. Extends /\ CatalogInv'
  BY <1>1, UnchangedExtends, UnchangedCatalog, Zenon
<1>3. Domains'
  BY <1>1, Zenon DEF Domains
<1>4. ASSUME NEW j \in Instance PROVE RegistryInv(j)'
  <2>1. CASE j = i
    BY <1>1, <2>1, Zenon DEF Domains, RegistryInv, Distinct
  <2>2. CASE j # i
    BY <1>1, <1>2, <2>2, RegistryFrame, Zenon DEF Domains
  <2>3. QED
    BY <2>1, <2>2, Zenon
<1>5. ASSUME NEW r \in Request PROVE Keeps(r)'
  <2>1. CASE at[r] = i /\ pc[r] # "new"
    BY <1>1, <2>1, Zenon DEF Keeps, ProgressInv, CandidateInv, Waiting
  <2>2. CASE at[r] # i \/ pc[r] = "new"
    <3>1. Same(r) /\ \A s \in Request : Saves(s)
      BY <1>1, <2>2, Zenon DEF Same, Saves, Keeps, ProgressInv
    <3>2. pc[r] \in {"new", "done"} \/ Serves(at[r])
      BY <1>1, <2>2, SMTT(60) DEF Domains, Serves
    <3>3. pc[r] = "save" /\ ask[r].op = "add" => \A p \in catalog'.profiles : p.id # new[r].id
      BY <1>1, Zenon DEF Keeps, CandidateInv
    <3>4. QED
      BY <1>1, <1>2, <1>3, <3>1, <3>2, <3>3, RequestFrame, Zenon
  <2>3. QED
    BY <2>1, <2>2, Zenon
<1>6. QED
  BY <1>2, <1>3, <1>4, <1>5, InvParts, Zenon DEF DatabasesInv, Keeps, RoutesFresh

---------------------------------------------------------------------------
(* Requests.                                                               *)

(* A request that has ended, or only has leases to give back.              *)
LEMMA EndedKeeps ==
    ASSUME NEW r \in Request, pc'[r] = "done"
    PROVE  Keeps(r)' /\ Saves(r)
<1>1. ProgressInv(r)'
  BY Zenon DEF ProgressInv, Waiting
<1>2. CandidateInv(r)'
  BY Zenon DEF CandidateInv
<1>3. QED
  BY <1>1, <1>2, Zenon DEF Keeps, Saves

LEMMA ReleasingKeeps ==
    ASSUME NEW r \in Request, Keeps(r), pc[r] \notin {"new", "done"}, pc'[r] = "release",
           answer'[r] # "none" \/ ask[r].op \notin Changes, UNCHANGED <<up, ask, at, since>>
    PROVE  Keeps(r)' /\ Saves(r)
<1>1. up[at[r]] \in {"serving", "closed"} /\ ask[r].op \in Ops /\ 1 <= since[r]
  BY Zenon DEF Keeps, ProgressInv
<1>2. ProgressInv(r)'
  BY <1>1, Zenon DEF ProgressInv, Waiting
<1>3. CandidateInv(r)'
  BY Zenon DEF CandidateInv
<1>4. QED
  BY <1>2, <1>3, Zenon DEF Keeps, Saves

(* The registries other than that of i, which is kept by other means.      *)
LEMMA RegistriesFrame ==
    ASSUME Domains, CatalogInv, Extends, \A j \in Instance : RegistryInv(j),
           NEW i \in Instance, OnlyAt(i), RegistryInv(i)', Serves(i), UNCHANGED up
    PROVE  \A j \in Instance : RegistryInv(j)' /\ Serves(j)
<1> SUFFICES ASSUME NEW j \in Instance, j # i PROVE RegistryInv(j)' /\ Serves(j)
  BY Zenon, Zenon
<1>1. /\ revision[j] \in Nat /\ handlers'[j] = handlers[j] /\ default'[j] = default[j]
      /\ revision'[j] = revision[j] /\ up'[j] = up[j]
  BY Zenon DEF Domains, OnlyAt
<1>2. RegistryInv(j)'
  BY <1>1, RegistryFrame, Zenon
<1>3. Serves(j)
  BY <1>1, SMTT(60) DEF Serves
<1>4. QED
  BY <1>2, <1>3, Zenon

(* A step of one request keeps the others.                                 *)
LEMMA StepOf ==
    ASSUME DatabasesInv, NEW r \in Request, Extends, CatalogInv', Domains', ids \subseteq ids',
           \A i \in Instance : RegistryInv(i)' /\ Serves(i),
           \A q \in Request \ {r} : Same(q),
           \A q \in Request \ {r} : pc[q] = "save" /\ ask[q].op = "add" =>
               \A p \in catalog'.profiles : p.id # new[q].id,
           Saves(r), Keeps(r)'
    PROVE  DatabasesInv'
<1>1. Domains /\ CatalogInv /\ \A q \in Request : Keeps(q)
  BY InvParts, Zenon
<1>2. ASSUME NEW q \in Request PROVE Keeps(q)'
  <2>1. CASE q = r
    BY <2>1, Zenon
  <2>2. CASE q # r
    <3>1. Same(q) /\ Serves(at[q]) /\ \A s \in Request : Saves(s)
      BY <1>1, <2>2, Zenon DEF Same, Saves, Domains
    <3>2. QED
      BY <1>1, <2>2, <3>1, RequestFrame, Zenon
  <2>3. QED
    BY <2>1, <2>2, Zenon
<1>3. QED
  BY <1>2, InvParts, Zenon DEF DatabasesInv, Keeps, RoutesFresh

(* A step of one request that leaves the catalog and the registries alone. *)
LEMMA QuietStep ==
    ASSUME DatabasesInv, NEW r \in Request, UNCHANGED <<catalog, history, up, handlers, default, revision>>,
           Domains', ids \subseteq ids', \A q \in Request \ {r} : Same(q), Saves(r), Keeps(r)'
    PROVE  DatabasesInv'
<1>1. Domains /\ CatalogInv /\ (\A i \in Instance : RegistryInv(i)) /\ (\A q \in Request : Keeps(q))
  BY InvParts, Zenon
<1>2. Extends /\ CatalogInv'
  BY <1>1, UnchangedExtends, UnchangedCatalog, Zenon
<1>3. \A i \in Instance : RegistryInv(i)' /\ Serves(i)
  BY <1>1, <1>2, RegistryFrame, SMTT(60) DEF Domains, Serves
<1>4. \A q \in Request \ {r} : pc[q] = "save" /\ ask[q].op = "add" =>
         \A p \in catalog'.profiles : p.id # new[q].id
  BY <1>1, Zenon DEF Keeps, CandidateInv
<1>5. QED
  BY <1>2, <1>3, <1>4, StepOf, Zenon

LEMMA ArriveStep ==
    ASSUME DatabasesInv, NEW r \in Request, Arrive(r)
    PROVE  DatabasesInv'
<1>1. Domains /\ CatalogInv /\ (\A j \in Instance : RegistryInv(j)) /\ Keeps(r)
  BY InvParts, Zenon
<1>2. PICK i \in Instance, a \in Asks :
         up[i] = "serving" /\ at' = [at EXCEPT ![r] = i] /\ ask' = [ask EXCEPT ![r] = a]
  BY Zenon DEF Arrive
<1>3. a.op \in Ops
  BY SMTT(60) DEF Asks, Ops
<1>4. 1 <= catalog.rev
  BY <1>1, <1>2, SMTT(60) DEF RegistryInv, CatalogInv, Domains
<1>5. Domains' /\ \A q \in Request \ {r} : Same(q)
  BY <1>1, <1>2, Zenon DEF Arrive, Domains, CatalogInv, Same, registry
<1>6. /\ pc[r] = "new" /\ pc'[r] = "refresh" /\ at'[r] = i /\ ask'[r] = a /\ since'[r] = catalog.rev
      /\ up'[i] = "serving" /\ UNCHANGED <<catalog, held, answer, committed>>
  BY <1>1, <1>2, Zenon DEF Arrive, Domains
<1>7. Keeps(r)'
  <2>1. held[r] = {} /\ answer[r] = "none" /\ committed[r] = FALSE /\ catalog.rev \in Nat
    BY <1>1, <1>6, Zenon DEF Keeps, ProgressInv, Waiting, CatalogInv
  <2>2. ProgressInv(r)'
    BY <1>3, <1>4, <1>6, <2>1, SMTT(60) DEF ProgressInv, Waiting
  <2>3. CandidateInv(r)'
    BY <1>6, Zenon DEF CandidateInv
  <2>4. QED
    BY <1>6, <2>2, <2>3, Zenon DEF Keeps
<1>8. QED
  BY <1>5, <1>6, <1>7, QuietStep, Zenon DEF Arrive, registry, Saves

LEMMA EntryPoints ==
    ASSUME NEW op \in Ops
    PROVE  /\ op = "add" => Entry(op) = "check"
           /\ op \in {"remove", "default"} => Entry(op) = "save"
           /\ op \notin {"add", "remove", "default"} => Entry(op) = "route"
BY Zenon DEF Ops, Entry

LEMMA RefreshStep ==
    ASSUME DatabasesInv, NEW r \in Request, refresh(r)
    PROVE  DatabasesInv'
<1> DEFINE i == at[r]
<1>0. 1 <= catalog.rev /\ catalog.rev > 0 /\ revision[i] <= catalog.rev
  <2>1. i \in Instance /\ since[r] \in Nat /\ catalog.rev \in Nat
    BY Zenon DEF DatabasesInv, Domains, CatalogInv
  <2>2. since[r] <= catalog.rev /\ 1 <= since[r] /\ up[i] \in {"serving", "closed"}
    BY Zenon DEF DatabasesInv, refresh, ProgressInv
  <2>3. revision[i] <= catalog.rev
    BY <2>1, <2>2, Zenon DEF DatabasesInv, RegistryInv
  <2>4. QED
    BY <2>1, <2>2, <2>3, SMTT(60)
<1>1. /\ Domains /\ CatalogInv /\ (\A j \in Instance : RegistryInv(j)) /\ (\A q \in Request : Keeps(q))
      /\ pc[r] = "refresh" /\ i \in Instance /\ held[r] = {} /\ ask[r].op \in Ops
      /\ since[r] <= catalog.rev /\ 1 <= since[r] /\ since[r] \in Nat
      /\ answer[r] = "none" /\ committed[r] = FALSE /\ up[i] \in {"serving", "closed"}
      /\ UNCHANGED <<catalog, history, up, ask, committed, at, since, held, new, ids>>
  BY InvParts, Zenon DEF refresh, Keeps, ProgressInv, Domains, Waiting
<1>2. CASE /\ UNCHANGED <<handlers, default, revision>>
           /\ pc' = [pc EXCEPT ![r] = "done"] /\ DOMAIN answer' = Request
           /\ \A q \in Request \ {r} : answer'[q] = answer[q]
  <2>1. Domains' /\ (\A q \in Request \ {r} : Same(q)) /\ pc'[r] = "done"
    BY <1>1, <1>2, Zenon DEF Domains, Same
  <2>2. Keeps(r)' /\ Saves(r)
    BY <2>1, EndedKeeps, Zenon
  <2>3. QED
    BY <1>1, <1>2, <2>1, <2>2, QuietStep, Zenon
<1>3. CASE /\ UNCHANGED <<handlers, default, revision>> \/ installSnapshotLocked(i)
           /\ revision'[i] = catalog.rev
           /\ pc' = [pc EXCEPT ![r] = Entry(ask[r].op)] /\ UNCHANGED answer
  <2>1. OnlyAt(i)
    BY <1>1, <1>3, InstalledOnlyAt, Zenon DEF Domains, OnlyAt
  <2>2. Domains' /\ \A q \in Request \ {r} : Same(q)
    BY <1>1, <1>3, <2>1, Zenon DEF Domains, OnlyAt, Same
  <2>3. pc'[r] = Entry(ask[r].op)
    BY <1>1, <1>3, Zenon DEF Domains
  <2>4. Keeps(r)'
    BY <1>1, <1>3, <2>3, EntryPoints, SMTT(60) DEF Keeps, ProgressInv, CandidateInv, Waiting, Ops, Changes
  <2>5. Extends /\ CatalogInv'
    BY <1>1, UnchangedExtends, UnchangedCatalog, Zenon
  <2>6. RegistryInv(i)' /\ Serves(i)
    <3>1. 1 <= catalog.rev /\ catalog.rev > 0 /\ revision[i] <= catalog.rev
      BY <1>0, Zenon
    <3>2. RegistryInv(i)'
      <4>1. CASE UNCHANGED <<handlers, default, revision>>
        BY <1>1, <2>5, <4>1, RegistryFrame, Zenon DEF Domains
      <4>2. CASE installSnapshotLocked(i)
        BY <1>1, <3>1, <4>2, InstalledRegistry, Zenon
      <4>3. QED
        BY <1>3, <4>1, <4>2, Zenon
    <3>3. up'[i] = up[i] /\ revision[i] <= revision'[i]
      BY <1>1, <1>3, <3>1, Zenon
    <3>4. QED
      BY <3>2, <3>3, Zenon DEF Serves
  <2>10. \A j \in Instance : RegistryInv(j)' /\ Serves(j)
    BY <1>1, <2>1, <2>5, <2>6, RegistriesFrame, Zenon
  <2>7. \A q \in Request \ {r} : pc[q] = "save" /\ ask[q].op = "add" =>
           \A p \in catalog'.profiles : p.id # new[q].id
    BY <1>1, Zenon DEF Keeps, CandidateInv
  <2>8. Saves(r)
    BY <1>1, <2>3, EntryPoints, Zenon DEF Saves, Ops
  <2>9. QED
    BY <1>1, <2>2, <2>4, <2>5, <2>7, <2>8, <2>10, StepOf, Zenon
<1>4. CASE Answered(r, "error") /\ UNCHANGED registry
  BY <1>1, <1>2, <1>4, Zenon DEF Answered, registry, Domains
<1>5. CASE /\ pc' = [pc EXCEPT ![r] = Entry(ask[r].op)] /\ UNCHANGED answer
           /\ (Current(i) /\ UNCHANGED registry) \/ installSnapshotLocked(i)
  BY <1>1, <1>3, <1>5, Zenon DEF Current, Domains, registry, installSnapshotLocked
<1>6. QED
  BY <1>4, <1>5, Zenon DEF refresh

-----------------------------------------------------------------------------
(* Requests.                                                               *)

LEMMA NamedOne ==
    ASSUME NEW i, NEW id, Distinct(handlers[i]), Named(i, id) # {}
    PROVE  \E h \in handlers[i] : Named(i, id) = {h} /\ h.id = id
<1>1. PICK h \in handlers[i] : h.id = id
  BY Zenon DEF Named
<1>2. \A g \in Named(i, id) : g = h
  BY <1>1, Zenon DEF Named, Distinct
<1>3. QED
  BY <1>1, <1>2, Zenon DEF Named

LEMMA AcquireStep ==
    ASSUME DatabasesInv, NEW r \in Request, acquire(r)
    PROVE  DatabasesInv'
<1> DEFINE i == at[r]
<1>1. /\ Domains /\ CatalogInv /\ RegistryInv(i) /\ Keeps(r)
      /\ pc[r] = "route" /\ i \in Instance /\ held[r] = {} /\ ask[r].op \in Ops
      /\ ask[r].op \notin {"add", "remove", "default"}
      /\ since[r] <= revision[i] /\ 1 <= since[r] /\ since[r] \in Nat /\ revision[i] \in Nat
      /\ answer[r] = "none" /\ committed[r] = FALSE /\ up[i] \in {"serving", "closed"}
      /\ UNCHANGED <<catalog, history, up, handlers, default, revision, ask, committed, at, since, new, ids>>
  BY InvParts, Zenon DEF acquire, Keeps, ProgressInv, Domains, Waiting
<1>2. /\ DOMAIN pc' = Request /\ DOMAIN answer' = Request /\ DOMAIN held' = Request
      /\ \A q \in Request \ {r} : pc'[q] = pc[q] /\ answer'[q] = answer[q] /\ held'[q] = held[q]
  BY <1>1, Zenon DEF acquire, Answered, Domains
<1>3. Domains' /\ \A q \in Request \ {r} : Same(q)
  BY <1>1, <1>2, Zenon DEF Domains, Same
<1>4. CASE pc'[r] \in {"done", "release"} /\ (pc'[r] = "release" => answer'[r] # "none")
  <2>1. Keeps(r)'
    BY <1>1, <1>4, Zenon DEF Keeps, ProgressInv, CandidateInv, Waiting
  <2>2. QED
    BY <1>1, <1>3, <1>4, <2>1, QuietStep, Zenon DEF Saves
<1>5. CASE pc'[r] = "use" /\ held'[r] = Found(r) /\ answer' = answer /\ ask[r].op # "edit"
  <2>1. revision[i] \in since[r]..catalog.rev
    BY <1>1, SMTT(60) DEF RegistryInv, CatalogInv
  <2>2. /\ handlers[i] = history[revision[i]].profiles /\ default[i] = history[revision[i]].default
    BY <1>1, Zenon DEF RegistryInv
  <2>3. /\ Found(r) \subseteq handlers[i]
        /\ ask[r].op = "routed" => \A h \in Found(r) : h.id = default[i]
        /\ ask[r].op = "view" => Found(r) = handlers[i] \/ up[i] = "closed"
    BY Zenon DEF Found, Named
  <2>4. Fresh(r)'
    <3>1. /\ held'[r] \subseteq history'[revision[i]].profiles
          /\ ask'[r].op = "routed" => \A h \in held'[r] : h.id = history'[revision[i]].default
          /\ ask'[r].op = "view" => held'[r] = history'[revision[i]].profiles \/ up'[at'[r]] = "closed"
      BY <1>1, <1>5, <2>2, <2>3, Zenon
    <3>2. revision[i] \in since'[r]..catalog'.rev
      BY <1>1, <2>1, Zenon
    <3>3. QED
      BY <3>1, <3>2, Zenon DEF Fresh
  <2>5. Keeps(r)'
    BY <1>1, <1>5, <2>4, Zenon DEF Keeps, ProgressInv, CandidateInv, Waiting, Changes, Ops
  <2>6. QED
    BY <1>1, <1>3, <1>5, <2>5, QuietStep, Zenon DEF Saves
<1>6. CASE /\ pc'[r] = "check" /\ held'[r] = Found(r) /\ answer' = answer /\ ask[r].op = "edit"
           /\ Found(r) # {} /\ \A h \in Found(r) : h.rev = ask[r].seen
  <2>1. Found(r) = Named(i, ask[r].id)
    BY <1>1, <1>6, Zenon DEF Found
  <2>2. PICK old \in handlers[i] : Found(r) = {old} /\ old.id = ask[r].id
    BY <1>1, <1>6, <2>1, NamedOne, SMTT(60) DEF RegistryInv
  <2>3. old \in Found(r) /\ old.rev = ask[r].seen
    BY <1>6, <2>2, Zenon
  <2>4. Keeps(r)'
    BY <1>1, <1>6, <2>2, <2>3, ZenonT(60) DEF Keeps, ProgressInv, CandidateInv, Waiting
  <2>5. QED
    BY <1>1, <1>3, <1>6, <2>4, QuietStep, Zenon DEF Saves
<1>7. QED
  <2>1. CASE Found(r) = {} /\ ask[r].op # "view"
    BY <1>1, <1>4, <2>1, Zenon DEF acquire, Answered, Domains
  <2>2. CASE ~(Found(r) = {} /\ ask[r].op # "view")
    BY <1>1, <1>4, <1>5, <1>6, <2>2, Zenon DEF acquire, Domains
  <2>3. QED
    BY <2>1, <2>2, Zenon

(* A request that is answered in place.                                    *)
LEMMA AnsweredKeeps ==
    ASSUME Domains, NEW r \in Request, Keeps(r), pc[r] \notin {"new", "done"}, NEW a, a # "none", Answered(r, a),
           UNCHANGED <<catalog, up, ask, at, since, held>>
    PROVE  /\ Keeps(r)' /\ Saves(r)
           /\ DOMAIN pc' = Request /\ DOMAIN answer' = Request
           /\ \A q \in Request \ {r} : pc'[q] = pc[q] /\ answer'[q] = answer[q]
<1>1. /\ pc'[r] \in {"done", "release"} /\ answer'[r] = a
      /\ DOMAIN pc' = Request /\ DOMAIN answer' = Request
      /\ \A q \in Request \ {r} : pc'[q] = pc[q] /\ answer'[q] = answer[q]
  BY Zenon DEF Domains, Answered
<1>2. Keeps(r)'
  BY <1>1, Zenon DEF Keeps, ProgressInv, CandidateInv, Waiting
<1>3. QED
  BY <1>1, <1>2, Zenon DEF Saves

LEMMA CheckStep ==
    ASSUME DatabasesInv, NEW r \in Request, Check(r)
    PROVE  DatabasesInv'
<1> DEFINE id == IF ask[r].op = "edit" THEN ask[r].id ELSE NoDatabase
<1>1. /\ Domains /\ CatalogInv /\ (\A q \in Request : Keeps(q))
      /\ pc[r] = "check" /\ ask[r].op \in {"add", "edit"}
      /\ UNCHANGED <<catalog, history, up, handlers, default, revision, ask, committed, at, since, held>>
  BY InvParts, Zenon DEF Check, Keeps, ProgressInv
<1>2. CASE \E a : a # "none" /\ Answered(r, a) /\ UNCHANGED <<new, ids>>
  <2>1. PICK a : a # "none" /\ Answered(r, a) /\ UNCHANGED <<new, ids>>
    BY <1>2, Zenon
  <2>2. /\ Keeps(r)' /\ Saves(r) /\ DOMAIN pc' = Request /\ DOMAIN answer' = Request
        /\ \A q \in Request \ {r} : pc'[q] = pc[q] /\ answer'[q] = answer[q]
    BY <1>1, <2>1, AnsweredKeeps, Zenon
  <2>3. Domains' /\ \A q \in Request \ {r} : Same(q)
    BY <1>1, <2>1, <2>2, Zenon DEF Domains, Same
  <2>4. QED
    BY <1>1, <2>1, <2>2, <2>3, QuietStep, Zenon
<1>3. CASE /\ pc' = [pc EXCEPT ![r] = "save"] /\ answer' = answer
           /\ \E n \in IF ask[r].op = "edit" THEN {id} ELSE Id \ ids :
                /\ new' = [new EXCEPT ![r] = [id |-> n, endpoint |-> ask[r].endpoint, rev |-> tokens + 1]]
                /\ ids' = ids \cup {n}
  <2>1. PICK n \in IF ask[r].op = "edit" THEN {id} ELSE Id \ ids :
          /\ new' = [new EXCEPT ![r] = [id |-> n, endpoint |-> ask[r].endpoint, rev |-> tokens + 1]]
          /\ ids' = ids \cup {n}
    BY <1>3, Zenon
  <2>2. /\ pc'[r] = "save" /\ new'[r].id = n /\ new'[r].endpoint = ask[r].endpoint
        /\ \A q \in Request \ {r} : new'[q] = new[q] /\ pc'[q] = pc[q]
    BY <1>1, <1>3, <2>1, Zenon DEF Domains
  <2>3. Domains' /\ \A q \in Request \ {r} : Same(q)
    BY <1>1, <1>3, <2>1, <2>2, Zenon DEF Domains, Same
  <2>4. ask[r].op = "edit" => n = ask[r].id
    BY <2>1, Zenon
  <2>5. ask[r].op = "add" => n \notin ids
    BY <2>1, Zenon
  <2>6. ASSUME ask[r].op = "add"
        PROVE  /\ \A p \in catalog.profiles : p.id # n
               /\ \A q \in Request \ {r} : pc[q] = "save" /\ ask[q].op = "add" => new[q].id # n
    BY <1>1, <2>5, <2>6, Zenon DEF CatalogInv, Keeps, CandidateInv
  <2>7. CandidateInv(r)'
    BY <1>1, <2>1, <2>2, <2>4, <2>6, SMTT(60) DEF Keeps, CandidateInv
  <2>8. ProgressInv(r)'
    BY <1>1, <1>3, <2>2, Zenon DEF Keeps, ProgressInv, Waiting, Changes
  <2>9. Keeps(r)' /\ Saves(r)
    BY <1>1, <2>2, <2>5, <2>7, <2>8, Zenon DEF Keeps, Saves
  <2>10. QED
    BY <1>1, <2>1, <2>3, <2>9, QuietStep, Zenon
<1>4. QED
  BY <1>2, <1>3, Zenon DEF Check

LEMMA RefuseStep ==
    ASSUME DatabasesInv, NEW r \in Request, Refuse(r)
    PROVE  DatabasesInv'
<1>1. /\ Domains /\ Keeps(r) /\ pc[r] = "save" /\ Refusal(r) # "none" /\ Answered(r, Refusal(r))
      /\ UNCHANGED <<catalog, history, up, handlers, default, revision, ask, committed, at, since, held, new, ids>>
  BY InvParts, Zenon DEF Refuse
<1>2. /\ Keeps(r)' /\ Saves(r) /\ DOMAIN pc' = Request /\ DOMAIN answer' = Request
      /\ \A q \in Request \ {r} : pc'[q] = pc[q] /\ answer'[q] = answer[q]
  BY <1>1, AnsweredKeeps, Zenon
<1>3. Domains' /\ \A q \in Request \ {r} : Same(q)
  BY <1>1, <1>2, Zenon DEF Domains, Same
<1>4. QED
  BY <1>1, <1>2, <1>3, QuietStep, Zenon

LEMMA ReleaseStep ==
    ASSUME DatabasesInv, NEW r \in Request, release(r) \/ ViewNothing(r)
    PROVE  DatabasesInv'
<1>1. /\ Domains /\ Keeps(r) /\ pc[r] \in {"use", "release"}
      /\ UNCHANGED <<catalog, history, up, handlers, default, revision, ask, committed, at, since, new, ids>>
  BY InvParts, Zenon DEF release, ViewNothing, registry
<1>2. /\ DOMAIN held' = Request /\ DOMAIN pc' = Request /\ DOMAIN answer' = Request
      /\ \A q \in Request \ {r} : held'[q] = held[q] /\ pc'[q] = pc[q] /\ answer'[q] = answer[q]
      /\ pc'[r] \in {"done", "release"} /\ (pc'[r] = "release" => answer'[r] = answer[r])
  <2>1. CASE release(r)
    BY <1>1, <2>1, Zenon DEF release, Domains
  <2>2. CASE ViewNothing(r)
    BY <1>1, <2>2, Zenon DEF ViewNothing, Answered, Domains
  <2>3. QED
    BY <2>1, <2>2, Zenon
<1>3. Domains' /\ \A q \in Request \ {r} : Same(q)
  BY <1>1, <1>2, Zenon DEF Domains, Same
<1>4. Keeps(r)' /\ Saves(r)
  <2>1. CASE pc'[r] = "done"
    BY <2>1, EndedKeeps, Zenon
  <2>2. CASE pc'[r] = "release"
    <3>1. answer[r] # "none" \/ ask[r].op \notin Changes
      BY <1>1, Zenon DEF Keeps, ProgressInv
    <3>2. QED
      BY <1>1, <1>2, <2>2, <3>1, ReleasingKeeps, Zenon
  <2>3. QED
    BY <1>2, <2>1, <2>2, Zenon
<1>5. QED
  BY <1>1, <1>3, <1>4, QuietStep, Zenon

---------------------------------------------------------------------------
(* Commits.                                                                *)

(* What a request that is not refused makes of the committed catalog.      *)
Adds(r) ==
    /\ ask[r].op = "add" /\ new[r].endpoint = ask[r].endpoint
    /\ \A q \in catalog.profiles : q.id # new[r].id /\ q.endpoint # new[r].endpoint
    /\ NextProfiles(r) = catalog.profiles \cup {new[r]}
    /\ NextDefault(r) = IF catalog.default = NoDatabase THEN new[r].id ELSE catalog.default

Edits(r, old) ==
    /\ ask[r].op = "edit" /\ old.id = ask[r].id /\ old.rev = ask[r].seen
    /\ new[r].id = ask[r].id /\ new[r].endpoint = ask[r].endpoint
    /\ \A q \in catalog.profiles \ {old} : q.endpoint # new[r].endpoint
    /\ NextProfiles(r) = (catalog.profiles \ {old}) \cup {new[r]}
    /\ NextDefault(r) = catalog.default

Removes(r, old) ==
    /\ ask[r].op = "remove" /\ old.id = ask[r].id
    /\ NextProfiles(r) = catalog.profiles \ {old}
    /\ catalog.default # ask[r].id => NextDefault(r) = catalog.default

Defaults(r, p) ==
    /\ ask[r].op = "default" /\ p.id = ask[r].id
    /\ NextProfiles(r) = catalog.profiles
    /\ NextDefault(r) = ask[r].id

LEMMA Accepted ==
    ASSUME DatabasesInv, NEW r \in Request, pc[r] = "save", Refusal(r) = "none"
    PROVE  /\ catalog.rev = revision[at[r]] /\ catalog.rev > 0 /\ up[at[r]] = "serving"
           /\ handlers[at[r]] = catalog.profiles /\ default[at[r]] = catalog.default
           /\ validProfileDefault(NextProfiles(r), NextDefault(r))
           /\ \/ Adds(r)
              \/ \E old \in catalog.profiles : Edits(r, old) \/ Removes(r, old) \/ Defaults(r, old)
<1> DEFINE i == at[r]
<1>1. /\ Domains /\ CatalogInv /\ RegistryInv(i) /\ ProgressInv(r) /\ CandidateInv(r) /\ i \in Instance
      /\ up[i] \in {"serving", "closed"} /\ ask[r].op \in {"add", "edit", "remove", "default"}
  BY InvParts, Zenon DEF Keeps, Domains, ProgressInv, Changes
<1>2. /\ up[i] # "closed" /\ validProfileDefault(NextProfiles(r), NextDefault(r)) /\ Claims(i)
      /\ ask[r].op \in {"remove", "default"} => Named(i, ask[r].id) # {}
      /\ ask[r].op = "edit" => held[r] \subseteq handlers[i]
      /\ ask[r].op \in {"add", "edit"} => ~duplicate(i, new[r])
  BY <1>1, ZenonT(60) DEF Refusal
<1>3. catalog.rev = revision[i] /\ catalog.rev > 0 /\ up[i] = "serving"
  BY <1>1, <1>2, SMTT(60) DEF RegistryInv, CatalogInv, Claims
<1>4. handlers[i] = catalog.profiles /\ default[i] = catalog.default
  BY <1>1, <1>3, Zenon DEF RegistryInv, CatalogInv
<1>5. CASE ask[r].op = "add"
  <2>1. held[r] = {} /\ (\A q \in catalog.profiles : q.id # new[r].id) /\ new[r].endpoint = ask[r].endpoint
    BY <1>1, <1>5, Zenon DEF CandidateInv
  <2>2. \A q \in catalog.profiles : q.endpoint # new[r].endpoint
    BY <1>2, <1>4, <1>5, <2>1, Zenon DEF duplicate
  <2>3. NextProfiles(r) = catalog.profiles \cup {new[r]}
    BY <1>4, <1>5, <2>1, Zenon DEF NextProfiles
  <2>4. NextDefault(r) = IF catalog.default = NoDatabase THEN new[r].id ELSE catalog.default
    BY <1>4, <1>5, Zenon DEF NextDefault
  <2>5. QED
    BY <1>2, <1>3, <1>4, <1>5, <2>1, <2>2, <2>3, <2>4, Zenon DEF Adds
<1>6. CASE ask[r].op = "edit"
  <2>1. PICK old \in held[r] : held[r] = {old} /\ old.id = ask[r].id /\ old.rev = ask[r].seen
    BY <1>1, <1>6, Zenon DEF CandidateInv
  <2>2. new[r].id = ask[r].id /\ new[r].endpoint = ask[r].endpoint /\ old \in catalog.profiles
    BY <1>1, <1>2, <1>4, <1>6, <2>1, Zenon DEF CandidateInv
  <2>3. \A q \in catalog.profiles \ {old} : q.endpoint # new[r].endpoint
    BY <1>1, <1>2, <1>4, <1>6, <2>1, <2>2, Zenon DEF duplicate, CatalogInv, Distinct
  <2>4. NextProfiles(r) = (catalog.profiles \ {old}) \cup {new[r]}
    BY <1>4, <1>6, <2>1, Zenon DEF NextProfiles
  <2>5. NextDefault(r) = catalog.default
    BY <1>4, <1>6, Zenon DEF NextDefault
  <2>6. QED
    BY <1>2, <1>3, <1>4, <1>6, <2>1, <2>2, <2>3, <2>4, <2>5, Zenon DEF Edits
<1>7. CASE ask[r].op = "remove"
  <2>1. PICK old \in catalog.profiles : Named(i, ask[r].id) = {old} /\ old.id = ask[r].id
    BY <1>1, <1>2, <1>4, <1>7, NamedOne, SMTT(60) DEF RegistryInv
  <2>2. NextProfiles(r) = catalog.profiles \ {old}
    BY <1>4, <1>7, <2>1, Zenon DEF NextProfiles
  <2>3. catalog.default # ask[r].id => NextDefault(r) = catalog.default
    BY <1>4, <1>7, Zenon DEF NextDefault
  <2>4. QED
    BY <1>2, <1>3, <1>4, <1>7, <2>1, <2>2, <2>3, Zenon DEF Removes
<1>8. CASE ask[r].op = "default"
  <2>1. PICK p \in catalog.profiles : p.id = ask[r].id
    BY <1>2, <1>4, <1>8, Zenon DEF Named
  <2>2. NextProfiles(r) = catalog.profiles /\ NextDefault(r) = ask[r].id
    BY <1>4, <1>8, Zenon DEF NextProfiles, NextDefault
  <2>3. QED
    BY <1>2, <1>3, <1>4, <1>8, <2>1, <2>2, Zenon DEF Defaults
<1>9. QED
  BY <1>1, <1>5, <1>6, <1>7, <1>8, Zenon

(* A commit can be installed by every instance, and takes no identity that *)
(* another request has given out.                                          *)
LEMMA CommitSound ==
    ASSUME DatabasesInv, NEW r \in Request, pc[r] = "save", Refusal(r) = "none",
           Committed(NextProfiles(r), NextDefault(r)), UNCHANGED ids
    PROVE  /\ Extends /\ CatalogInv' /\ catalog'.rev = catalog.rev + 1 /\ history'[catalog.rev + 1] = catalog'
           /\ catalog'.profiles = NextProfiles(r) /\ catalog'.default = NextDefault(r)
           /\ \A q \in Request \ {r} : pc[q] = "save" /\ ask[q].op = "add" =>
                \A p \in catalog'.profiles : p.id # new[q].id
<1>1. CatalogInv /\ (\A q \in Request : CandidateInv(q)) /\ Distinct(catalog.profiles)
      /\ \A p \in catalog.profiles : p.id \in ids
  BY Zenon DEF DatabasesInv, CatalogInv
<1> DEFINE Sound ==
             /\ Distinct(NextProfiles(r)) /\ (\A p \in NextProfiles(r) : p.id \in ids)
             /\ \A p \in NextProfiles(r) :
                  (\E c \in catalog.profiles : c.id = p.id) \/ (p = new[r] /\ ask[r].op = "add")
<1>2. Sound
  <2>1. CASE Adds(r)
    BY <1>1, <2>1, ZenonT(60) DEF Adds, Distinct, CandidateInv
  <2>2. ASSUME NEW old \in catalog.profiles, Edits(r, old) PROVE Sound
    BY <1>1, <2>2, ZenonT(60) DEF Edits, Distinct
  <2>3. ASSUME NEW old \in catalog.profiles, Removes(r, old) PROVE Sound
    BY <1>1, <2>3, Zenon DEF Removes, Distinct
  <2>4. ASSUME NEW old \in catalog.profiles, Defaults(r, old) PROVE Sound
    BY <1>1, <2>4, Zenon DEF Defaults, Distinct
  <2>5. QED
    <3> HIDE DEF Sound
    <3>1. QED
      BY <2>1, <2>2, <2>3, <2>4, Accepted, Zenon
<1>3. /\ Extends /\ CatalogInv' /\ catalog'.rev = catalog.rev + 1 /\ history'[catalog.rev + 1] = catalog'
      /\ catalog'.profiles = NextProfiles(r) /\ catalog'.default = NextDefault(r)
  BY <1>1, <1>2, Accepted, CommittedExtends, Zenon
<1>4. ASSUME NEW q \in Request \ {r}, pc[q] = "save", ask[q].op = "add", NEW p \in NextProfiles(r)
      PROVE  p.id # new[q].id
  BY <1>1, <1>2, <1>4, SMTT(60) DEF CandidateInv
<1>5. QED
  BY <1>3, <1>4, Zenon

LEMMA CommitStep ==
    ASSUME DatabasesInv, NEW r \in Request, Save(r) \/ SaveFails(r)
    PROVE  DatabasesInv'
<1> DEFINE i == at[r]
<1>1. /\ Domains /\ CatalogInv /\ (\A j \in Instance : RegistryInv(j)) /\ (\A q \in Request : Keeps(q))
      /\ i \in Instance /\ pc[r] = "save" /\ Refusal(r) = "none" /\ ask[r].op \in Changes
      /\ UNCHANGED <<up, ask, at, since, new, ids>>
  BY InvParts, Zenon DEF Save, SaveFails, Domains, Keeps, ProgressInv
<1>2. /\ DOMAIN held' = Request /\ DOMAIN pc' = Request /\ DOMAIN answer' = Request /\ DOMAIN committed' = Request
      /\ \A q \in Request \ {r} : /\ held'[q] = held[q] /\ pc'[q] = pc[q] /\ answer'[q] = answer[q]
                                  /\ committed'[q] = committed[q]
      /\ pc'[r] \in {"done", "release"} /\ answer'[r] # "none"
  BY <1>1, Zenon DEF Save, SaveFails, Answered, Domains
<1>3. \A q \in Request \ {r} : Same(q)
  BY <1>1, <1>2, Zenon DEF Same
<1>4. Saves(r)
  BY <1>2, Zenon DEF Saves
<1>5. revision[i] = catalog.rev /\ catalog.rev > 0 /\ up[i] = "serving"
  BY <1>1, Accepted, Zenon
<1>6. Keeps(r)'
  BY <1>1, <1>2, EndedKeeps, ReleasingKeeps, Zenon
<1>7. CASE UNCHANGED <<catalog, history, handlers, default, revision>>
  <2>1. Domains'
    BY <1>1, <1>2, <1>7, Zenon DEF Domains
  <2>2. QED
    BY <1>1, <1>3, <1>4, <1>6, <1>7, <2>1, QuietStep, Zenon
<1>8. CASE Committed(NextProfiles(r), NextDefault(r))
  <2>1. /\ Extends /\ CatalogInv' /\ catalog'.rev = catalog.rev + 1 /\ history'[catalog.rev + 1] = catalog'
        /\ catalog'.profiles = NextProfiles(r) /\ catalog'.default = NextDefault(r)
        /\ \A q \in Request \ {r} : pc[q] = "save" /\ ask[q].op = "add" =>
             \A p \in catalog'.profiles : p.id # new[q].id
    BY <1>1, <1>8, CommitSound, Zenon
  <2>2. OnlyAt(i) /\ RegistryInv(i)' /\ Serves(i)
    <3>1. CASE SaveFails(r)
      <4>1. UNCHANGED <<handlers, default, revision>>
        BY <3>1, Zenon DEF SaveFails
      <4>2. QED
        BY <1>1, <2>1, <4>1, RegistryFrame, SMTT(60) DEF Domains, OnlyAt, Serves
    <3>2. CASE Save(r)
      <4>1. /\ handlers' = [handlers EXCEPT ![i] = NextProfiles(r)]
            /\ default' = [default EXCEPT ![i] = NextDefault(r)]
            /\ revision' = [revision EXCEPT ![i] = @ + 1]
        BY <3>2, Zenon DEF Save, Install
      <4>2. /\ handlers'[i] = NextProfiles(r) /\ default'[i] = NextDefault(r)
            /\ revision'[i] = catalog.rev + 1 /\ OnlyAt(i)
        BY <1>1, <1>5, <4>1, SMTT(60) DEF Domains, OnlyAt
      <4>3. Distinct(handlers'[i])
        BY <2>1, <4>2, Zenon DEF CatalogInv, Distinct
      <4>4. RegistryInv(i)'
        <5>1. catalog.rev \in Nat /\ up'[i] = "serving"
          BY <1>1, <1>5, Zenon DEF CatalogInv
        <5>2. 1 <= revision'[i] /\ revision'[i] <= catalog'.rev /\ history'[revision'[i]] = catalog'
          BY <2>1, <4>2, <5>1, SMTT(60)
        <5>3. handlers'[i] = history'[revision'[i]].profiles /\ default'[i] = history'[revision'[i]].default
          BY <2>1, <4>2, <5>2, ZenonT(60)
        <5>4. QED
          BY <1>1, <4>3, <5>1, <5>2, <5>3, Zenon DEF RegistryInv, Distinct
      <4>5. Serves(i)
        BY <1>1, <1>5, <4>2, SMTT(60) DEF Serves, CatalogInv
      <4>6. QED
        BY <4>2, <4>4, <4>5, Zenon
    <3>3. QED
      BY <3>1, <3>2, Zenon
  <2>3. Domains'
    BY <1>1, <1>2, <2>2, Zenon DEF Domains, OnlyAt
  <2>4. \A j \in Instance : RegistryInv(j)' /\ Serves(j)
    BY <1>1, <2>1, <2>2, RegistriesFrame, Zenon
  <2>5. ids \subseteq ids'
    BY <1>1, Zenon
  <2>6. QED
    BY <1>3, <1>4, <1>6, <2>1, <2>3, <2>4, <2>5, StepOf, Zenon
<1>9. QED
  BY <1>7, <1>8, Zenon DEF Save, SaveFails

---------------------------------------------------------------------------
(* Every reachable state satisfies the invariant: the committed catalogs   *)
(* can be installed, a registry is the catalog of its revision, and the    *)
(* identities given out are distinct (saveProfilesLocked, refresh,         *)
(* updateDatabaseRoute).                                                   *)
THEOREM DatabasesInductive == Spec => []DatabasesInv
<1>1. Init => DatabasesInv
  <2> SUFFICES ASSUME Init PROVE DatabasesInv
    OBVIOUS
  <2>1. (CHOOSE i \in Instance : TRUE) \in Instance
    BY DatabasesAssumption, Zenon
  <2>2. Domains
    BY <2>1, Zenon DEF Init, Domains
  <2>3. CatalogInv
    BY SMTT(60) DEF Init, CatalogInv, Uninitialized, Distinct, validProfileDefault
  <2>4. \A i \in Instance : RegistryInv(i)
    BY Zenon DEF Init, RegistryInv, Distinct
  <2>5. \A r \in Request : ProgressInv(r) /\ CandidateInv(r) /\ pc[r] # "use"
    BY Zenon DEF Init, ProgressInv, CandidateInv, Waiting
  <2>6. QED
    BY <2>2, <2>3, <2>4, <2>5, Zenon DEF DatabasesInv, RoutesFresh
<1>2. DatabasesInv /\ [Next]_vars => DatabasesInv'
  <2> SUFFICES ASSUME DatabasesInv, [Next]_vars PROVE DatabasesInv'
    OBVIOUS
  <2>1. CASE UNCHANGED vars
    <3>1. Domains'
      BY <2>1, Zenon DEF vars, DatabasesInv, Domains
    <3>2. CatalogInv' /\ Extends
      BY <2>1, UnchangedCatalog, UnchangedExtends, Zenon DEF vars, DatabasesInv
    <3>3. ASSUME NEW i \in Instance PROVE RegistryInv(i)'
      BY <2>1, ZenonT(60) DEF vars, DatabasesInv, RegistryInv, Distinct, validProfileDefault
    <3>4. ASSUME NEW r \in Request PROVE Keeps(r)'
      BY <2>1, SMTT(60) DEF vars, DatabasesInv, Keeps, RoutesFresh, ProgressInv, CandidateInv, Fresh
    <3>5. QED
      BY <3>1, <3>2, <3>3, <3>4, Zenon DEF DatabasesInv, Keeps, RoutesFresh
  <2>2. ASSUME NEW i \in Instance, Boot(i) \/ SaveInitial(i) \/ Close(i) \/ Crash(i) PROVE DatabasesInv'
    BY <2>2, BootStep, SaveInitialStep, CloseStep, CrashStep, Zenon
  <2>3. ASSUME NEW r \in Request,
               \/ Arrive(r) \/ refresh(r) \/ acquire(r) \/ Check(r)
               \/ Refuse(r) \/ SaveFails(r) \/ Save(r) \/ release(r) \/ ViewNothing(r)
        PROVE  DatabasesInv'
    BY <2>3, ArriveStep, RefreshStep, AcquireStep, CheckStep, RefuseStep, CommitStep, ReleaseStep, Zenon
  <2>4. QED
    BY <2>1, <2>2, <2>3, Zenon DEF Next
<1>3. QED
  BY <1>1, <1>2, PTL DEF Spec

(* No request is served by a connection that was replaced or removed       *)
(* before it arrived, whichever instance committed that change             *)
(* (databasesRoute, workspacesRoute: refresh before acquire).              *)
THEOREM RoutingIsFresh == Spec => []RoutesFresh
<1>1. DatabasesInv => RoutesFresh
  BY Zenon DEF DatabasesInv
<1>2. QED
  BY <1>1, DatabasesInductive, PTL

---------------------------------------------------------------------------
(* The refinement.                                                         *)

LEMMA AppliesToCatalog ==
    ASSUME DatabasesInv, NEW r \in Request, pc[r] = "save", Refusal(r) = "none",
           Committed(NextProfiles(r), NextDefault(r)), UNCHANGED <<ask, ids>>,
           committed' = [committed EXCEPT ![r] = TRUE],
           answer' = [answer EXCEPT ![r] = "ok"] \/ answer' = [answer EXCEPT ![r] = "error"]
    PROVE  C!Apply(r)
<1>1. /\ catalog' = [rev |-> catalog.rev + 1, profiles |-> NextProfiles(r), default |-> NextDefault(r)]
      /\ catalog'.profiles = NextProfiles(r) /\ catalog'.default = NextDefault(r)
  BY Zenon DEF Committed
<1>2. ~committed[r] /\ answer[r] = "none"
  BY Zenon DEF DatabasesInv, ProgressInv, Waiting
<1>3. CatalogInv'
  BY CommitSound, Zenon
<1>4. CASE Adds(r)
  <2>1. new[r] \in catalog'.profiles
    BY <1>1, <1>4, Zenon DEF Adds
  <2>2. C!Add(ask[r])
    BY <1>1, <1>4, <2>1, Zenon DEF Adds, C!Add, C!Becomes, C!NoDatabase, NoDatabase
  <2>3. QED
    BY <1>2, <1>4, <2>2, Zenon DEF Adds, C!Apply
<1>5. ASSUME NEW old \in catalog.profiles, Edits(r, old) PROVE C!Apply(r)
  <2>1. new[r] \in catalog'.profiles
    BY <1>1, <1>5, Zenon DEF Edits
  <2>2. C!Edit(ask[r])
    BY <1>1, <1>5, <2>1, Zenon DEF Edits, C!Edit, C!Becomes
  <2>3. QED
    BY <1>2, <1>5, <2>2, Zenon DEF Edits, C!Apply
<1>6. ASSUME NEW old \in catalog.profiles, Removes(r, old) PROVE C!Apply(r)
  <2>1. C!Installable(catalog')
    BY <1>3, Zenon DEF CatalogInv, Distinct, validProfileDefault, C!Installable, C!NoDatabase, NoDatabase
  <2>2. C!Remove(ask[r])
    BY <1>1, <1>6, <2>1, Zenon DEF Removes, C!Remove, C!Becomes
  <2>3. QED
    BY <1>2, <1>6, <2>2, Zenon DEF Removes, C!Apply
<1>7. ASSUME NEW p \in catalog.profiles, Defaults(r, p) PROVE C!Apply(r)
  <2>1. C!Default(ask[r])
    BY <1>1, <1>7, Zenon DEF Defaults, C!Default, C!Becomes
  <2>2. QED
    BY <1>2, <1>7, <2>1, Zenon DEF Defaults, C!Apply
<1>8. QED
  BY <1>4, <1>5, <1>6, <1>7, Accepted, Zenon

(* A request is refused before anything is committed for it.               *)
LEMMA AnswersCatalog ==
    ASSUME DatabasesInv, NEW r \in Request, pc[r] \in Waiting \ {"new"}, NEW a \in {"stale", "duplicate", "missing", "error"},
           answer' = [answer EXCEPT ![r] = a], UNCHANGED <<catalog, ask, committed>>
    PROVE  C!Answer(r)
<1>1. answer[r] = "none" /\ ~committed[r] /\ ask[r].op \in Ops
  BY Zenon DEF DatabasesInv, ProgressInv, Waiting
<1>2. ask[r] # C!Nothing
  BY <1>1, SMTT(60) DEF Ops, C!Nothing
<1>3. QED
  BY <1>1, <1>2, Zenon DEF C!Answer, C!Refusals

LEMMA InstanceRefines ==
    ASSUME DatabasesInv, NEW i \in Instance, Boot(i) \/ SaveInitial(i) \/ Close(i) \/ Crash(i)
    PROVE  C!Initialize \/ UNCHANGED C!cvars
<1>1. CASE SaveInitial(i) /\ Claims(i)
  <2>1. /\ Committed(handlers[i], default[i]) /\ catalog.rev = 0 /\ UNCHANGED <<ask, committed, answer>>
    BY <1>1, Zenon DEF SaveInitial, Claims, DatabasesInv, RegistryInv, requests
  <2>2. DatabasesInv'
    BY <1>1, SaveInitialStep, Zenon
  <2>3. C!Installable(catalog')
    BY <2>2, Zenon DEF DatabasesInv, CatalogInv, Distinct, validProfileDefault, C!Installable, C!NoDatabase, NoDatabase
  <2>4. C!Becomes(catalog'.profiles, catalog'.default)
    BY <2>1, Zenon DEF Committed, C!Becomes
  <2>5. QED
    BY <2>1, <2>3, <2>4, Zenon DEF C!Initialize
<1>2. CASE ~(SaveInitial(i) /\ Claims(i))
  BY <1>2, Zenon DEF Boot, SaveInitial, Close, Crash, requests, C!cvars
<1>3. QED
  BY <1>1, <1>2, Zenon

LEMMA RequestRefines ==
    ASSUME DatabasesInv, NEW r \in Request,
           \/ Arrive(r) \/ refresh(r) \/ acquire(r) \/ Check(r)
           \/ Refuse(r) \/ SaveFails(r) \/ Save(r) \/ release(r) \/ ViewNothing(r)
    PROVE  C!Ask(r) \/ C!Apply(r) \/ C!Answer(r) \/ UNCHANGED C!cvars
<1>1. CASE Arrive(r)
  <2>1. ask[r] = C!Nothing /\ UNCHANGED <<catalog, committed, answer>>
    BY <1>1, Zenon DEF Arrive, DatabasesInv, ProgressInv, Nothing, C!Nothing
  <2>2. PICK a \in Asks : ask' = [ask EXCEPT ![r] = a]
    BY <1>1, Zenon DEF Arrive
  <2>3. ask'[r] = a
    BY <2>2, Zenon DEF DatabasesInv, Domains
  <2>4. QED
    BY <2>1, <2>2, <2>3, Zenon DEF C!Ask
<1>2. CASE refresh(r) \/ acquire(r) \/ Check(r)
  <2>1. pc[r] \in Waiting \ {"new"} /\ UNCHANGED <<catalog, ask, committed>>
    BY <1>2, Zenon DEF refresh, acquire, Check, Waiting
  <2>2. \/ UNCHANGED answer
        \/ \E a \in {"stale", "duplicate", "missing", "error"} : answer' = [answer EXCEPT ![r] = a]
    BY <1>2, Zenon DEF refresh, acquire, Check, Answered
  <2>3. QED
    BY <2>1, <2>2, AnswersCatalog, Zenon DEF C!cvars
<1>3. CASE Refuse(r)
  <2>1. Refusal(r) \in {"stale", "duplicate", "missing", "error"}
    BY <1>3, Zenon DEF Refuse, Refusal
  <2>2. QED
    BY <1>3, <2>1, AnswersCatalog, Zenon DEF Refuse, Answered, Waiting
<1>4. CASE SaveFails(r) /\ UNCHANGED catalog
  <2>1. CASE UNCHANGED committed
    BY <1>4, <2>1, AnswersCatalog, Zenon DEF SaveFails, Answered, Waiting
  <2>2. CASE Committed(NextProfiles(r), NextDefault(r)) /\ committed' = [committed EXCEPT ![r] = TRUE]
    BY <1>4, <2>2, AppliesToCatalog, Zenon DEF SaveFails, Answered
  <2>3. QED
    BY <1>4, <2>1, <2>2, Zenon DEF SaveFails
<1>5. CASE SaveFails(r) /\ catalog' # catalog
  BY <1>5, AppliesToCatalog, Zenon DEF SaveFails, Answered
<1>6. CASE Save(r)
  BY <1>6, AppliesToCatalog, Zenon DEF Save
<1>7. CASE release(r) \/ ViewNothing(r)
  <2>1. UNCHANGED <<catalog, ask, committed>> /\ pc[r] \in {"use", "release"}
    BY <1>7, Zenon DEF release, ViewNothing
  <2>2. UNCHANGED answer \/ (answer[r] = "none" /\ answer' = [answer EXCEPT ![r] = "ok"])
    BY <1>7, ZenonT(60) DEF release, ViewNothing, Answered, DatabasesInv, ProgressInv, Waiting
  <2>3. answer[r] = "none" => ask[r].op \in Ops \ Changes /\ ask[r] # C!Nothing
    BY <2>1, SMTT(60) DEF DatabasesInv, ProgressInv, Ops, Changes, C!Nothing
  <2>4. QED
    BY <2>1, <2>2, <2>3, Zenon DEF C!Answer, C!Changes, Changes, C!cvars
<1>8. QED
  BY <1>1, <1>2, <1>3, <1>4, <1>5, <1>6, <1>7, Zenon

(* The instances together implement the one catalog of Catalog: no stale   *)
(* writer erases a change, no request is applied twice, and every answer   *)
(* is true (SaveProfilesRevision, updateDatabaseRoute).                    *)
THEOREM CatalogImplemented == Spec => ImplementsCatalog
<1>1. Init => C!CatalogInit
  BY Zenon DEF Init, C!CatalogInit, Uninitialized, C!Uninitialized, NoDatabase, C!NoDatabase, Nothing, C!Nothing
<1>2. DatabasesInv /\ [Next]_vars => [C!CatalogNext]_(C!cvars)
  <2> SUFFICES ASSUME DatabasesInv, [Next]_vars PROVE C!CatalogNext \/ UNCHANGED C!cvars
    OBVIOUS
  <2>1. CASE UNCHANGED vars
    BY <2>1, Zenon DEF vars, C!cvars
  <2>2. ASSUME NEW i \in Instance, Boot(i) \/ SaveInitial(i) \/ Close(i) \/ Crash(i)
        PROVE  C!CatalogNext \/ UNCHANGED C!cvars
    BY <2>2, InstanceRefines, Zenon DEF C!CatalogNext
  <2>3. ASSUME NEW r \in Request,
               \/ Arrive(r) \/ refresh(r) \/ acquire(r) \/ Check(r)
               \/ Refuse(r) \/ SaveFails(r) \/ Save(r) \/ release(r) \/ ViewNothing(r)
        PROVE  C!CatalogNext \/ UNCHANGED C!cvars
    BY <2>3, RequestRefines, Zenon DEF C!CatalogNext
  <2>4. QED
    BY <2>1, <2>2, <2>3, Zenon DEF Next
<1>3. QED
  BY <1>1, <1>2, DatabasesInductive, PTL DEF Spec, ImplementsCatalog, C!CatalogSpec

-----------------------------------------------------------------------------
(* Leases.                                                                 *)

Saving(r) == pc[r] = "save" /\ ask[r].op \in {"add", "edit"}

(* What request r leases of instance i, and the candidate it offers there. *)
Holds(r, i) == IF at[r] = i THEN held[r] ELSE {}
Offers(r, i) == IF at[r] = i /\ Saving(r) THEN {new[r]} ELSE {}

Registered(i) == IF up[i] \in {"loaded", "serving"} THEN handlers[i] ELSE {}
Users(i, h) == {r \in Request : h \in Holds(r, i)}
Leased(i) == UNION {Holds(r, i) : r \in Request}
Candidates(i) == UNION {Offers(r, i) : r \in Request}

(* What is used below about the size of finite sets.                       *)
Counting ==
    /\ IsFiniteSet({})
    /\ \A S : IsFiniteSet(S) => Cardinality(S) \in Nat /\ (Cardinality(S) = 0 <=> S = {})
    /\ \A S, x : IsFiniteSet(S) /\ x \notin S => IsFiniteSet(S \cup {x}) /\ Cardinality(S \cup {x}) = Cardinality(S) + 1
    /\ \A S, x : IsFiniteSet(S) /\ x \in S => IsFiniteSet(S \ {x}) /\ Cardinality(S \ {x}) = Cardinality(S) - 1

(* A lease is kept for every handler that is registered or used, and       *)
(* counts its users; a handler that was replaced is not installed again.   *)
LeaseInv(i) ==
    /\ DOMAIN leases[i] = Registered(i) \cup Leased(i)
    /\ \A h \in DOMAIN leases[i] :
         /\ leases[i][h] \in [refs : Nat, retired : BOOLEAN]
         /\ IsFiniteSet(Users(i, h)) /\ leases[i][h].refs = Cardinality(Users(i, h))
         /\ leases[i][h].retired = (h \notin Registered(i))
    /\ open[i] = DOMAIN leases[i] \cup Candidates(i)
    /\ up[i] \in {"loaded", "serving"} => \A h \in Leased(i) \ handlers[i] : h \notin catalog.profiles
    /\ up[i] = "down" => handlers[i] = {}

(* The profiles that were ever registered and are still in some memory.    *)
Known == catalog.profiles \cup (UNION {handlers[i] : i \in Instance}) \cup (UNION {held[r] : r \in Request})

(* The revision of a candidate was never given to another profile.         *)
NewInv(r) ==
    /\ pc[r] \in {"new", "done"} => held[r] = {}
    /\ pc[r] \in {"new", "refresh", "route", "check"} => new[r] = NoProfile
    /\ pc[r] = "save" /\ ask[r].op \notin {"add", "edit"} => new[r] = NoProfile /\ held[r] = {}
    /\ Saving(r) =>
         /\ new[r].rev \in 0 .. tokens /\ new[r].id # NoDatabase /\ new[r] \notin Known
         /\ \A q \in Request \ {r} : Saving(q) => new[q] # new[r]

LeasesInv ==
    /\ tokens \in Nat
    /\ DOMAIN leases = Instance /\ DOMAIN open = Instance
    /\ \A h \in Known : h.rev \in 0 .. tokens /\ h.id # NoDatabase
    /\ \A r \in Request : NewInv(r)
    /\ \A i \in Instance : LeaseInv(i)

(* Who leases what of an instance.                                         *)
SameAt(i) == \A r \in Request : Holds(r, i)' = Holds(r, i) /\ Offers(r, i)' = Offers(r, i)

SameHolders(i) == \A r \in Request : Holds(r, i)' = Holds(r, i)

LEMMA SameUsers ==
    ASSUME NEW i, SameHolders(i)
    PROVE  Leased(i)' = Leased(i) /\ \A h : Users(i, h)' = Users(i, h)
BY Zenon DEF SameHolders, Leased, Users

LEMMA SameCandidates ==
    ASSUME NEW i, SameAt(i)
    PROVE  SameHolders(i) /\ Candidates(i)' = Candidates(i)
BY Zenon DEF SameAt, SameHolders, Candidates

LEMMA SameElsewhere ==
    ASSUME NEW r \in Request, \A q \in Request \ {r} : Same(q), NEW i,
           Holds(r, i)' = Holds(r, i), Offers(r, i)' = Offers(r, i)
    PROVE  SameAt(i)
<1> SUFFICES ASSUME NEW q \in Request, q # r PROVE Holds(q, i)' = Holds(q, i) /\ Offers(q, i)' = Offers(q, i)
  BY Zenon DEF SameAt
<1>1. Same(q)
  OBVIOUS
<1>2. QED
  BY <1>1, Zenon DEF Same, Holds, Offers, Saving

LEMMA LeasedUsers ==
    ASSUME NEW i, NEW h
    PROVE  h \in Leased(i) <=> Users(i, h) # {}
BY Zenon DEF Leased, Users

LEMMA LeasedUsersNext ==
    ASSUME NEW i
    PROVE  \A h : h \in Leased(i)' <=> Users(i, h)' # {}
BY Zenon DEF Leased, Users

LEMMA NoUsers ==
    ASSUME Counting, NEW U, IsFiniteSet(U)
    PROVE  Cardinality(U) \in Nat /\ (Cardinality(U) = 0 <=> U = {})
BY Zenon DEF Counting

LEMMA LeaseFrame ==
    ASSUME NEW i \in Instance, LeaseInv(i), SameHolders(i),
           leases'[i] = leases[i], handlers'[i] = handlers[i],
           open'[i] = DOMAIN leases[i] \cup Candidates(i)',
           up'[i] = up[i] \/ (up[i] = "loaded" /\ up'[i] = "serving"),
           \A h \in Leased(i) : h \in catalog'.profiles => h \in catalog.profiles
    PROVE  LeaseInv(i)'
<1>1. Leased(i)' = Leased(i) /\ \A h : Users(i, h)' = Users(i, h)
  BY SameUsers, Zenon
<1>2. Registered(i)' = Registered(i)
  BY Zenon DEF Registered
<1>3. up'[i] \in {"loaded", "serving"} => up[i] \in {"loaded", "serving"}
  BY Zenon
<1>4. up'[i] = "down" => up[i] = "down"
  BY Zenon
<1>5. DOMAIN leases'[i] = Registered(i)' \cup Leased(i)'
  BY <1>1, <1>2, Zenon DEF LeaseInv
<1>6. \A h \in DOMAIN leases'[i] :
         /\ leases'[i][h] \in [refs : Nat, retired : BOOLEAN]
         /\ IsFiniteSet(Users(i, h)') /\ leases'[i][h].refs = Cardinality(Users(i, h)')
         /\ leases'[i][h].retired = (h \notin Registered(i)')
  <2> SUFFICES ASSUME NEW h \in DOMAIN leases[i]
               PROVE  /\ leases'[i][h] \in [refs : Nat, retired : BOOLEAN]
                      /\ IsFiniteSet(Users(i, h)') /\ leases'[i][h].refs = Cardinality(Users(i, h)')
                      /\ leases'[i][h].retired = (h \notin Registered(i)')
    BY Zenon
  <2>1. /\ leases[i][h] \in [refs : Nat, retired : BOOLEAN]
        /\ IsFiniteSet(Users(i, h)) /\ leases[i][h].refs = Cardinality(Users(i, h))
        /\ leases[i][h].retired = (h \notin Registered(i))
    BY Zenon DEF LeaseInv
  <2>2. Users(i, h)' = Users(i, h)
    BY <1>1, Zenon
  <2>3. leases'[i][h] = leases[i][h]
    BY Zenon
  <2>4. QED
    BY <1>2, <2>1, <2>2, <2>3, Zenon
<1>7. open'[i] = DOMAIN leases'[i] \cup Candidates(i)'
  BY Zenon
<1>8. /\ up'[i] \in {"loaded", "serving"} => \A h \in Leased(i)' \ handlers'[i] : h \notin catalog'.profiles
      /\ up'[i] = "down" => handlers'[i] = {}
  BY <1>1, <1>3, <1>4, Zenon DEF LeaseInv
<1>9. QED
  BY <1>5, <1>6, <1>7, <1>8, Zenon DEF LeaseInv

LEMMA LeaseSame ==
    ASSUME NEW i \in Instance, LeaseInv(i), SameAt(i),
           leases'[i] = leases[i], handlers'[i] = handlers[i], open'[i] = open[i],
           up'[i] = up[i] \/ (up[i] = "loaded" /\ up'[i] = "serving"),
           \A h \in Leased(i) : h \in catalog'.profiles => h \in catalog.profiles
    PROVE  LeaseInv(i)'
<1>1. SameHolders(i) /\ open'[i] = DOMAIN leases[i] \cup Candidates(i)'
  BY SameCandidates, Zenon DEF LeaseInv
<1>2. QED
  BY <1>1, LeaseFrame, Zenon

(* The registry of i becomes H over leases L that count the users.         *)
LEMMA InstallStep ==
    ASSUME Counting, NEW i \in Instance, NEW H, NEW L, Install(i, H, L),
           i \in DOMAIN handlers, i \in DOMAIN leases, i \in DOMAIN open, up'[i] \in {"loaded", "serving"},
           DOMAIN L = handlers[i] \cup Leased(i)',
           \A h \in DOMAIN L :
              /\ L[h] \in [refs : Nat, retired : BOOLEAN]
              /\ IsFiniteSet(Users(i, h)') /\ L[h].refs = Cardinality(Users(i, h)')
              /\ L[h].retired = (h \notin handlers[i]),
           open[i] = DOMAIN L \cup Candidates(i), Candidates(i) \cap handlers[i] = {},
           Candidates(i) \cup (H \ handlers[i]) = Candidates(i)' \cup (H \ handlers[i]),
           \A h \in Leased(i)' \ handlers[i] : h \notin H,
           \A h \in Leased(i)' \ H : h \notin catalog'.profiles
    PROVE  LeaseInv(i)'
<1> DEFINE gone == handlers[i] \ H
           fresh == H \ handlers[i]
           D == (DOMAIN L \ Idle(L, gone)) \cup fresh
<1>1. /\ handlers'[i] = H /\ open'[i] = (open[i] \ Idle(L, gone)) \cup fresh
      /\ leases'[i] = [h \in D |-> IF h \in fresh THEN Lease
                                   ELSE [refs |-> L[h].refs, retired |-> L[h].retired \/ h \in gone]]
  BY Zenon DEF Install
<1>2. Registered(i)' = H
  BY <1>1, Zenon DEF Registered
<1>3. \A h \in DOMAIN L : L[h].refs = 0 <=> h \notin Leased(i)'
  <2> SUFFICES ASSUME NEW h \in DOMAIN L PROVE L[h].refs = 0 <=> h \notin Leased(i)'
    BY Zenon
  <2>1. h \in Leased(i)' <=> Users(i, h)' # {}
    BY LeasedUsersNext, Zenon
  <2>2. Cardinality(Users(i, h)') = 0 <=> Users(i, h)' = {}
    BY NoUsers, Zenon
  <2>3. QED
    BY <2>1, <2>2, Zenon
<1>4. \A h : h \in Idle(L, gone) <=> h \in gone /\ h \notin Leased(i)'
  BY <1>3, Zenon DEF Idle
<1>5. D = H \cup Leased(i)'
  BY <1>4, Zenon
<1>6. \A h \in D :
         /\ leases'[i][h] \in [refs : Nat, retired : BOOLEAN]
         /\ IsFiniteSet(Users(i, h)') /\ leases'[i][h].refs = Cardinality(Users(i, h)')
         /\ leases'[i][h].retired = (h \notin H)
  <2> SUFFICES ASSUME NEW h \in D
               PROVE  /\ leases'[i][h] \in [refs : Nat, retired : BOOLEAN]
                      /\ IsFiniteSet(Users(i, h)') /\ leases'[i][h].refs = Cardinality(Users(i, h)')
                      /\ leases'[i][h].retired = (h \notin H)
    BY Zenon
  <2>1. CASE h \in fresh
    <3>1. leases'[i][h] = [refs |-> 0, retired |-> FALSE]
      BY <1>1, <2>1, Zenon DEF Lease
    <3>2. Users(i, h)' = {}
      <4>1. h \notin Leased(i)'
        BY <2>1, Zenon
      <4>2. QED
        BY <4>1, LeasedUsersNext, Zenon
    <3>3. IsFiniteSet({}) /\ Cardinality({}) = 0
      BY Zenon DEF Counting
    <3>4. 0 \in Nat /\ FALSE \in BOOLEAN /\ FALSE = (h \notin H)
      BY <2>1, Zenon
    <3> DEFINE b == FALSE
    <3>5. leases'[i][h] = [refs |-> 0, retired |-> b] /\ b \in BOOLEAN /\ b = (h \notin H)
      BY <3>1, <3>4, Zenon
    <3> HIDE DEF b
    <3>6. leases'[i][h] \in [refs : Nat, retired : BOOLEAN] /\ leases'[i][h].refs = 0 /\ leases'[i][h].retired = b
      BY <3>5, SMT
    <3>7. QED
      BY <3>2, <3>3, <3>5, <3>6, Zenon
  <2>2. CASE h \notin fresh
    <3> DEFINE b == L[h].retired \/ h \in gone
    <3>1. h \in DOMAIN L /\ leases'[i][h] = [refs |-> L[h].refs, retired |-> b]
      BY <1>1, <2>2, Zenon
    <3>2. L[h].refs \in Nat /\ L[h].retired \in BOOLEAN
      BY <3>1, Zenon
    <3>3. b \in BOOLEAN /\ b = (h \notin H)
      BY <2>2, <3>1, <3>2, Zenon
    <3> HIDE DEF b
    <3>4. leases'[i][h] \in [refs : Nat, retired : BOOLEAN] /\ leases'[i][h].refs = L[h].refs /\ leases'[i][h].retired = b
      BY <3>1, <3>2, <3>3, SMT
    <3>5. QED
      BY <3>1, <3>3, <3>4, Zenon
  <2>3. QED
    BY <2>1, <2>2
<1>7. open'[i] = D \cup Candidates(i)'
  BY <1>1, <1>4, Zenon
<1>8. DOMAIN leases'[i] = D
  BY <1>1, Zenon
<1> HIDE DEF D
<1>9. QED
  BY <1>1, <1>2, <1>5, <1>6, <1>7, <1>8, Zenon DEF LeaseInv

LEMMA KnownHas ==
    /\ catalog.profiles \subseteq Known
    /\ \A i \in Instance : handlers[i] \subseteq Known
    /\ \A r \in Request : held[r] \subseteq Known
BY Zenon DEF Known

LEMMA KnownStep ==
    ASSUME NEW X, catalog'.profiles \subseteq X,
           \A i \in Instance : handlers'[i] \subseteq X, \A r \in Request : held'[r] \subseteq X
    PROVE  Known' \subseteq X
BY Zenon DEF Known

LEMMA LeasedKnown ==
    ASSUME NEW i
    PROVE  Leased(i) \subseteq Known
<1> SUFFICES ASSUME NEW r \in Request, NEW h \in Holds(r, i) PROVE h \in Known
  BY Zenon DEF Leased
<1>1. h \in held[r]
  BY Zenon DEF Holds
<1>2. QED
  BY <1>1, KnownHas, Zenon

(* A candidate is no profile anybody has met.                              *)
LEMMA CandidatesFresh ==
    ASSUME LeasesInv, NEW i
    PROVE  Candidates(i) \cap Known = {}
<1> SUFFICES ASSUME NEW r \in Request, NEW h \in Offers(r, i) PROVE h \notin Known
  BY Zenon DEF Candidates
<1>1. Saving(r) /\ h = new[r]
  BY Zenon DEF Offers
<1>2. QED
  BY <1>1, Zenon DEF LeasesInv, NewInv

LEMMA LeasesDomain ==
    ASSUME LeasesInv, NEW i \in Instance
    PROVE  /\ LeaseInv(i) /\ DOMAIN leases[i] = Registered(i) \cup Leased(i)
           /\ Registered(i) \subseteq Known /\ Leased(i) \subseteq Known
           /\ open[i] = DOMAIN leases[i] \cup Candidates(i)
<1>1. LeaseInv(i)
  BY Zenon DEF LeasesInv
<1>2. Registered(i) \subseteq Known
  BY KnownHas, Zenon DEF Registered
<1>3. QED
  BY <1>1, <1>2, LeasedKnown, Zenon DEF LeaseInv

(* A request that is not r keeps what it is about to save, while no        *)
(* profile becomes known but the one that r saves.                         *)
LEMMA NewFrame ==
    ASSUME LeasesInv, NEW r \in Request, \A q \in Request \ {r} : Same(q),
           tokens' = tokens, ~Saving(r)', NewInv(r)',
           Known' \subseteq Known \/ (Saving(r) /\ Known' \subseteq Known \cup {new[r]})
    PROVE  /\ tokens' \in Nat /\ (\A h \in Known' : h.rev \in 0 .. tokens' /\ h.id # NoDatabase)
           /\ \A q \in Request : NewInv(q)'
<1>1. tokens' \in Nat /\ \A h \in Known' : h.rev \in 0 .. tokens' /\ h.id # NoDatabase
  BY Zenon DEF LeasesInv, NewInv
<1>2. ASSUME NEW q \in Request, q # r PROVE NewInv(q)'
  <2>1. NewInv(q) /\ Same(q) /\ (Saving(q)' <=> Saving(q)) /\ new'[q] = new[q]
    BY <1>2, Zenon DEF LeasesInv, Same, Saving
  <2>2. ASSUME Saving(q)
        PROVE  /\ new'[q].rev \in 0 .. tokens' /\ new'[q].id # NoDatabase /\ new'[q] \notin Known'
               /\ \A p \in Request \ {q} : Saving(p)' => new'[p] # new'[q]
    <3>1. new[q].rev \in 0 .. tokens /\ new[q].id # NoDatabase /\ new[q] \notin Known
          /\ \A p \in Request \ {q} : Saving(p) => new[p] # new[q]
      BY <2>1, <2>2, Zenon DEF NewInv
    <3>2. new[q] \notin Known'
      BY <1>2, <3>1, Zenon
    <3>3. ASSUME NEW p \in Request, p # q, Saving(p)' PROVE new'[p] # new[q]
      <4>1. p # r
        BY <3>3, Zenon
      <4>2. Saving(p) /\ new'[p] = new[p]
        BY <3>3, <4>1, Zenon DEF Same, Saving
      <4>3. QED
        BY <3>1, <3>3, <4>2, Zenon
    <3>4. QED
      BY <2>1, <3>1, <3>2, <3>3, Zenon
  <2>3. QED
    BY <2>1, <2>2, Zenon DEF NewInv, Same
<1>3. QED
  BY <1>1, <1>2, Zenon

(* The instances where r does not run see nothing of its step but commits. *)
LEMMA Elsewhere ==
    ASSUME LeasesInv, NEW r \in Request, \A q \in Request \ {r} : Same(q), at'[r] = at[r],
           NEW i \in Instance, i # at[r],
           leases'[i] = leases[i], handlers'[i] = handlers[i], open'[i] = open[i], up'[i] = up[i],
           catalog'.profiles \subseteq catalog.profiles \/ (Saving(r) /\ catalog'.profiles \subseteq catalog.profiles \cup {new[r]})
    PROVE  LeaseInv(i)'
<1>1. Holds(r, i)' = Holds(r, i) /\ Offers(r, i)' = Offers(r, i)
  BY Zenon DEF Holds, Offers
<1>2. SameAt(i)
  BY <1>1, SameElsewhere, Zenon
<1>3. Saving(r) => new[r] \notin Leased(i)
  BY LeasedKnown, Zenon DEF LeasesInv, NewInv
<1>4. LeaseInv(i)
  BY Zenon DEF LeasesInv
<1>5. QED
  BY <1>2, <1>3, <1>4, LeaseSame, Zenon

-----------------------------------------------------------------------------
(* The steps of an instance.                                               *)

LEMMA NobodyRuns ==
    ASSUME DatabasesInv, LeasesInv, NEW i \in Instance, up[i] \notin {"serving", "closed"}
    PROVE  Leased(i) = {} /\ Candidates(i) = {} /\ \A r \in Request : at[r] = i => pc[r] \in {"new", "done"} /\ held[r] = {}
<1>1. ASSUME NEW r \in Request, at[r] = i PROVE pc[r] \in {"new", "done"} /\ held[r] = {}
  <2>1. pc[r] \in {"new", "done"}
    BY <1>1, Zenon DEF DatabasesInv, ProgressInv
  <2>2. QED
    BY <2>1, Zenon DEF LeasesInv, NewInv
<1>2. ASSUME NEW r \in Request PROVE Holds(r, i) = {} /\ Offers(r, i) = {}
  BY <1>1, Zenon DEF Holds, Offers, Saving
<1>3. QED
  BY <1>1, <1>2, Zenon DEF Leased, Candidates

LEMMA InstallAt ==
    ASSUME Counting, DatabasesInv, LeasesInv, NEW i \in Instance, NEW H, Install(i, H, leases[i]), SameAt(i),
           up[i] # "closed", up'[i] \in {"loaded", "serving"},
           \A h \in Leased(i) \ handlers[i] : h \notin H, \A h \in Leased(i) \ H : h \notin catalog'.profiles
    PROVE  LeaseInv(i)'
<1>1. i \in DOMAIN handlers /\ i \in DOMAIN leases /\ i \in DOMAIN open
  BY Zenon DEF DatabasesInv, Domains, LeasesInv
<1>2. up[i] \in {"down", "loaded", "serving"}
  BY Zenon DEF DatabasesInv, RegistryInv
<1>3. Registered(i) = handlers[i]
  BY <1>2, LeasesDomain, Zenon DEF Registered, LeaseInv
<1>4. /\ Leased(i)' = Leased(i) /\ Candidates(i)' = Candidates(i)
      /\ \A h : Users(i, h)' = Users(i, h)
  BY SameCandidates, SameUsers, Zenon
<1>5. DOMAIN leases[i] = handlers[i] \cup Leased(i)' /\ open[i] = DOMAIN leases[i] \cup Candidates(i)
  BY <1>3, <1>4, LeasesDomain, Zenon
<1>6. ASSUME NEW h \in DOMAIN leases[i]
      PROVE  /\ leases[i][h] \in [refs : Nat, retired : BOOLEAN]
             /\ IsFiniteSet(Users(i, h)') /\ leases[i][h].refs = Cardinality(Users(i, h)')
             /\ leases[i][h].retired = (h \notin handlers[i])
  <2>1. /\ leases[i][h] \in [refs : Nat, retired : BOOLEAN]
        /\ IsFiniteSet(Users(i, h)) /\ leases[i][h].refs = Cardinality(Users(i, h))
        /\ leases[i][h].retired = (h \notin Registered(i))
    BY LeasesDomain, Zenon DEF LeaseInv
  <2>2. Users(i, h)' = Users(i, h)
    BY <1>4, Zenon
  <2>3. QED
    BY <1>3, <2>1, <2>2, Zenon
<1>7. Candidates(i) \cap handlers[i] = {}
  BY CandidatesFresh, KnownHas, Zenon
<1>8. \A h \in DOMAIN leases[i] :
         /\ leases[i][h] \in [refs : Nat, retired : BOOLEAN]
         /\ IsFiniteSet(Users(i, h)') /\ leases[i][h].refs = Cardinality(Users(i, h)')
         /\ leases[i][h].retired = (h \notin handlers[i])
  BY <1>6, Zenon
<1>9. Candidates(i) \cup (H \ handlers[i]) = Candidates(i)' \cup (H \ handlers[i])
  BY <1>4, Zenon
<1>10. (\A h \in Leased(i)' \ handlers[i] : h \notin H) /\ (\A h \in Leased(i)' \ H : h \notin catalog'.profiles)
  BY <1>4, Zenon
<1>11. QED
  BY <1>1, <1>5, <1>7, <1>8, <1>9, <1>10, InstallStep, Zenon

LEMMA SnapshotStep ==
    ASSUME Counting, DatabasesInv, LeasesInv, NEW i \in Instance, installSnapshotLocked(i), SameAt(i),
           UNCHANGED catalog, up[i] # "closed", up'[i] \in {"loaded", "serving"}
    PROVE  LeaseInv(i)'
<1>1. \A h \in Leased(i) \ handlers[i] : h \notin catalog.profiles
  <2>1. CASE up[i] = "serving"
    BY <2>1, LeasesDomain, Zenon DEF LeaseInv
  <2>2. CASE up[i] # "serving"
    BY <2>2, NobodyRuns, Zenon
  <2>3. QED
    BY <2>1, <2>2, Zenon
<1>2. Install(i, catalog.profiles, leases[i])
  BY Zenon DEF installSnapshotLocked
<1>3. \A h \in Leased(i) \ catalog.profiles : h \notin catalog'.profiles
  BY Zenon
<1>4. QED
  BY <1>1, <1>2, <1>3, InstallAt, Zenon

(* What a request is about to save stays unknown when profiles become      *)
(* known only with a revision of their own.                                *)
LEMMA NewKept ==
    ASSUME LeasesInv, NEW q \in Request, tokens' \in Nat, tokens <= tokens',
           \A p \in Request : Saving(p)' => Saving(p) /\ new'[p] = new[p],
           \A h \in Known' : h \in Known \/ h.rev \notin 0 .. tokens,
           pc'[q] \in {"new", "done"} => held'[q] = {},
           pc'[q] \in {"new", "refresh", "route", "check"} => new'[q] = NoProfile,
           pc'[q] = "save" /\ ask'[q].op \notin {"add", "edit"} => new'[q] = NoProfile /\ held'[q] = {}
    PROVE  NewInv(q)'
<1>1. ASSUME Saving(q)'
      PROVE  /\ new'[q].rev \in 0 .. tokens' /\ new'[q].id # NoDatabase /\ new'[q] \notin Known'
             /\ \A p \in Request \ {q} : Saving(p)' => new'[p] # new'[q]
  <2>1. Saving(q) /\ new'[q] = new[q]
    BY <1>1, Zenon
  <2>2. /\ new[q].rev \in 0 .. tokens /\ new[q].id # NoDatabase /\ new[q] \notin Known
        /\ \A p \in Request \ {q} : Saving(p) => new[p] # new[q]
    BY <2>1, Zenon DEF LeasesInv, NewInv
  <2>3. new[q].rev \in 0 .. tokens'
    BY <2>2, SMT DEF LeasesInv
  <2>4. new[q] \notin Known'
    BY <2>2, Zenon
  <2>5. ASSUME NEW p \in Request \ {q}, Saving(p)' PROVE new'[p] # new'[q]
    BY <2>1, <2>2, <2>5, Zenon
  <2>6. QED
    BY <2>1, <2>2, <2>3, <2>4, <2>5, Zenon
<1>2. QED
  BY <1>1, Zenon DEF NewInv

LEMMA NewSame ==
    ASSUME LeasesInv, NEW q \in Request, \A p \in Request : Same(p), tokens' \in Nat, tokens <= tokens',
           \A h \in Known' : h \in Known \/ h.rev \notin 0 .. tokens
    PROVE  NewInv(q)'
<1>1. \A p \in Request : Saving(p)' => Saving(p) /\ new'[p] = new[p]
  BY Zenon DEF Same, Saving
<1>2. /\ pc'[q] \in {"new", "done"} => held'[q] = {}
      /\ pc'[q] \in {"new", "refresh", "route", "check"} => new'[q] = NoProfile
      /\ pc'[q] = "save" /\ ask'[q].op \notin {"add", "edit"} => new'[q] = NoProfile /\ held'[q] = {}
  BY ZenonT(60) DEF Same, LeasesInv, NewInv
<1>3. QED
  BY <1>1, <1>2, NewKept, Zenon

LEMMA RequestsRest ==
    ASSUME UNCHANGED requests
    PROVE  (\A r \in Request : Same(r)) /\ (\A i : SameAt(i)) /\ UNCHANGED <<pc, ask, held, new, at>>
<1>1. UNCHANGED <<ask, committed, answer, pc, at, since, held, new>>
  BY Zenon DEF requests
<1>2. QED
  BY <1>1, Zenon DEF Same, SameAt, Holds, Offers, Saving

(* The step of an instance that leaves the requests alone.                 *)
LEMMA InstanceStep ==
    ASSUME DatabasesInv, LeasesInv, UNCHANGED requests, NEW i \in Instance, LeaseInv(i)',
           tokens' \in Nat, tokens <= tokens',
           DOMAIN leases' = Instance, DOMAIN open' = Instance,
           \A h \in Known' : h.rev \in 0 .. tokens' /\ h.id # NoDatabase /\ (h \in Known \/ h.rev \notin 0 .. tokens),
           \A j \in Instance \ {i} :
              /\ leases'[j] = leases[j] /\ handlers'[j] = handlers[j] /\ open'[j] = open[j] /\ up'[j] = up[j]
              /\ \A h \in Leased(j) : h \in catalog'.profiles => h \in catalog.profiles
    PROVE  LeasesInv'
<1>1. \A q \in Request : NewInv(q)'
  BY RequestsRest, NewSame, Zenon
<1>2. ASSUME NEW j \in Instance, j # i PROVE LeaseInv(j)'
  <2>1. SameAt(j) /\ LeaseInv(j)
    BY RequestsRest, Zenon DEF LeasesInv
  <2>2. QED
    BY <1>2, <2>1, LeaseSame, Zenon
<1>3. QED
  BY <1>1, <1>2, Zenon DEF LeasesInv

LEMMA KnownKept ==
    ASSUME LeasesInv, tokens' \in Nat, tokens <= tokens', Known' \subseteq Known
    PROVE  \A h \in Known' : h.rev \in 0 .. tokens' /\ h.id # NoDatabase /\ (h \in Known \/ h.rev \notin 0 .. tokens)
<1> SUFFICES ASSUME NEW h \in Known' PROVE h.rev \in 0 .. tokens' /\ h.id # NoDatabase /\ h \in Known
  BY Zenon
<1>1. h.rev \in 0 .. tokens /\ h.id # NoDatabase /\ tokens \in Nat /\ h \in Known
  BY Zenon DEF LeasesInv
<1>2. QED
  BY <1>1, SMT

LEMMA InstallFrame ==
    ASSUME LeasesInv, Domains, NEW i \in Instance, NEW H, NEW L, Install(i, H, L)
    PROVE  /\ DOMAIN leases' = Instance /\ DOMAIN open' = Instance /\ handlers'[i] = H
           /\ \A j \in Instance \ {i} : leases'[j] = leases[j] /\ handlers'[j] = handlers[j] /\ open'[j] = open[j]
BY Zenon DEF LeasesInv, Domains, Install

LEMMA BootLeases ==
    ASSUME Counting, DatabasesInv, LeasesInv, NEW i \in Instance, Boot(i)
    PROVE  LeasesInv'
<1>1. /\ up[i] = "down" /\ UNCHANGED <<catalog, requests>> /\ Domains /\ tokens \in Nat
      /\ up' = [up EXCEPT ![i] = "serving"] \/ up' = [up EXCEPT ![i] = "loaded"]
  BY Zenon DEF Boot, DatabasesInv, LeasesInv
<1>2. up'[i] \in {"loaded", "serving"} /\ \A j \in Instance \ {i} : up'[j] = up[j]
  BY <1>1, Zenon DEF Domains
<1>3. SameAt(i) /\ UNCHANGED held
  BY <1>1, RequestsRest, Zenon
<1>4. Leased(i) = {}
  BY <1>1, NobodyRuns, Zenon
<1>5. CASE installSnapshotLocked(i) /\ UNCHANGED tokens
  <2>1. LeaseInv(i)'
    BY <1>1, <1>2, <1>3, <1>5, SnapshotStep, Zenon
  <2>2. Install(i, catalog.profiles, leases[i])
    BY <1>5, Zenon DEF installSnapshotLocked
  <2>3. /\ DOMAIN leases' = Instance /\ DOMAIN open' = Instance /\ handlers'[i] = catalog.profiles
        /\ \A j \in Instance \ {i} : leases'[j] = leases[j] /\ handlers'[j] = handlers[j] /\ open'[j] = open[j]
    BY <1>1, <2>2, InstallFrame, Zenon
  <2>4. Known' \subseteq Known
    BY <1>1, <1>3, <2>3, KnownHas, KnownStep, Zenon
  <2>5. tokens' \in Nat /\ tokens <= tokens'
    BY <1>1, <1>5, SMT
  <2>6. QED
    BY <1>1, <1>2, <2>1, <2>3, <2>4, <2>5, KnownKept, InstanceStep, Zenon
<1>6. CASE Install(i, {[id |-> Local, endpoint |-> e, rev |-> tokens + 1] : e \in Initial[i]}, leases[i]) /\ tokens' = tokens + 1
  <2> DEFINE H == {[id |-> Local, endpoint |-> e, rev |-> tokens + 1] : e \in Initial[i]}
  <2>0. ASSUME NEW h \in H PROVE h.rev = tokens + 1 /\ h.id = Local
    <3>1. PICK e \in Initial[i] : h = [id |-> Local, endpoint |-> e, rev |-> tokens + 1]
      BY Zenon
    <3>2. QED
      BY <3>1, SMT
  <2>1. /\ DOMAIN leases' = Instance /\ DOMAIN open' = Instance /\ handlers'[i] = H
        /\ \A j \in Instance \ {i} : leases'[j] = leases[j] /\ handlers'[j] = handlers[j] /\ open'[j] = open[j]
    BY <1>1, <1>6, InstallFrame, Zenon
  <2>2. Install(i, H, leases[i])
    BY <1>6, Zenon
  <2> HIDE DEF H
  <2>3. LeaseInv(i)'
    BY <1>1, <1>2, <1>3, <1>4, <2>2, InstallAt, Zenon
  <2>4. Known' \subseteq Known \cup H
    <3> DEFINE X == Known \cup H
    <3>1. /\ catalog'.profiles \subseteq X /\ \A j \in Instance : handlers'[j] \subseteq X
          /\ \A r \in Request : held'[r] \subseteq X
      BY <1>1, <1>3, <2>1, KnownHas, Zenon
    <3> HIDE DEF X
    <3>2. Known' \subseteq X
      BY <3>1, KnownStep, Zenon
    <3>3. QED
      BY <3>2, Zenon DEF X
  <2>5. tokens' \in Nat /\ tokens <= tokens' /\ tokens + 1 \in 0 .. tokens' /\ tokens + 1 \notin 0 .. tokens
    BY <1>1, <1>6, SMT
  <2>6. ASSUME NEW h \in Known'
        PROVE  h.rev \in 0 .. tokens' /\ h.id # NoDatabase /\ (h \in Known \/ h.rev \notin 0 .. tokens)
    <3>1. CASE h \in Known
      <4>1. h.rev \in 0 .. tokens /\ h.id # NoDatabase
        BY <3>1, Zenon DEF LeasesInv
      <4>2. h.rev \in 0 .. tokens'
        BY <1>1, <2>5, <4>1, SMT
      <4>3. QED
        BY <3>1, <4>1, <4>2, Zenon
    <3>2. CASE h \in H
      <4>1. Local # NoDatabase
        BY SMT DEF Local, NoDatabase
      <4>2. QED
        BY <2>0, <2>5, <3>2, <4>1, Zenon
    <3>3. QED
      BY <2>4, <3>1, <3>2, Zenon
  <2>7. QED
    BY <1>1, <1>2, <2>1, <2>3, <2>5, <2>6, InstanceStep, Zenon
<1>7. QED
  BY <1>5, <1>6, Zenon DEF Boot

LEMMA SaveInitialLeases ==
    ASSUME Counting, DatabasesInv, LeasesInv, NEW i \in Instance, SaveInitial(i)
    PROVE  LeasesInv'
<1>1. /\ up[i] = "loaded" /\ UNCHANGED <<requests, tokens>> /\ Domains /\ tokens \in Nat /\ LeaseInv(i)
      /\ up' = [up EXCEPT ![i] = "serving"] /\ RegistryInv(i) /\ catalog.rev \in Nat
  BY Zenon DEF SaveInitial, DatabasesInv, LeasesInv, CatalogInv
<1>2. up'[i] = "serving" /\ \A j \in Instance \ {i} : up'[j] = up[j]
  BY <1>1, Zenon DEF Domains
<1>3. SameAt(i) /\ UNCHANGED held
  BY <1>1, RequestsRest, Zenon
<1>4. tokens' \in Nat /\ tokens <= tokens'
  BY <1>1, SMT
<1>5. CASE InstallsSnapshot /\ installSnapshotLocked(i) /\ UNCHANGED <<catalog, history>>
  <2>1. LeaseInv(i)'
    BY <1>1, <1>2, <1>3, <1>5, SnapshotStep, Zenon
  <2>2. Install(i, catalog.profiles, leases[i])
    BY <1>5, Zenon DEF installSnapshotLocked
  <2>3. /\ DOMAIN leases' = Instance /\ DOMAIN open' = Instance /\ handlers'[i] = catalog.profiles
        /\ \A j \in Instance \ {i} : leases'[j] = leases[j] /\ handlers'[j] = handlers[j] /\ open'[j] = open[j]
    BY <1>1, <2>2, InstallFrame, Zenon
  <2>4. Known' \subseteq Known
    BY <1>3, <1>5, <2>3, KnownHas, KnownStep, Zenon
  <2>5. QED
    BY <1>1, <1>2, <1>4, <1>5, <2>1, <2>3, <2>4, KnownKept, InstanceStep, Zenon
<1>6. CASE Claims(i) /\ Committed(handlers[i], default[i]) /\ UNCHANGED <<handlers, default, leases, open>>
  <2>1. catalog.rev = 0 /\ catalog'.profiles = handlers[i]
    BY <1>1, <1>6, Zenon DEF Claims, Committed, RegistryInv
  <2>2. ASSUME NEW j \in Instance PROVE up[j] \notin {"serving", "closed"}
    <3>1. /\ up[j] \in {"serving", "closed"} => 1 <= revision[j] /\ revision[j] <= catalog.rev
          /\ revision[j] \in Nat
      BY <1>1, Zenon DEF DatabasesInv, RegistryInv, Domains
    <3>2. QED
      BY <2>1, <3>1, SMT
  <2>3. \A j \in Instance : Leased(j) = {}
    BY <2>2, NobodyRuns, Zenon
  <2>4. Known' \subseteq Known
    BY <1>3, <1>6, <2>1, KnownHas, KnownStep, Zenon
  <2>5. LeaseInv(i)'
    BY <1>1, <1>2, <1>3, <1>6, <2>3, LeaseSame, Zenon
  <2>6. DOMAIN leases' = Instance /\ DOMAIN open' = Instance
    BY <1>6, Zenon DEF LeasesInv
  <2>7. QED
    BY <1>1, <1>2, <1>4, <1>6, <2>3, <2>4, <2>5, <2>6, KnownKept, InstanceStep, Zenon
<1>7. QED
  BY <1>5, <1>6, Zenon DEF SaveInitial

(* A lease that counts nobody is one that nobody has.                      *)
LEMMA LeaseUsed ==
    ASSUME Counting, LeasesInv, NEW i \in Instance, NEW h \in DOMAIN leases[i]
    PROVE  /\ leases[i][h] \in [refs : Nat, retired : BOOLEAN]
           /\ IsFiniteSet(Users(i, h)) /\ leases[i][h].refs = Cardinality(Users(i, h))
           /\ leases[i][h].retired = (h \notin Registered(i))
           /\ leases[i][h].refs = 0 <=> h \notin Leased(i)
<1>1. /\ leases[i][h] \in [refs : Nat, retired : BOOLEAN]
      /\ IsFiniteSet(Users(i, h)) /\ leases[i][h].refs = Cardinality(Users(i, h))
      /\ leases[i][h].retired = (h \notin Registered(i))
  BY Zenon DEF LeasesInv, LeaseInv
<1>2. Cardinality(Users(i, h)) = 0 <=> Users(i, h) = {}
  BY <1>1, NoUsers, Zenon
<1>3. h \in Leased(i) <=> Users(i, h) # {}
  BY LeasedUsers, Zenon
<1>4. QED
  BY <1>1, <1>2, <1>3, Zenon

LEMMA CloseLeases ==
    ASSUME Counting, DatabasesInv, LeasesInv, NEW i \in Instance, Close(i)
    PROVE  LeasesInv'
<1> DEFINE L == leases[i]
           D == DOMAIN L \ Idle(L, DOMAIN L)
<1>1. /\ up' = [up EXCEPT ![i] = "closed"] /\ UNCHANGED <<catalog, handlers, requests, tokens>> /\ Domains /\ tokens \in Nat
      /\ leases' = [leases EXCEPT ![i] = [h \in D |-> [refs |-> L[h].refs, retired |-> TRUE]]]
      /\ open' = [open EXCEPT ![i] = open[i] \ Idle(L, DOMAIN L)]
      /\ DOMAIN leases = Instance /\ DOMAIN open = Instance
  BY Zenon DEF Close, DatabasesInv, LeasesInv
<1>2. /\ up'[i] = "closed" /\ leases'[i] = [h \in D |-> [refs |-> L[h].refs, retired |-> TRUE]]
      /\ open'[i] = open[i] \ Idle(L, DOMAIN L) /\ DOMAIN leases' = Instance /\ DOMAIN open' = Instance
      /\ \A j \in Instance \ {i} : leases'[j] = leases[j] /\ handlers'[j] = handlers[j] /\ open'[j] = open[j] /\ up'[j] = up[j]
  BY <1>1, Zenon DEF Domains
<1>3. SameAt(i) /\ UNCHANGED held
  BY <1>1, RequestsRest, Zenon
<1>4. /\ Leased(i)' = Leased(i) /\ Candidates(i)' = Candidates(i) /\ \A h : Users(i, h)' = Users(i, h)
  BY <1>3, SameCandidates, SameUsers, Zenon
<1>5. /\ DOMAIN L = Registered(i) \cup Leased(i) /\ open[i] = DOMAIN L \cup Candidates(i)
      /\ Registered(i) \subseteq Known /\ Candidates(i) \cap Known = {}
  BY LeasesDomain, CandidatesFresh, Zenon
<1>6. \A h : h \in Idle(L, DOMAIN L) <=> h \in DOMAIN L /\ h \notin Leased(i)
  BY LeaseUsed, Zenon DEF Idle
<1>7. D = Leased(i) /\ Leased(i) \subseteq DOMAIN L
  BY <1>5, <1>6, Zenon
<1>8. Registered(i)' = {}
  BY <1>2, Zenon DEF Registered
<1>9. open'[i] = D \cup Candidates(i)'
  BY <1>2, <1>4, <1>5, <1>6, <1>7, ZenonT(60)
<1>10. ASSUME NEW h \in D
       PROVE  /\ leases'[i][h] \in [refs : Nat, retired : BOOLEAN]
              /\ IsFiniteSet(Users(i, h)') /\ leases'[i][h].refs = Cardinality(Users(i, h)')
              /\ leases'[i][h].retired = (h \notin Registered(i)')
  <2> DEFINE b == TRUE
  <2>1. leases'[i][h] = [refs |-> L[h].refs, retired |-> b] /\ b \in BOOLEAN /\ b = (h \notin Registered(i)')
    BY <1>2, <1>8, Zenon
  <2>2. L[h].refs \in Nat /\ IsFiniteSet(Users(i, h)) /\ L[h].refs = Cardinality(Users(i, h))
    BY <1>7, LeaseUsed, Zenon
  <2> HIDE DEF b
  <2>3. leases'[i][h] \in [refs : Nat, retired : BOOLEAN] /\ leases'[i][h].refs = L[h].refs /\ leases'[i][h].retired = b
    BY <2>1, <2>2, SMT
  <2>4. Users(i, h)' = Users(i, h)
    BY <1>4, Zenon
  <2>5. QED
    BY <2>1, <2>2, <2>3, <2>4, Zenon
<1>11. DOMAIN leases'[i] = D
  BY <1>2, Zenon
<1>12. DOMAIN leases'[i] = Registered(i)' \cup Leased(i)'
  BY <1>4, <1>7, <1>8, <1>11, Zenon
<1> HIDE DEF D
<1>13. LeaseInv(i)'
  BY <1>2, <1>9, <1>10, <1>11, <1>12, Zenon DEF LeaseInv
<1>14. tokens' \in Nat /\ tokens <= tokens'
  BY <1>1, SMT
<1>15. Known' \subseteq Known
  BY <1>1, <1>3, KnownHas, KnownStep, Zenon
<1>16. QED
  BY <1>1, <1>2, <1>13, <1>14, <1>15, KnownKept, InstanceStep, Zenon

LEMMA CrashLeases ==
    ASSUME DatabasesInv, LeasesInv, NEW i \in Instance, Crash(i)
    PROVE  LeasesInv'
<1>1. /\ up' = [up EXCEPT ![i] = "down"] /\ handlers' = [handlers EXCEPT ![i] = {}]
      /\ leases' = [leases EXCEPT ![i] = <<>>] /\ open' = [open EXCEPT ![i] = {}]
      /\ pc' = [r \in Request |-> IF at[r] = i /\ pc[r] # "new" THEN "done" ELSE pc[r]]
      /\ held' = [r \in Request |-> IF at[r] = i THEN {} ELSE held[r]]
      /\ UNCHANGED <<catalog, ask, at, new, tokens>> /\ Domains /\ tokens \in Nat
      /\ DOMAIN leases = Instance /\ DOMAIN open = Instance
  BY Zenon DEF Crash, DatabasesInv, LeasesInv
<1>2. /\ up'[i] = "down" /\ handlers'[i] = {} /\ leases'[i] = <<>> /\ open'[i] = {}
      /\ DOMAIN leases' = Instance /\ DOMAIN open' = Instance
      /\ \A j \in Instance \ {i} : leases'[j] = leases[j] /\ handlers'[j] = handlers[j] /\ open'[j] = open[j] /\ up'[j] = up[j]
  BY <1>1, Zenon DEF Domains
<1>3. \A r \in Request : /\ pc'[r] = (IF at[r] = i /\ pc[r] # "new" THEN "done" ELSE pc[r])
                         /\ held'[r] = IF at[r] = i THEN {} ELSE held[r]
  BY <1>1, Zenon
<1>4. Known' \subseteq Known
  <2>1. \A j \in Instance : handlers'[j] \subseteq Known
    BY <1>2, KnownHas, Zenon
  <2>2. \A r \in Request : held'[r] \subseteq Known
    BY <1>3, KnownHas, Zenon
  <2>3. QED
    BY <1>1, <2>1, <2>2, KnownHas, KnownStep, Zenon
<1>5. tokens' \in Nat /\ tokens <= tokens'
  BY <1>1, SMT
<1>6. \A r \in Request : Saving(r)' => Saving(r) /\ new'[r] = new[r] /\ at[r] # i
  BY <1>1, <1>3, Zenon DEF Saving
<1>7. ASSUME NEW q \in Request PROVE NewInv(q)'
  <2>1. NewInv(q)
    BY Zenon DEF LeasesInv
  <2>2. /\ pc'[q] \in {"new", "done"} => held'[q] = {}
        /\ pc'[q] \in {"new", "refresh", "route", "check"} => new'[q] = NoProfile
        /\ pc'[q] = "save" /\ ask'[q].op \notin {"add", "edit"} => new'[q] = NoProfile /\ held'[q] = {}
    BY <1>1, <1>3, <2>1, Zenon DEF NewInv
  <2>3. QED
    BY <1>4, <1>5, <1>6, <2>2, NewKept, Zenon
<1>8. LeaseInv(i)'
  <2>1. \A r \in Request : Holds(r, i)' = {} /\ Offers(r, i)' = {}
    BY <1>1, <1>3, <1>6, Zenon DEF Holds, Offers
  <2>2. Leased(i)' = {} /\ Candidates(i)' = {}
    BY <2>1, Zenon DEF Leased, Candidates
  <2>3. Registered(i)' = {}
    BY <1>2, Zenon DEF Registered
  <2>4. DOMAIN leases'[i] = {}
    BY <1>2, SMT
  <2>5. QED
    BY <1>2, <2>2, <2>3, <2>4, Zenon DEF LeaseInv
<1>9. ASSUME NEW j \in Instance, j # i PROVE LeaseInv(j)'
  <2>1. ASSUME NEW r \in Request PROVE Holds(r, j)' = Holds(r, j) /\ Offers(r, j)' = Offers(r, j)
    <3>1. CASE at[r] = j
      <4>1. pc'[r] = pc[r] /\ held'[r] = held[r]
        BY <1>3, <1>9, <3>1, Zenon
      <4>2. QED
        BY <1>1, <4>1, Zenon DEF Holds, Offers, Saving
    <3>2. CASE at[r] # j
      BY <1>1, <3>2, Zenon DEF Holds, Offers
    <3>3. QED
      BY <3>1, <3>2, Zenon
  <2>2. SameAt(j) /\ LeaseInv(j)
    BY <2>1, Zenon DEF SameAt, LeasesInv
  <2>3. QED
    BY <1>1, <1>2, <1>9, <2>2, LeaseSame, Zenon
<1>10. \A h \in Known' : h.rev \in 0 .. tokens' /\ h.id # NoDatabase
  BY <1>4, <1>5, KnownKept, Zenon
<1>11. QED
  BY <1>2, <1>5, <1>7, <1>8, <1>9, <1>10, Zenon DEF LeasesInv

-----------------------------------------------------------------------------
(* The steps of a request.                                                 *)

(* The catalog keeps its profiles, but for the one that r saves.           *)
CatalogOf(r) ==
    \/ catalog'.profiles \subseteq catalog.profiles
    \/ Saving(r) /\ catalog'.profiles \subseteq catalog.profiles \cup {new[r]}

LEMMA RequestStep ==
    ASSUME DatabasesInv, LeasesInv, NEW r \in Request, \A q \in Request \ {r} : Same(q),
           NEW i \in Instance, at[r] = i, at'[r] = i, tokens' = tokens, ~Saving(r)', NewInv(r)', CatalogOf(r),
           DOMAIN leases' = Instance, DOMAIN open' = Instance,
           held'[r] \subseteq Known, handlers'[i] \subseteq Known \cup catalog'.profiles,
           LeaseInv(i)',
           \A j \in Instance \ {i} :
              leases'[j] = leases[j] /\ handlers'[j] = handlers[j] /\ open'[j] = open[j] /\ up'[j] = up[j]
    PROVE  LeasesInv'
<1>1. Known' \subseteq Known \/ (Saving(r) /\ Known' \subseteq Known \cup {new[r]})
  <2>0. \A q \in Request : held'[q] \subseteq Known
    BY KnownHas, Zenon DEF Same
  <2>1. CASE catalog'.profiles \subseteq catalog.profiles
    <3>1. \A j \in Instance : handlers'[j] \subseteq Known
      BY <2>1, KnownHas, Zenon
    <3>2. QED
      BY <2>0, <2>1, <3>1, KnownHas, KnownStep, Zenon
  <2>2. CASE Saving(r) /\ catalog'.profiles \subseteq catalog.profiles \cup {new[r]}
    <3> DEFINE X == Known \cup {new[r]}
    <3>1. \A j \in Instance : handlers'[j] \subseteq X
      BY <2>2, KnownHas, Zenon
    <3>2. catalog'.profiles \subseteq X /\ \A q \in Request : held'[q] \subseteq X
      BY <2>0, <2>2, KnownHas, Zenon
    <3> HIDE DEF X
    <3>3. Known' \subseteq X
      BY <3>1, <3>2, KnownStep, Zenon
    <3>4. QED
      BY <2>2, <3>3, Zenon DEF X
  <2>3. QED
    BY <2>1, <2>2, Zenon DEF CatalogOf
<1>2. /\ tokens' \in Nat /\ (\A h \in Known' : h.rev \in 0 .. tokens' /\ h.id # NoDatabase)
      /\ \A q \in Request : NewInv(q)'
  BY <1>1, NewFrame, Zenon
<1>3. ASSUME NEW j \in Instance, j # i PROVE LeaseInv(j)'
  BY <1>3, Elsewhere, Zenon DEF CatalogOf
<1>4. QED
  BY <1>2, <1>3, Zenon DEF LeasesInv

(* A step that changes neither leases nor clients.                         *)
LEMMA QuietLeases ==
    ASSUME DatabasesInv, LeasesInv, NEW r \in Request, \A q \in Request \ {r} : Same(q),
           at'[r] = at[r], held'[r] = held[r], ~Saving(r), ~Saving(r)', NewInv(r)',
           UNCHANGED <<catalog, up, handlers, leases, open, tokens>>
    PROVE  LeasesInv'
<1>1. ASSUME NEW i \in Instance PROVE LeaseInv(i)'
  <2>1. Holds(r, i)' = Holds(r, i) /\ Offers(r, i)' = Offers(r, i)
    BY Zenon DEF Holds, Offers
  <2>2. SameAt(i) /\ LeaseInv(i)
    BY <2>1, SameElsewhere, Zenon DEF LeasesInv
  <2>3. QED
    BY <2>2, LeaseSame, Zenon
<1>2. Known' \subseteq Known
  <2>1. \A q \in Request : held'[q] \subseteq Known
    BY KnownHas, Zenon DEF Same
  <2>2. QED
    BY <2>1, KnownHas, KnownStep, Zenon
<1>3. /\ tokens' \in Nat /\ (\A h \in Known' : h.rev \in 0 .. tokens' /\ h.id # NoDatabase)
      /\ \A q \in Request : NewInv(q)'
  BY <1>2, NewFrame, Zenon
<1>4. QED
  BY <1>1, <1>3, Zenon DEF LeasesInv

LEMMA ArriveLeases ==
    ASSUME DatabasesInv, LeasesInv, NEW r \in Request, Arrive(r)
    PROVE  LeasesInv'
<1>1. /\ pc[r] = "new" /\ pc' = [pc EXCEPT ![r] = "refresh"] /\ UNCHANGED <<catalog, up, handlers, leases, open, held, new, tokens>>
      /\ UNCHANGED <<committed, answer>> /\ since' = [since EXCEPT ![r] = catalog.rev]
      /\ Domains /\ NewInv(r) /\ (\E i \in Instance : at' = [at EXCEPT ![r] = i]) /\ (\E a : ask' = [ask EXCEPT ![r] = a])
  BY Zenon DEF Arrive, registry, DatabasesInv, LeasesInv
<1>2. held[r] = {} /\ new[r] = NoProfile /\ pc'[r] = "refresh"
  BY <1>1, Zenon DEF NewInv, Domains
<1>3. \A q \in Request \ {r} : Same(q)
  BY <1>1, Zenon DEF Same, Domains
<1>4. ~Saving(r) /\ ~Saving(r)' /\ NewInv(r)'
  BY <1>1, <1>2, Zenon DEF Saving, NewInv
<1>5. ASSUME NEW i \in Instance PROVE LeaseInv(i)'
  <2>1. Holds(r, i)' = Holds(r, i) /\ Offers(r, i)' = Offers(r, i)
    BY <1>1, <1>2, <1>4, Zenon DEF Holds, Offers
  <2>2. SameAt(i) /\ LeaseInv(i)
    BY <1>3, <2>1, SameElsewhere, Zenon DEF LeasesInv
  <2>3. QED
    BY <1>1, <2>2, LeaseSame, Zenon
<1>6. Known' \subseteq Known
  BY <1>1, KnownHas, KnownStep, Zenon
<1>7. /\ tokens' \in Nat /\ (\A h \in Known' : h.rev \in 0 .. tokens' /\ h.id # NoDatabase)
      /\ \A q \in Request : NewInv(q)'
  BY <1>1, <1>3, <1>4, <1>6, NewFrame, Zenon
<1>8. QED
  BY <1>1, <1>5, <1>7, Zenon DEF LeasesInv

LEMMA ViewNothingLeases ==
    ASSUME DatabasesInv, LeasesInv, NEW r \in Request, ViewNothing(r)
    PROVE  LeasesInv'
<1>1. /\ pc[r] = "use" /\ held[r] = {} /\ Answered(r, "ok") /\ Domains
      /\ UNCHANGED <<catalog, up, handlers, leases, open, ask, committed, at, since, held, new, tokens>>
  BY Zenon DEF ViewNothing, registry, DatabasesInv
<1>2. (\A q \in Request \ {r} : Same(q)) /\ pc'[r] = "done"
  BY <1>1, Zenon DEF Answered, Same, Domains
<1>3. ~Saving(r) /\ ~Saving(r)' /\ NewInv(r)'
  BY <1>1, <1>2, Zenon DEF Saving, NewInv
<1>4. QED
  BY <1>1, <1>2, <1>3, QuietLeases, Zenon

LEMMA AnsweredForm ==
    ASSUME Domains, NEW r \in Request, NEW a, Answered(r, a), held' = held,
           UNCHANGED <<ask, committed, at, since, new>> \/ (UNCHANGED <<ask, at, since, new>> /\ \A q \in Request \ {r} : committed'[q] = committed[q])
    PROVE  (\A q \in Request \ {r} : Same(q)) /\ ~Saving(r)' /\ NewInv(r)'
<1>1. /\ pc'[r] = (IF held[r] = {} THEN "done" ELSE "release")
      /\ \A q \in Request \ {r} : pc'[q] = pc[q] /\ answer'[q] = answer[q]
  BY Zenon DEF Answered, Domains
<1>2. ~Saving(r)' /\ NewInv(r)'
  BY <1>1, Zenon DEF Saving, NewInv
<1>3. \A q \in Request \ {r} : Same(q)
  BY <1>1, Zenon DEF Same
<1>4. QED
  BY <1>2, <1>3, Zenon

LEMMA RefreshLeases ==
    ASSUME Counting, DatabasesInv, LeasesInv, NEW r \in Request, refresh(r)
    PROVE  LeasesInv'
<1>0. PICK i \in Instance : i = at[r]
  BY Zenon DEF DatabasesInv, Domains
<1>1. /\ pc[r] = "refresh" /\ Domains /\ at'[r] = i /\ NewInv(r) /\ ProgressInv(r)
      /\ UNCHANGED <<catalog, history, up, ask, committed, at, since, held, new, ids, tokens>>
  BY <1>0, Zenon DEF refresh, DatabasesInv, Domains, LeasesInv
<1>2. held[r] = {} /\ new[r] = NoProfile /\ ~Saving(r)
  BY <1>0, <1>1, Zenon DEF ProgressInv, NewInv, Saving
<1>3. CASE UNCHANGED registry /\ \E a : Answered(r, a)
  <2>1. PICK a : Answered(r, a)
    BY <1>3
  <2>2. (\A q \in Request \ {r} : Same(q)) /\ ~Saving(r)' /\ NewInv(r)'
    BY <1>0, <1>1, <2>1, AnsweredForm, Zenon
  <2>3. UNCHANGED <<handlers, leases, open>>
    BY <1>3, Zenon DEF registry
  <2>4. QED
    BY <1>0, <1>1, <1>2, <2>2, <2>3, QuietLeases, Zenon
<1>4. CASE /\ pc' = [pc EXCEPT ![r] = Entry(ask[r].op)] /\ UNCHANGED answer
           /\ UNCHANGED registry \/ (installSnapshotLocked(i) /\ up[i] = "serving")
  <2>1. (\A q \in Request \ {r} : Same(q)) /\ pc'[r] = Entry(ask[r].op)
    BY <1>0, <1>1, <1>4, Zenon DEF Same, Domains
  <2>2. ~Saving(r)' /\ NewInv(r)'
    <3>1. pc'[r] \in {"check", "save", "route"} /\ (pc'[r] = "save" => ask[r].op \in {"remove", "default"})
      BY <2>1, Zenon DEF Entry
    <3>2. QED
      BY <1>0, <1>1, <1>2, <3>1, Zenon DEF Saving, NewInv
  <2>3. CASE UNCHANGED registry
    <3>1. UNCHANGED <<handlers, leases, open>>
      BY <2>3, Zenon DEF registry
    <3>2. QED
      BY <1>0, <1>1, <1>2, <2>1, <2>2, <3>1, QuietLeases, Zenon
  <2>4. CASE installSnapshotLocked(i) /\ up[i] = "serving"
    <3>1. Install(i, catalog.profiles, leases[i])
      BY <2>4, Zenon DEF installSnapshotLocked
    <3>2. /\ DOMAIN leases' = Instance /\ DOMAIN open' = Instance /\ handlers'[i] = catalog.profiles
          /\ \A j \in Instance \ {i} : leases'[j] = leases[j] /\ handlers'[j] = handlers[j] /\ open'[j] = open[j]
      BY <1>0, <1>1, <3>1, InstallFrame, Zenon
    <3>3. Holds(r, i)' = Holds(r, i) /\ Offers(r, i)' = Offers(r, i)
      BY <1>0, <1>1, <1>2, <2>2, Zenon DEF Holds, Offers
    <3>4. SameAt(i)
      BY <2>1, <3>3, SameElsewhere, Zenon
    <3>5. LeaseInv(i)'
      BY <1>0, <1>1, <2>4, <3>4, SnapshotStep, Zenon
    <3>6. CatalogOf(r) /\ held'[r] \subseteq Known /\ handlers'[i] \subseteq Known \cup catalog'.profiles
      BY <1>0, <1>1, <1>2, <3>2, Zenon DEF CatalogOf
    <3>7. QED
      BY <1>0, <1>1, <2>1, <2>2, <3>2, <3>5, <3>6, RequestStep, Zenon
  <2>5. QED
    BY <1>4, <2>3, <2>4, Zenon
<1>5. QED
  BY <1>0, <1>3, <1>4, Zenon DEF refresh

(* A candidate is offered, or one is discarded.                            *)
LEMMA OfferStep ==
    ASSUME DatabasesInv, LeasesInv, NEW r \in Request, \A q \in Request \ {r} : Same(q),
           NEW i \in Instance, at[r] = i, at'[r] = i, held'[r] = held[r], CatalogOf(r), UNCHANGED <<up, handlers, leases>>,
           open'[i] = DOMAIN leases[i] \cup Candidates(i)'
    PROVE  LeaseInv(i)'
<1>1. i \in Instance /\ LeaseInv(i)
  BY Zenon DEF DatabasesInv, Domains, LeasesInv
<1>2. SameHolders(i)
  BY Zenon DEF SameHolders, Holds, Same
<1>3. Saving(r) => new[r] \notin Leased(i)
  BY LeasedKnown, Zenon DEF LeasesInv, NewInv
<1>4. \A h \in Leased(i) : h \in catalog'.profiles => h \in catalog.profiles
  BY <1>3, Zenon DEF CatalogOf
<1>5. QED
  BY <1>1, <1>2, <1>4, LeaseFrame, Zenon

LEMMA OthersOffer ==
    ASSUME NEW r \in Request, \A q \in Request \ {r} : Same(q), NEW i
    PROVE  \A h : /\ h \in Candidates(i) <=> h \in Offers(r, i) \/ \E q \in Request \ {r} : h \in Offers(q, i)
                  /\ h \in Candidates(i)' <=> h \in Offers(r, i)' \/ \E q \in Request \ {r} : h \in Offers(q, i)
<1>1. \A q \in Request \ {r} : Offers(q, i)' = Offers(q, i)
  BY Zenon DEF Same, Offers, Saving
<1>2. \A h : h \in Candidates(i) <=> h \in Offers(r, i) \/ \E q \in Request \ {r} : h \in Offers(q, i)
  BY Zenon DEF Candidates
<1>3. \A h : h \in Candidates(i)' <=> \E q \in Request : h \in Offers(q, i)'
  BY Zenon DEF Candidates
<1>4. QED
  BY <1>1, <1>2, <1>3, ZenonT(60)

(* The client of a candidate that is not saved is closed, and no other.    *)
LEMMA DiscardLeases ==
    ASSUME DatabasesInv, LeasesInv, NEW r \in Request, Refuse(r) \/ SaveFails(r)
    PROVE  LeasesInv'
<1>0. PICK i \in Instance : i = at[r]
  BY Zenon DEF DatabasesInv, Domains
<1>1. /\ pc[r] = "save" /\ Domains /\ at'[r] = i /\ NewInv(r) /\ ProgressInv(r) /\ Discard(r)
      /\ UNCHANGED <<up, handlers, leases, ask, at, since, held, new, tokens>> /\ DOMAIN leases = Instance /\ DOMAIN open = Instance
      /\ \E a : Answered(r, a)
  BY <1>0, Zenon DEF Refuse, SaveFails, DatabasesInv, Domains, LeasesInv
<1>2. \A q \in Request \ {r} : committed'[q] = committed[q]
  BY <1>0, <1>1, Zenon DEF Refuse, SaveFails, Domains
<1>3. (\A q \in Request \ {r} : Same(q)) /\ ~Saving(r)' /\ NewInv(r)'
  BY <1>0, <1>1, <1>2, AnsweredForm, Zenon
<1>4. CatalogOf(r)
  <2>1. CASE UNCHANGED catalog
    BY <2>1, Zenon DEF CatalogOf
  <2>2. CASE Refusal(r) = "none" /\ Committed(NextProfiles(r), NextDefault(r))
    <3>1. catalog'.profiles = NextProfiles(r)
      BY <2>2, Zenon DEF Committed
    <3>2. Adds(r) \/ \E old \in catalog.profiles : Edits(r, old) \/ Removes(r, old) \/ Defaults(r, old)
      BY <1>0, <1>1, <2>2, Accepted, Zenon
    <3>3. QED
      BY <1>0, <1>1, <3>1, <3>2, Zenon DEF CatalogOf, Adds, Edits, Removes, Defaults, Saving
  <2>3. QED
    BY <2>1, <2>2, Zenon DEF Refuse, SaveFails
<1>5. open'[i] = open[i] \ {new[r]} /\ DOMAIN open' = Instance /\ \A j \in Instance \ {i} : open'[j] = open[j]
  BY <1>0, <1>1, Zenon DEF Discard
<1>6. open'[i] = DOMAIN leases[i] \cup Candidates(i)'
  <2>1. /\ open[i] = DOMAIN leases[i] \cup Candidates(i) /\ DOMAIN leases[i] \subseteq Known
    BY <1>0, <1>1, LeasesDomain, Zenon
  <2>2. new[r] \notin Known /\ \A q \in Request \ {r} : new[r] \notin Offers(q, i)
    <3>1. CASE Saving(r)
      BY <1>0, <1>1, <3>1, Zenon DEF NewInv, Offers
    <3>2. CASE ~Saving(r)
      <4>1. new[r].id = NoDatabase
        BY <1>0, <1>1, <3>2, SMT DEF NewInv, Saving, NoProfile
      <4>2. \A h \in Known : h.id # NoDatabase
        BY Zenon DEF LeasesInv
      <4>3. \A q \in Request : Saving(q) => new[q].id # NoDatabase
        BY Zenon DEF LeasesInv, NewInv
      <4>4. QED
        BY <4>1, <4>2, <4>3, Zenon DEF Offers
    <3>3. QED
      BY <3>1, <3>2, Zenon
  <2>3. Offers(r, i)' = {} /\ Offers(r, i) \subseteq {new[r]}
    BY <1>0, <1>3, Zenon DEF Offers
  <2>4. \A h : /\ h \in Candidates(i) <=> h \in Offers(r, i) \/ \E q \in Request \ {r} : h \in Offers(q, i)
               /\ h \in Candidates(i)' <=> h \in Offers(r, i)' \/ \E q \in Request \ {r} : h \in Offers(q, i)
    BY <1>3, OthersOffer, Zenon
  <2>5. \A h : h \in Candidates(i)' <=> h \in Candidates(i) /\ h # new[r]
    BY <2>2, <2>3, <2>4, Zenon
  <2>6. QED
    BY <1>5, <2>1, <2>2, <2>5, Zenon
<1>7. LeaseInv(i)'
  BY <1>0, <1>1, <1>3, <1>4, <1>6, OfferStep, Zenon
<1>8. held'[r] \subseteq Known /\ handlers'[i] \subseteq Known \cup catalog'.profiles
  BY <1>0, <1>1, KnownHas, Zenon
<1>9. QED
  BY <1>0, <1>1, <1>3, <1>4, <1>5, <1>7, <1>8, RequestStep, Zenon

LEMMA CheckLeases ==
    ASSUME DatabasesInv, LeasesInv, NEW r \in Request, Check(r)
    PROVE  LeasesInv'
<1>0. PICK i \in Instance : i = at[r]
  BY Zenon DEF DatabasesInv, Domains
<1>1. /\ pc[r] = "check" /\ Domains /\ NewInv(r) /\ ProgressInv(r) /\ CandidateInv(r) /\ at'[r] = i /\ ~Saving(r)
      /\ UNCHANGED <<catalog, history, up, handlers, leases, ask, committed, at, since, held>>
      /\ DOMAIN leases = Instance /\ DOMAIN open = Instance /\ tokens \in Nat
  BY <1>0, Zenon DEF Check, DatabasesInv, LeasesInv, Saving
<1>2. CASE (\E a : Answered(r, a)) /\ UNCHANGED <<open, new, tokens>>
  <2>1. (\A q \in Request \ {r} : Same(q)) /\ ~Saving(r)' /\ NewInv(r)'
    BY <1>1, <1>2, AnsweredForm, Zenon
  <2>2. QED
    BY <1>0, <1>1, <1>2, <2>1, QuietLeases, Zenon
<1>3. CASE \E n \in IF ask[r].op = "edit" THEN {ask[r].id} ELSE Id \ ids :
             /\ new' = [new EXCEPT ![r] = [id |-> n, endpoint |-> ask[r].endpoint, rev |-> tokens + 1]]
             /\ tokens' = tokens + 1
             /\ open' = [open EXCEPT ![i] = @ \cup {new'[r]}]
             /\ pc' = [pc EXCEPT ![r] = "save"]
             /\ UNCHANGED answer
  <2>1. PICK n \in IF ask[r].op = "edit" THEN {ask[r].id} ELSE Id \ ids :
             /\ new' = [new EXCEPT ![r] = [id |-> n, endpoint |-> ask[r].endpoint, rev |-> tokens + 1]]
             /\ tokens' = tokens + 1
             /\ open' = [open EXCEPT ![i] = @ \cup {new'[r]}]
             /\ pc' = [pc EXCEPT ![r] = "save"]
             /\ UNCHANGED answer
    BY <1>3, Zenon
  <2>2. /\ new'[r] = [id |-> n, endpoint |-> ask[r].endpoint, rev |-> tokens + 1] /\ pc'[r] = "save"
        /\ open'[i] = open[i] \cup {new'[r]} /\ DOMAIN open' = Instance /\ (\A j \in Instance \ {i} : open'[j] = open[j])
        /\ \A q \in Request \ {r} : Same(q)
    BY <1>1, <2>1, Zenon DEF Domains, Same
  <2>3. PICK c : c = new'[r]
    BY Zenon
  <2>4. c.id = n /\ c.rev = tokens + 1
    BY <2>2, <2>3, SMT
  <2>5. n # NoDatabase
    <3>1. CASE ask[r].op = "edit"
      <4>1. PICK old \in held[r] : old.id = ask[r].id
        BY <1>1, <3>1, Zenon DEF CandidateInv
      <4>2. old.id # NoDatabase
        BY KnownHas, Zenon DEF LeasesInv
      <4>3. QED
        BY <2>1, <3>1, <4>1, <4>2, Zenon
    <3>2. CASE ask[r].op # "edit"
      <4>1. n \in Id
        BY <2>1, <3>2, Zenon
      <4>2. QED
        BY <4>1, DatabasesAssumption, SMT DEF Id, NoDatabase
    <3>3. QED
      BY <3>1, <3>2, Zenon
  <2>6. Known' = Known
    BY <1>1, ZenonT(60) DEF Known
  <2>7. tokens' \in Nat /\ tokens <= tokens' /\ c.rev \in 0 .. tokens' /\ c.rev \notin 0 .. tokens
    BY <1>1, <2>1, <2>4, SMT
  <2>8. \A q \in Request \ {r} : (Saving(q)' <=> Saving(q)) /\ new'[q] = new[q] /\ (Saving(q) => new[q] # c)
    BY <2>2, <2>7, Zenon DEF Same, Saving, LeasesInv, NewInv
  <2>9. c \notin Known
    BY <2>7, Zenon DEF LeasesInv
  <2>10. Saving(r)'
    BY <1>1, <2>2, Zenon DEF Saving, ProgressInv
  <2>11. NewInv(r)'
    BY <1>1, <2>2, <2>3, <2>4, <2>5, <2>6, <2>7, <2>8, <2>9, <2>10, ZenonT(60) DEF NewInv, Saving
  <2>12. ASSUME NEW q \in Request, q # r PROVE NewInv(q)'
    <3>1. NewInv(q) /\ Same(q)
      BY <2>2, <2>12, Zenon DEF LeasesInv
    <3>2. ASSUME Saving(q)'
          PROVE  /\ new'[q].rev \in 0 .. tokens' /\ new'[q].id # NoDatabase /\ new'[q] \notin Known'
                 /\ \A p \in Request \ {q} : Saving(p)' => new'[p] # new'[q]
      <4>1. /\ Saving(q) /\ new'[q] = new[q] /\ new[q].rev \in 0 .. tokens /\ new[q].id # NoDatabase /\ new[q] \notin Known
            /\ \A p \in Request \ {q} : Saving(p) => new[p] # new[q]
        BY <2>8, <2>12, <3>1, <3>2, ZenonT(60) DEF NewInv
      <4>2. new[q].rev \in 0 .. tokens'
        BY <1>1, <2>7, <4>1, SMT
      <4>3. ASSUME NEW p \in Request \ {q}, Saving(p)' PROVE new'[p] # new[q]
        <5>1. CASE p = r
          BY <2>3, <2>8, <2>12, <4>1, <5>1, Zenon
        <5>2. CASE p # r
          BY <2>8, <4>1, <4>3, <5>2, Zenon
        <5>3. QED
          BY <5>1, <5>2, Zenon
      <4>4. QED
        BY <2>6, <4>1, <4>2, <4>3, Zenon
    <3>3. QED
      BY <3>1, <3>2, Zenon DEF NewInv, Same
  <2>13. CatalogOf(r)
    BY <1>1, Zenon DEF CatalogOf
  <2>14. LeaseInv(i)'
    <3>1. Offers(r, i) = {} /\ Offers(r, i)' = {c}
      BY <1>0, <1>1, <2>3, <2>10, Zenon DEF Offers
    <3>2. \A h : h \in Candidates(i)' <=> h \in Candidates(i) \/ h = c
      BY <2>2, <3>1, OthersOffer, Zenon
    <3>3. open[i] = DOMAIN leases[i] \cup Candidates(i)
      BY LeasesDomain, Zenon
    <3>4. open'[i] = DOMAIN leases[i] \cup Candidates(i)'
      BY <2>2, <2>3, <3>2, <3>3, Zenon
    <3>5. QED
      BY <1>0, <1>1, <2>2, <2>13, <3>4, OfferStep, Zenon
  <2>15. ASSUME NEW j \in Instance, j # i PROVE LeaseInv(j)'
    BY <1>0, <1>1, <2>2, <2>13, <2>15, Elsewhere, ZenonT(60) DEF CatalogOf
  <2>16. ASSUME NEW h \in Known PROVE h.rev \in 0 .. tokens' /\ h.id # NoDatabase
    <3>1. h.rev \in 0 .. tokens /\ h.id # NoDatabase
      BY Zenon DEF LeasesInv
    <3>2. QED
      BY <1>1, <2>7, <3>1, SMT
  <2>17. QED
    BY <1>1, <2>2, <2>6, <2>7, <2>11, <2>12, <2>14, <2>15, <2>16, Zenon DEF LeasesInv
<1>4. QED
  BY <1>0, <1>2, <1>3, Zenon DEF Check

(* The leases after r has taken those of the registered handlers T.        *)
LeasesTaken(i, T, L) ==
    /\ DOMAIN L = DOMAIN leases[i] /\ DOMAIN L = Registered(i) \cup Leased(i)'
    /\ Leased(i)' = Leased(i) \cup T
    /\ \A h \in DOMAIN L :
         /\ L[h] \in [refs : Nat, retired : BOOLEAN]
         /\ IsFiniteSet(Users(i, h)') /\ L[h].refs = Cardinality(Users(i, h)')
         /\ L[h].retired = (h \notin Registered(i))

LEMMA ReferencedStep ==
    ASSUME Counting, DatabasesInv, LeasesInv, NEW r \in Request, \A q \in Request \ {r} : Same(q),
           NEW i \in Instance, at[r] = i, at'[r] = i,
           NEW T, T \subseteq Registered(i), held[r] \cap T = {}, held'[r] = held[r] \cup T,
           NEW L, L = Referenced(leases[i], T)
    PROVE  LeasesTaken(i, T, L)
<1>1. /\ DOMAIN L = DOMAIN leases[i]
      /\ \A h \in DOMAIN L : L[h] = IF h \in T THEN [leases[i][h] EXCEPT !.refs = @ + 1] ELSE leases[i][h]
  BY Zenon DEF Referenced
<1>2. /\ Holds(r, i) = held[r] /\ Holds(r, i)' = held[r] \cup T
      /\ \A q \in Request \ {r} : Holds(q, i)' = Holds(q, i)
  BY Zenon DEF Holds, Same
<1>3. \A h : h \in Leased(i) <=> \E q \in Request : h \in Holds(q, i)
  BY Zenon DEF Leased
<1>4. \A h : h \in Leased(i)' <=> \E q \in Request : h \in Holds(q, i)'
  BY Zenon DEF Leased
<1>5. Leased(i)' = Leased(i) \cup T
  <2>1. ASSUME NEW h \in Leased(i)' PROVE h \in Leased(i) \/ h \in T
    <3>1. PICK q \in Request : h \in Holds(q, i)'
      BY <1>4, Zenon
    <3>2. h \in Holds(q, i) \/ h \in T
      BY <1>2, <3>1, Zenon
    <3>3. QED
      BY <1>3, <3>2, Zenon
  <2>2. ASSUME NEW h \in Leased(i) PROVE h \in Leased(i)'
    <3>1. PICK q \in Request : h \in Holds(q, i)
      BY <1>3, Zenon
    <3>2. h \in Holds(q, i)'
      BY <1>2, <3>1, Zenon
    <3>3. QED
      BY <1>4, <3>2, Zenon
  <2>3. ASSUME NEW h \in T PROVE h \in Leased(i)'
    BY <1>2, <1>4, Zenon
  <2>4. QED
    BY <2>1, <2>2, <2>3, Zenon
<1>6. DOMAIN L = Registered(i) \cup Leased(i)'
  BY <1>1, <1>5, LeasesDomain, Zenon
<1>7. ASSUME NEW h \in DOMAIN L
      PROVE  /\ L[h] \in [refs : Nat, retired : BOOLEAN]
             /\ IsFiniteSet(Users(i, h)') /\ L[h].refs = Cardinality(Users(i, h)')
             /\ L[h].retired = (h \notin Registered(i))
  <2> DEFINE x == leases[i][h]
             U == Users(i, h)
             V == Users(i, h)'
  <2>1. /\ x \in [refs : Nat, retired : BOOLEAN] /\ IsFiniteSet(U) /\ x.refs = Cardinality(U)
        /\ x.retired = (h \notin Registered(i))
    BY <1>1, LeaseUsed, Zenon
  <2>2. \A q : /\ q \in U <=> q \in Request /\ h \in Holds(q, i)
               /\ q \in V <=> q \in Request /\ h \in Holds(q, i)'
    BY Zenon DEF Users
  <2>3. CASE h \in T
    <3>1. L[h] = [x EXCEPT !.refs = @ + 1]
      BY <1>1, <2>3, Zenon
    <3>2. r \notin U /\ V = U \cup {r}
      BY <1>2, <2>2, <2>3, Zenon
    <3> HIDE DEF x, U, V
    <3>3. IsFiniteSet(V) /\ Cardinality(V) = Cardinality(U) + 1
      BY <2>1, <3>2, Zenon DEF Counting
    <3>4. L[h] \in [refs : Nat, retired : BOOLEAN] /\ L[h].refs = x.refs + 1 /\ L[h].retired = x.retired
      BY <2>1, <3>1, SMT
    <3>5. QED
      BY <2>1, <3>3, <3>4, Zenon DEF V
  <2>4. CASE h \notin T
    <3>1. L[h] = x
      BY <1>1, <2>4, Zenon
    <3>2. V = U
      <4>1. \A q \in Request : h \in Holds(q, i)' <=> h \in Holds(q, i)
        BY <1>2, <2>4, Zenon
      <4>2. QED
        BY <2>2, <4>1, Zenon
    <3> HIDE DEF x, U, V
    <3>3. QED
      BY <2>1, <3>1, <3>2, Zenon DEF V
  <2>5. QED
    BY <2>3, <2>4, Zenon
<1>8. QED
  BY <1>1, <1>5, <1>6, <1>7, Zenon DEF LeasesTaken

LEMMA AcquireLeases ==
    ASSUME Counting, DatabasesInv, LeasesInv, NEW r \in Request, acquire(r)
    PROVE  LeasesInv'
<1>0. PICK i \in Instance : i = at[r]
  BY Zenon DEF DatabasesInv, Domains
<1>1. /\ pc[r] = "route" /\ Domains /\ NewInv(r) /\ ProgressInv(r) /\ at'[r] = i /\ ~Saving(r) /\ held[r] = {}
      /\ UNCHANGED <<catalog, up, handlers, open, ask, committed, at, since, new, tokens>>
      /\ DOMAIN leases = Instance /\ DOMAIN open = Instance /\ up[i] \in {"serving", "closed"} /\ LeaseInv(i)
  BY <1>0, Zenon DEF acquire, DatabasesInv, LeasesInv, Saving, ProgressInv
<1>2. CASE Answered(r, "missing") /\ UNCHANGED <<held, leases>>
  <2>1. (\A q \in Request \ {r} : Same(q)) /\ ~Saving(r)' /\ NewInv(r)'
    BY <1>1, <1>2, AnsweredForm, Zenon
  <2>2. QED
    BY <1>0, <1>1, <1>2, <2>1, QuietLeases, Zenon
<1>3. CASE /\ held' = [held EXCEPT ![r] = Found(r)]
           /\ leases' = [leases EXCEPT ![i] = Referenced(leases[i], Found(r))]
           /\ \/ pc' = [pc EXCEPT ![r] = "use"] /\ UNCHANGED answer
              \/ pc' = [pc EXCEPT ![r] = "release"] /\ answer' = [answer EXCEPT ![r] = "stale"]
              \/ pc' = [pc EXCEPT ![r] = "check"] /\ UNCHANGED answer
  <2>1. PICK T : T = Found(r)
    BY Zenon
  <2>2. /\ held'[r] = T /\ leases'[i] = Referenced(leases[i], T) /\ pc'[r] \in {"use", "release", "check"}
        /\ (\A q \in Request \ {r} : Same(q)) /\ DOMAIN leases' = Instance
        /\ \A j \in Instance \ {i} : leases'[j] = leases[j]
    BY <1>1, <1>3, <2>1, Zenon DEF Domains, Same
  <2>3. T \subseteq Registered(i)
    <3>1. up[i] = "closed" => T = {}
      BY <1>0, <2>1, Zenon DEF Found
    <3>2. T \subseteq handlers[i]
      BY <1>0, <2>1, Zenon DEF Found, Named
    <3>3. QED
      BY <1>1, <3>1, <3>2, Zenon DEF Registered
  <2>4. ~Saving(r)' /\ NewInv(r)'
    BY <1>1, <2>2, Zenon DEF Saving, NewInv
  <2>5. held[r] \cap T = {} /\ held'[r] = held[r] \cup T
    BY <1>1, <2>2, Zenon
  <2>6. /\ DOMAIN leases'[i] = DOMAIN leases[i] /\ DOMAIN leases'[i] = Registered(i) \cup Leased(i)'
        /\ Leased(i)' = Leased(i) \cup T
        /\ \A h \in DOMAIN leases'[i] :
             /\ leases'[i][h] \in [refs : Nat, retired : BOOLEAN]
             /\ IsFiniteSet(Users(i, h)') /\ leases'[i][h].refs = Cardinality(Users(i, h)')
             /\ leases'[i][h].retired = (h \notin Registered(i))
    <3>1. PICK L : L = leases'[i]
      BY Zenon
    <3>2. L = Referenced(leases[i], T)
      BY <2>2, <3>1, Zenon
    <3>3. /\ DOMAIN L = DOMAIN leases[i] /\ DOMAIN L = Registered(i) \cup Leased(i)'
          /\ Leased(i)' = Leased(i) \cup T
          /\ \A h \in DOMAIN L :
               /\ L[h] \in [refs : Nat, retired : BOOLEAN]
               /\ IsFiniteSet(Users(i, h)') /\ L[h].refs = Cardinality(Users(i, h)')
               /\ L[h].retired = (h \notin Registered(i))
      <4>1. LeasesTaken(i, T, L)
        BY <1>0, <1>1, <2>2, <2>3, <2>5, <3>2, ReferencedStep, ZenonT(60)
      <4>2. QED
        BY <4>1, Zenon DEF LeasesTaken
    <3>4. QED
      BY <3>1, <3>3, Zenon
  <2>7. Registered(i)' = Registered(i)
    BY <1>1, Zenon DEF Registered
  <2>8. open'[i] = DOMAIN leases'[i] \cup Candidates(i)'
    <3>1. Offers(r, i) = {} /\ Offers(r, i)' = {}
      BY <1>1, <2>4, Zenon DEF Offers
    <3>2. \A h : h \in Candidates(i)' <=> h \in Candidates(i)
      BY <2>2, <3>1, OthersOffer, Zenon
    <3>3. QED
      BY <1>1, <2>6, <3>2, LeasesDomain, Zenon
  <2>9. up'[i] \in {"loaded", "serving"} => \A h \in Leased(i)' \ handlers'[i] : h \notin catalog'.profiles
    <3>1. up[i] \in {"loaded", "serving"} => T \subseteq handlers[i] /\ \A h \in Leased(i) \ handlers[i] : h \notin catalog.profiles
      BY <1>1, <2>3, Zenon DEF LeaseInv, Registered
    <3>2. QED
      BY <1>1, <2>6, <3>1, Zenon
  <2>10. LeaseInv(i)'
    <3>1. DOMAIN leases'[i] = Registered(i)' \cup Leased(i)'
      BY <2>6, <2>7, Zenon
    <3>2. up'[i] # "down"
      BY <1>1, Zenon
    <3>3. \A h \in DOMAIN leases'[i] :
             /\ leases'[i][h] \in [refs : Nat, retired : BOOLEAN]
             /\ IsFiniteSet(Users(i, h)') /\ leases'[i][h].refs = Cardinality(Users(i, h)')
             /\ leases'[i][h].retired = (h \notin Registered(i)')
      BY <2>6, <2>7, Zenon
    <3>4. QED
      BY <2>8, <2>9, <3>1, <3>2, <3>3, Zenon DEF LeaseInv
  <2>11. held'[r] \subseteq Known /\ handlers'[i] \subseteq Known \cup catalog'.profiles /\ CatalogOf(r)
    BY <1>1, <2>2, <2>3, LeasesDomain, KnownHas, Zenon DEF CatalogOf
  <2>12. QED
    BY <1>0, <1>1, <2>2, <2>4, <2>10, <2>11, RequestStep, Zenon
<1>4. QED
  BY <1>0, <1>2, <1>3, Zenon DEF acquire

(* What an accepted change makes of the profiles.                          *)
LEMMA AcceptedProfiles ==
    ASSUME DatabasesInv, LeasesInv, NEW r \in Request, NEW i \in Instance, at[r] = i, pc[r] = "save", Refusal(r) = "none"
    PROVE  /\ up[i] = "serving" /\ handlers[i] = catalog.profiles /\ Registered(i) = handlers[i]
           /\ ask[r].op \in {"add", "edit", "remove", "default"}
           /\ Saving(r) => NextProfiles(r) \ handlers[i] = {new[r]}
           /\ ~Saving(r) => NextProfiles(r) \subseteq handlers[i] /\ held[r] = {}
<1>1. /\ up[i] = "serving" /\ handlers[i] = catalog.profiles
      /\ Adds(r) \/ \E old \in catalog.profiles : Edits(r, old) \/ Removes(r, old) \/ Defaults(r, old)
  BY Accepted, Zenon
<1>2. Registered(i) = handlers[i] /\ handlers[i] \subseteq Known /\ NewInv(r)
  BY <1>1, KnownHas, Zenon DEF Registered, LeasesInv
<1>3. ask[r].op \in {"add", "edit", "remove", "default"}
  BY <1>1, Zenon DEF Adds, Edits, Removes, Defaults
<1>4. ASSUME Saving(r) PROVE NextProfiles(r) \ handlers[i] = {new[r]}
  <2>1. new[r] \notin handlers[i]
    BY <1>2, <1>4, Zenon DEF NewInv
  <2>2. NextProfiles(r) = catalog.profiles \cup {new[r]} \/ \E old \in catalog.profiles : NextProfiles(r) = (catalog.profiles \ {old}) \cup {new[r]}
    BY <1>1, <1>4, Zenon DEF Saving, Adds, Edits, Removes, Defaults
  <2>3. QED
    BY <1>1, <2>1, <2>2, Zenon
<1>5. ASSUME ~Saving(r) PROVE NextProfiles(r) \subseteq handlers[i] /\ held[r] = {}
  BY <1>1, <1>2, <1>5, Zenon DEF Saving, Adds, Edits, Removes, Defaults, NewInv
<1>6. QED
  BY <1>1, <1>2, <1>3, <1>4, <1>5, Zenon

LEMMA SaveLeases ==
    ASSUME Counting, DatabasesInv, LeasesInv, NEW r \in Request, Save(r)
    PROVE  LeasesInv'
<1>0. PICK i \in Instance : i = at[r]
  BY Zenon DEF DatabasesInv, Domains
<1>1. PICK T : T = IF ask[r].op = "default" THEN Named(i, ask[r].id) ELSE {}
  BY Zenon
<1>2. PICK L : L = Referenced(leases[i], T)
  BY Zenon
<1>3. /\ pc[r] = "save" /\ Refusal(r) = "none" /\ Domains /\ NewInv(r) /\ at'[r] = i
      /\ Committed(NextProfiles(r), NextDefault(r)) /\ Install(i, NextProfiles(r), L)
      /\ held' = [held EXCEPT ![r] = held[r] \cup T]
      /\ pc' = [pc EXCEPT ![r] = IF held'[r] = {} THEN "done" ELSE "release"]
      /\ committed' = [committed EXCEPT ![r] = TRUE] /\ answer' = [answer EXCEPT ![r] = "ok"]
      /\ UNCHANGED <<up, ask, at, since, new, tokens>>
  BY <1>0, <1>1, <1>2, Zenon DEF Save, DatabasesInv, LeasesInv
<1>4. /\ up[i] = "serving" /\ handlers[i] = catalog.profiles /\ Registered(i) = handlers[i]
      /\ Saving(r) => NextProfiles(r) \ handlers[i] = {new[r]}
      /\ ~Saving(r) => NextProfiles(r) \subseteq handlers[i] /\ held[r] = {}
  BY <1>0, <1>3, AcceptedProfiles, Zenon
<1>5. T \subseteq handlers[i] /\ held[r] \cap T = {}
  BY <1>1, <1>3, <1>4, Zenon DEF Named, Saving
<1>6. /\ held'[r] = held[r] \cup T /\ pc'[r] = (IF held'[r] = {} THEN "done" ELSE "release")
      /\ \A q \in Request \ {r} : Same(q)
  BY <1>3, Zenon DEF Domains, Same
<1>7. ~Saving(r)' /\ NewInv(r)'
  BY <1>6, Zenon DEF Saving, NewInv
<1>8. /\ DOMAIN leases' = Instance /\ DOMAIN open' = Instance /\ handlers'[i] = NextProfiles(r)
      /\ \A j \in Instance \ {i} : leases'[j] = leases[j] /\ handlers'[j] = handlers[j] /\ open'[j] = open[j]
  BY <1>3, InstallFrame, Zenon
<1>9. catalog'.profiles = NextProfiles(r)
  BY <1>3, Zenon DEF Committed
<1>10. CatalogOf(r)
  BY <1>4, <1>9, Zenon DEF CatalogOf
<1>11. /\ DOMAIN L = DOMAIN leases[i] /\ DOMAIN L = Registered(i) \cup Leased(i)'
       /\ Leased(i)' = Leased(i) \cup T
       /\ \A h \in DOMAIN L :
            /\ L[h] \in [refs : Nat, retired : BOOLEAN]
            /\ IsFiniteSet(Users(i, h)') /\ L[h].refs = Cardinality(Users(i, h)')
            /\ L[h].retired = (h \notin Registered(i))
  <2>1. T \subseteq Registered(i)
    BY <1>4, <1>5, Zenon
  <2>2. /\ at[r] = i /\ at'[r] = i /\ held[r] \cap T = {} /\ held'[r] = held[r] \cup T
        /\ \A q \in Request \ {r} : Same(q)
    BY <1>0, <1>3, <1>5, <1>6, Zenon
  <2>3. LeasesTaken(i, T, L)
    BY <1>2, <2>1, <2>2, ReferencedStep, ZenonT(60)
  <2>4. QED
    BY <2>3, Zenon DEF LeasesTaken
<1>12. LeaseInv(i)'
  <2> DEFINE H == NextProfiles(r)
  <2>1. i \in DOMAIN handlers /\ i \in DOMAIN leases /\ i \in DOMAIN open /\ up'[i] \in {"loaded", "serving"}
    BY <1>3, <1>4, Zenon DEF Domains, LeasesInv
  <2>2. /\ DOMAIN L = handlers[i] \cup Leased(i)'
        /\ \A h \in DOMAIN L :
            /\ L[h] \in [refs : Nat, retired : BOOLEAN]
            /\ IsFiniteSet(Users(i, h)') /\ L[h].refs = Cardinality(Users(i, h)')
            /\ L[h].retired = (h \notin handlers[i])
    BY <1>4, <1>11, Zenon
  <2>3. open[i] = DOMAIN L \cup Candidates(i) /\ Candidates(i) \cap handlers[i] = {}
    BY <1>11, LeasesDomain, CandidatesFresh, KnownHas, Zenon
  <2>4. Candidates(i) \cup (H \ handlers[i]) = Candidates(i)' \cup (H \ handlers[i])
    <3>1. \A h : /\ h \in Candidates(i) <=> h \in Offers(r, i) \/ \E q \in Request \ {r} : h \in Offers(q, i)
                 /\ h \in Candidates(i)' <=> h \in Offers(r, i)' \/ \E q \in Request \ {r} : h \in Offers(q, i)
      BY <1>6, OthersOffer, Zenon
    <3>2. Offers(r, i)' = {}
      BY <1>7, Zenon DEF Offers
    <3>3. Offers(r, i) \subseteq H \ handlers[i]
      BY <1>4, Zenon DEF Offers
    <3> HIDE DEF H
    <3>4. QED
      BY <3>1, <3>2, <3>3, Zenon
  <2>5. \A h \in Leased(i)' \ handlers[i] : h \notin H
    <3>1. Saving(r) => new[r] \notin Leased(i)
      BY <1>3, LeasedKnown, Zenon DEF NewInv
    <3>2. QED
      BY <1>4, <1>5, <1>11, <3>1, Zenon
  <2>6. (\A h \in Leased(i)' \ H : h \notin catalog'.profiles) /\ Install(i, H, L)
    BY <1>3, <1>9, Zenon
  <2> HIDE DEF H
  <2>7. QED
    BY <2>1, <2>2, <2>3, <2>4, <2>5, <2>6, InstallStep, Zenon
<1>13. held'[r] \subseteq Known /\ handlers'[i] \subseteq Known \cup catalog'.profiles
  BY <1>5, <1>6, <1>8, <1>9, KnownHas, Zenon
<1>14. QED
  BY <1>0, <1>3, <1>6, <1>7, <1>8, <1>10, <1>12, <1>13, RequestStep, Zenon

(* The users of the handlers when r drops its lease of h.                  *)
LEMMA UsersDropped ==
    ASSUME Counting, LeasesInv, NEW r \in Request, \A q \in Request \ {r} : Same(q),
           NEW i \in Instance, at[r] = i, at'[r] = i, NEW h \in held[r], held'[r] = held[r] \ {h}
    PROVE  /\ h \in DOMAIN leases[i] /\ h \in Known
           /\ IsFiniteSet(Users(i, h)') /\ Cardinality(Users(i, h)') = leases[i][h].refs - 1
           /\ leases[i][h].refs - 1 \in Nat
           /\ h \in Leased(i)' <=> leases[i][h].refs # 1
           /\ \A g : g # h => Users(i, g)' = Users(i, g) /\ (g \in Leased(i)' <=> g \in Leased(i))
<1>1. /\ Holds(r, i) = held[r] /\ Holds(r, i)' = held[r] \ {h}
      /\ \A q \in Request \ {r} : Holds(q, i)' = Holds(q, i)
  BY Zenon DEF Holds, Same
<1>2. \A g, q : /\ q \in Users(i, g) <=> q \in Request /\ g \in Holds(q, i)
                /\ q \in Users(i, g)' <=> q \in Request /\ g \in Holds(q, i)'
  BY Zenon DEF Users
<1>3. r \in Users(i, h) /\ Users(i, h)' = Users(i, h) \ {r}
  BY <1>1, <1>2, Zenon
<1>4. ASSUME NEW g, g # h PROVE Users(i, g)' = Users(i, g)
  <2>1. \A q \in Request : g \in Holds(q, i)' <=> g \in Holds(q, i)
    BY <1>1, <1>4, Zenon
  <2>2. \A q : q \in Users(i, g)' <=> q \in Users(i, g)
    BY <1>2, <2>1, Zenon
  <2>3. QED
    BY <2>2, Zenon
<1>5. \A g : (g \in Leased(i) <=> Users(i, g) # {}) /\ (g \in Leased(i)' <=> Users(i, g)' # {})
  BY LeasedUsers, LeasedUsersNext, Zenon
<1>6. h \in Leased(i) /\ h \in DOMAIN leases[i] /\ h \in Known
  BY <1>3, <1>5, LeasesDomain, Zenon
<1>7. PICK U : U = Users(i, h)
  BY Zenon
<1>8. IsFiniteSet(U) /\ leases[i][h].refs = Cardinality(U) /\ r \in U
  BY <1>3, <1>6, <1>7, LeaseUsed, Zenon
<1>9. IsFiniteSet(U \ {r}) /\ Cardinality(U \ {r}) = Cardinality(U) - 1
  BY <1>8, Zenon DEF Counting
<1>10. Cardinality(U \ {r}) \in Nat /\ (Cardinality(U \ {r}) = 0 <=> U \ {r} = {}) /\ Cardinality(U) \in Nat
  BY <1>8, <1>9, NoUsers, Zenon
<1>11. Cardinality(U) - 1 = 0 <=> Cardinality(U) = 1
  BY <1>10, SMT
<1>12. h \in Leased(i)' <=> leases[i][h].refs # 1
  BY <1>3, <1>5, <1>7, <1>8, <1>9, <1>10, <1>11, Zenon
<1>13. QED
  BY <1>3, <1>4, <1>5, <1>6, <1>7, <1>8, <1>9, <1>10, <1>12, Zenon

LEMMA ReleaseLeases ==
    ASSUME Counting, DatabasesInv, LeasesInv, NEW r \in Request, release(r)
    PROVE  LeasesInv'
<1>0. PICK i \in Instance : i = at[r]
  BY Zenon DEF DatabasesInv, Domains
<1>1. PICK h \in held[r] :
        /\ held' = [held EXCEPT ![r] = @ \ {h}]
        /\ IF leases[i][h].retired /\ leases[i][h].refs = 1
           THEN /\ leases' = [leases EXCEPT ![i] = [g \in DOMAIN leases[i] \ {h} |-> leases[i][g]]]
                /\ open' = [open EXCEPT ![i] = @ \ {h}]
           ELSE /\ leases' = [leases EXCEPT ![i][h].refs = @ - 1]
                /\ UNCHANGED open
  BY <1>0, Zenon DEF release
<1>2. /\ pc[r] \in {"use", "release"} /\ pc' = [pc EXCEPT ![r] = IF held'[r] = {} THEN "done" ELSE "release"]
      /\ answer' = IF held'[r] = {} /\ answer[r] = "none" THEN [answer EXCEPT ![r] = "ok"] ELSE answer
      /\ UNCHANGED <<catalog, up, handlers, ask, committed, at, since, new, tokens>>
      /\ Domains /\ LeaseInv(i)
  BY Zenon DEF release, DatabasesInv, LeasesInv
<1>3. DOMAIN leases = Instance /\ DOMAIN open = Instance
  BY Zenon DEF LeasesInv
<1>4. at[r] = i /\ at'[r] = i /\ held'[r] = held[r] \ {h} /\ pc'[r] = IF held'[r] = {} THEN "done" ELSE "release"
  BY <1>0, <1>1, <1>2, Zenon DEF Domains
<1>5. \A q \in Request \ {r} : Same(q)
  BY <1>1, <1>2, Zenon DEF Same, Domains
<1>6. ~Saving(r) /\ ~Saving(r)' /\ NewInv(r)'
  <2>1. pc'[r] \in {"done", "release"} /\ (pc'[r] = "done" => held'[r] = {})
    BY <1>4, Zenon
  <2>2. ~Saving(r) /\ ~Saving(r)'
    BY <1>2, <2>1, Zenon DEF Saving
  <2>3. QED
    BY <2>1, <2>2, Zenon DEF NewInv
<1>7. /\ h \in DOMAIN leases[i] /\ h \in Known
      /\ IsFiniteSet(Users(i, h)') /\ Cardinality(Users(i, h)') = leases[i][h].refs - 1
      /\ leases[i][h].refs - 1 \in Nat
      /\ h \in Leased(i)' <=> leases[i][h].refs # 1
      /\ \A g : g # h => Users(i, g)' = Users(i, g) /\ (g \in Leased(i)' <=> g \in Leased(i))
  BY <1>4, <1>5, UsersDropped, Zenon
<1>8. Candidates(i)' = Candidates(i) /\ h \notin Candidates(i)
  <2>1. Offers(r, i)' = Offers(r, i)
    BY <1>6, Zenon DEF Offers
  <2>2. \A g : g \in Candidates(i)' <=> g \in Candidates(i)
    BY <1>5, <2>1, OthersOffer, ZenonT(60)
  <2>3. h \notin Candidates(i)
    BY <1>7, CandidatesFresh, Zenon
  <2>4. QED
    BY <2>2, <2>3, Zenon
<1>9. /\ Registered(i)' = Registered(i) /\ up'[i] = up[i] /\ handlers'[i] = handlers[i]
  BY <1>2, Zenon DEF Registered
<1>10. /\ leases[i][h].retired = (h \notin Registered(i))
       /\ DOMAIN leases[i] = Registered(i) \cup Leased(i) /\ open[i] = DOMAIN leases[i] \cup Candidates(i)
       /\ leases[i][h] \in [refs : Nat, retired : BOOLEAN]
       /\ h \in Leased(i) /\ \A g \in Leased(i)' : g \in Leased(i)
  <2>1. h \in Leased(i)
    BY <1>4, Zenon DEF Leased, Holds
  <2>2. QED
    BY <1>7, <2>1, LeasesDomain, LeaseUsed, Zenon
<1>11. /\ DOMAIN leases' = Instance /\ DOMAIN open' = Instance
       /\ \A j \in Instance \ {i} : leases'[j] = leases[j] /\ open'[j] = open[j]
  BY <1>1, <1>3, Zenon
<1>12. /\ DOMAIN leases'[i] = Registered(i) \cup Leased(i)'
       /\ open'[i] = DOMAIN leases'[i] \cup Candidates(i)
       /\ \A g \in DOMAIN leases'[i] : g # h => g \in DOMAIN leases[i] /\ leases'[i][g] = leases[i][g]
       /\ h \in DOMAIN leases'[i] =>
            /\ leases'[i][h] \in [refs : Nat, retired : BOOLEAN]
            /\ leases'[i][h].refs = leases[i][h].refs - 1 /\ leases'[i][h].retired = leases[i][h].retired
  <2>1. CASE leases[i][h].retired /\ leases[i][h].refs = 1
    <3>1. /\ leases'[i] = [g \in DOMAIN leases[i] \ {h} |-> leases[i][g]] /\ open'[i] = open[i] \ {h}
      BY <1>1, <1>3, <2>1, Zenon
    <3>2. DOMAIN leases'[i] = DOMAIN leases[i] \ {h} /\ \A g \in DOMAIN leases'[i] : leases'[i][g] = leases[i][g]
      BY <3>1, Zenon
    <3>3. h \notin Registered(i) /\ h \notin Leased(i)'
      BY <1>7, <1>10, <2>1, Zenon
    <3>4. DOMAIN leases'[i] = Registered(i) \cup Leased(i)'
      BY <1>7, <1>10, <3>2, <3>3, Zenon
    <3>5. open'[i] = DOMAIN leases'[i] \cup Candidates(i)
      BY <1>8, <1>10, <3>1, <3>2, Zenon
    <3>6. QED
      BY <3>2, <3>4, <3>5, Zenon
  <2>2. CASE ~(leases[i][h].retired /\ leases[i][h].refs = 1)
    <3>1. /\ leases' = [leases EXCEPT ![i] = [leases[i] EXCEPT ![h] = [leases[i][h] EXCEPT !.refs = leases[i][h].refs - 1]]]
          /\ open' = open
      BY <1>1, <2>2, Zenon
    <3>2. leases'[i] = [leases[i] EXCEPT ![h] = [leases[i][h] EXCEPT !.refs = leases[i][h].refs - 1]]
      BY <1>3, <3>1, Zenon
    <3>3. /\ DOMAIN leases'[i] = DOMAIN leases[i] /\ \A g \in DOMAIN leases[i] : g # h => leases'[i][g] = leases[i][g]
          /\ leases'[i][h] = [leases[i][h] EXCEPT !.refs = leases[i][h].refs - 1]
      BY <1>7, <3>2, Zenon
    <3>4. h \in Registered(i) \/ h \in Leased(i)'
      BY <1>7, <1>10, <2>2, Zenon
    <3>5. DOMAIN leases'[i] = Registered(i) \cup Leased(i)'
      BY <1>7, <1>10, <3>3, <3>4, Zenon
    <3>6. /\ leases'[i][h] \in [refs : Nat, retired : BOOLEAN]
          /\ leases'[i][h].refs = leases[i][h].refs - 1 /\ leases'[i][h].retired = leases[i][h].retired
      <4> DEFINE x == leases[i][h]
      <4>1. x \in [refs : Nat, retired : BOOLEAN] /\ x.refs - 1 \in Nat /\ leases'[i][h] = [x EXCEPT !.refs = x.refs - 1]
        BY <1>7, <1>10, <3>3, Zenon
      <4>2. PICK y : y = leases'[i][h]
        BY Zenon
      <4> HIDE DEF x
      <4>3. y \in [refs : Nat, retired : BOOLEAN] /\ y.refs = x.refs - 1 /\ y.retired = x.retired
        BY <4>1, <4>2, SMT
      <4>4. QED
        BY <4>2, <4>3, Zenon DEF x
    <3>7. open'[i] = DOMAIN leases'[i] \cup Candidates(i)
      BY <1>10, <3>1, <3>3, Zenon
    <3>8. QED
      BY <3>3, <3>5, <3>6, <3>7, Zenon
  <2>3. QED
    BY <2>1, <2>2, Zenon
<1>13. LeaseInv(i)'
  <2>1. ASSUME NEW g \in DOMAIN leases'[i]
        PROVE  /\ leases'[i][g] \in [refs : Nat, retired : BOOLEAN]
               /\ IsFiniteSet(Users(i, g)') /\ leases'[i][g].refs = Cardinality(Users(i, g)')
               /\ leases'[i][g].retired = (g \notin Registered(i))
    <3>1. CASE g = h
      BY <1>7, <1>10, <1>12, <3>1, Zenon
    <3>2. CASE g # h
      <4>1. g \in DOMAIN leases[i] /\ leases'[i][g] = leases[i][g] /\ Users(i, g)' = Users(i, g)
        BY <1>7, <1>12, <3>2, Zenon
      <4>2. QED
        BY <4>1, LeaseUsed, Zenon
    <3>3. QED
      BY <3>1, <3>2, Zenon
  <2>2. up'[i] \in {"loaded", "serving"} => \A g \in Leased(i)' \ handlers'[i] : g \notin catalog'.profiles
    BY <1>2, <1>9, <1>10, Zenon DEF LeaseInv
  <2>3. up'[i] = "down" => handlers'[i] = {}
    BY <1>2, <1>9, Zenon DEF LeaseInv
  <2>4. QED
    BY <1>8, <1>9, <1>12, <2>1, <2>2, <2>3, Zenon DEF LeaseInv
<1>14. /\ held'[r] \subseteq Known /\ handlers'[i] \subseteq Known \cup catalog'.profiles
       /\ \A j \in Instance : handlers'[j] = handlers[j] /\ up'[j] = up[j]
       /\ CatalogOf(r) /\ tokens' = tokens
  BY <1>2, <1>4, KnownHas, Zenon DEF CatalogOf
<1>15. QED
  BY <1>4, <1>5, <1>6, <1>11, <1>13, <1>14, RequestStep, Zenon

LEMMA LeasesInit == ASSUME Init PROVE LeasesInv
<1>1. /\ \A r \in Request : held[r] = {} /\ new[r] = NoProfile /\ pc[r] = "new"
      /\ \A i \in Instance : handlers[i] = {} /\ open[i] = {} /\ up[i] = "down" /\ leases[i] = <<>>
      /\ DOMAIN leases = Instance /\ DOMAIN open = Instance /\ catalog.profiles = {} /\ tokens = 0
  BY Zenon DEF Init, Uninitialized
<1>2. Known = {}
  BY <1>1, ZenonT(60) DEF Known
<1>3. \A r \in Request : ~Saving(r) /\ NewInv(r)
  BY <1>1, Zenon DEF Saving, NewInv
<1>4. ASSUME NEW i \in Instance PROVE LeaseInv(i)
  <2>1. Registered(i) = {} /\ Leased(i) = {} /\ Candidates(i) = {}
    BY <1>1, <1>3, ZenonT(60) DEF Registered, Leased, Candidates, Holds, Offers
  <2>2. DOMAIN leases[i] = {}
    <3>1. DOMAIN <<>> = {}
      BY SMT
    <3>2. QED
      BY <1>1, <3>1, Zenon
  <2>3. QED
    BY <1>1, <2>1, <2>2, Zenon DEF LeaseInv
<1>5. tokens \in Nat
  BY <1>1, SMT
<1>6. QED
  BY <1>1, <1>2, <1>3, <1>4, <1>5, Zenon DEF LeasesInv

LEMMA LeasesStutter == ASSUME LeasesInv, UNCHANGED vars PROVE LeasesInv'
<1>1. /\ UNCHANGED <<catalog, up, handlers, leases, open, ask, pc, at, held, new, tokens>>
  BY Zenon DEF vars
<1>2. Known' = Known
  BY <1>1, Zenon DEF Known
<1>3. ASSUME NEW r \in Request PROVE NewInv(r)'
  BY <1>1, <1>2, Zenon DEF LeasesInv, NewInv, Saving
<1>4. ASSUME NEW i \in Instance PROVE LeaseInv(i)'
  <2>1. SameAt(i) /\ LeaseInv(i)
    BY <1>1, Zenon DEF SameAt, Holds, Offers, Saving, LeasesInv
  <2>2. QED
    BY <1>1, <2>1, LeaseSame, Zenon
<1>5. QED
  BY <1>1, <1>2, <1>3, <1>4, Zenon DEF LeasesInv

INSTANCE FiniteSetTheorems

LEMMA CountingHolds == Counting
BY FS_EmptySet, FS_CardinalityType, FS_AddElement, FS_RemoveElement, Zenon DEF Counting

(* Every lease counts the requests that use its handler, and the clients   *)
(* that are open are those of leased handlers and of candidates            *)
(* (acquireHandlerLocked, releaseHandler, swapHandlerLocked).              *)
THEOREM LeasesInductive == Spec => []LeasesInv
<1>1. Init => LeasesInv
  BY LeasesInit, Zenon
<1>2. DatabasesInv /\ LeasesInv /\ [Next]_vars => LeasesInv'
  <2> SUFFICES ASSUME DatabasesInv, LeasesInv, [Next]_vars PROVE LeasesInv'
    OBVIOUS
  <2>1. CASE UNCHANGED vars
    BY <2>1, LeasesStutter, Zenon
  <2>2. ASSUME NEW i \in Instance, Boot(i) \/ SaveInitial(i) \/ Close(i) \/ Crash(i) PROVE LeasesInv'
    BY <2>2, CountingHolds, BootLeases, SaveInitialLeases, CloseLeases, CrashLeases, Zenon
  <2>3. ASSUME NEW r \in Request,
               \/ Arrive(r) \/ refresh(r) \/ acquire(r) \/ Check(r)
               \/ Refuse(r) \/ SaveFails(r) \/ Save(r) \/ release(r) \/ ViewNothing(r)
        PROVE  LeasesInv'
    BY <2>3, CountingHolds, ArriveLeases, RefreshLeases, AcquireLeases, CheckLeases, DiscardLeases, SaveLeases, ReleaseLeases,
       ViewNothingLeases, Zenon
  <2>4. QED
    BY <2>1, <2>2, <2>3, Zenon DEF Next
<1>3. QED
  BY <1>1, <1>2, DatabasesInductive, PTL DEF Spec

(* The Redis clients that are open are those of the registered handlers,   *)
(* of handlers that a request still leases and of candidates about to be   *)
(* saved: none is closed in use and none is left open, whatever requests,  *)
(* saves, failures, closes and crashes interleave (closeRetiredLocked,     *)
(* swapHandlerLocked, the deferred closes).                                *)
THEOREM ClientsOpenInUse == Spec => []OpenExactlyInUse
<1>1. ASSUME LeasesInv PROVE OpenExactlyInUse
  <2> SUFFICES ASSUME NEW i \in Instance
               PROVE  open[i] = (IF up[i] \in {"loaded", "serving"} THEN handlers[i] ELSE {})
                         \cup (UNION {held[r] : r \in {q \in Request : at[q] = i}})
                         \cup {new[r] : r \in {q \in Request : at[q] = i /\ pc[q] = "save" /\ ask[q].op \in {"add", "edit"}}}
    BY Zenon DEF OpenExactlyInUse
  <2>1. open[i] = Registered(i) \cup Leased(i) \cup Candidates(i)
    BY <1>1, LeasesDomain, Zenon
  <2>2. Leased(i) = UNION {held[r] : r \in {q \in Request : at[q] = i}}
    BY Zenon DEF Leased, Holds
  <2>3. Candidates(i) = {new[r] : r \in {q \in Request : at[q] = i /\ pc[q] = "save" /\ ask[q].op \in {"add", "edit"}}}
    <3> DEFINE N == {new[r] : r \in {q \in Request : at[q] = i /\ Saving(q)}}
    <3>1. ASSUME NEW h \in Candidates(i) PROVE h \in N
      <4>1. PICK q \in Request : h \in Offers(q, i)
        BY Zenon DEF Candidates
      <4>2. at[q] = i /\ Saving(q) /\ h = new[q]
        BY <4>1, Zenon DEF Offers
      <4>3. QED
        BY <4>2, Zenon
    <3>2. ASSUME NEW q \in Request, at[q] = i, Saving(q) PROVE new[q] \in Candidates(i)
      BY <3>2, Zenon DEF Candidates, Offers
    <3>3. Candidates(i) = N
      BY <3>1, <3>2, Zenon
    <3>4. QED
      BY <3>3, Zenon DEF Saving
  <2>4. QED
    BY <2>1, <2>2, <2>3, Zenon DEF Registered
<1>2. QED
  BY <1>1, LeasesInductive, PTL

=============================================================================

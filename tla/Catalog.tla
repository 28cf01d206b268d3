------------------------------ MODULE Catalog ------------------------------
(***************************************************************************)
(* What the control planes that share one metadata store promise about the *)
(* database connections: a single catalog that changes by whole requests,  *)
(* each applied to the catalog as it is and never more than once. An edit  *)
(* replaces the settings its author saw, an answer of success means the    *)
(* request was applied and a refusal means it was not.                     *)
(***************************************************************************)
EXTENDS Integers

CONSTANT Request

VARIABLES catalog,    \* the committed connections, their default and revision
          ask,        \* what each request asks for
          committed,  \* requests whose change was applied
          answer      \* what each request was told

cvars == <<catalog, ask, committed, answer>>

NoDatabase == 0
Nothing == [op |-> "nothing"]
Changes == {"add", "edit", "remove", "default"}
Refusals == {"stale", "duplicate", "missing"}

Uninitialized == [rev |-> 0, profiles |-> {}, default |-> NoDatabase]

(* No two connections share an identity or an endpoint, and the default is *)
(* one of them.                                                            *)
Installable(c) ==
    /\ \A p, q \in c.profiles : p # q => p.id # q.id /\ p.endpoint # q.endpoint
    /\ IF c.profiles = {} THEN c.default = NoDatabase ELSE \E p \in c.profiles : p.id = c.default

CatalogInit ==
    /\ catalog = Uninitialized
    /\ ask = [r \in Request |-> Nothing]
    /\ committed = [r \in Request |-> FALSE]
    /\ answer = [r \in Request |-> "none"]

Becomes(profiles, default) ==
    catalog' = [rev |-> catalog.rev + 1, profiles |-> profiles, default |-> default]

Initialize ==
    /\ catalog.rev = 0
    /\ Installable(catalog') /\ Becomes(catalog'.profiles, catalog'.default)
    /\ UNCHANGED <<ask, committed, answer>>

Ask(r) ==
    /\ ask[r] = Nothing
    /\ ask' = [ask EXCEPT ![r] = ask'[r]]
    /\ UNCHANGED <<catalog, committed, answer>>

Add(a) ==
    \E p \in catalog'.profiles :
        /\ p.endpoint = a.endpoint
        /\ \A q \in catalog.profiles : q.id # p.id /\ q.endpoint # p.endpoint
        /\ Becomes(catalog.profiles \cup {p},
                   IF catalog.default = NoDatabase THEN p.id ELSE catalog.default)

Edit(a) ==
    \E old \in catalog.profiles, p \in catalog'.profiles :
        /\ old.id = a.id /\ old.rev = a.seen
        /\ p.id = a.id /\ p.endpoint = a.endpoint
        /\ \A q \in catalog.profiles \ {old} : q.endpoint # p.endpoint
        /\ Becomes((catalog.profiles \ {old}) \cup {p}, catalog.default)

Remove(a) ==
    \E old \in catalog.profiles :
        /\ old.id = a.id
        /\ Becomes(catalog.profiles \ {old}, catalog'.default)
        /\ IF catalog.default = a.id THEN Installable(catalog') ELSE catalog'.default = catalog.default

Default(a) ==
    /\ \E p \in catalog.profiles : p.id = a.id
    /\ Becomes(catalog.profiles, a.id)

(* A request is applied once, possibly as it is answered.                  *)
Apply(r) ==
    /\ ~committed[r] /\ answer[r] = "none"
    /\ committed' = [committed EXCEPT ![r] = TRUE]
    /\ \/ ask[r].op = "add" /\ Add(ask[r])
       \/ ask[r].op = "edit" /\ Edit(ask[r])
       \/ ask[r].op = "remove" /\ Remove(ask[r])
       \/ ask[r].op = "default" /\ Default(ask[r])
    /\ answer' \in {answer, [answer EXCEPT ![r] = "ok"], [answer EXCEPT ![r] = "error"]}
    /\ UNCHANGED ask

Answer(r) ==
    /\ ask[r] # Nothing /\ answer[r] = "none"
    /\ \/ answer' = [answer EXCEPT ![r] = "ok"] /\ (ask[r].op \in Changes => committed[r])
       \/ ~committed[r] /\ \E a \in Refusals \cup {"error"} : answer' = [answer EXCEPT ![r] = a]
    /\ UNCHANGED <<catalog, ask, committed>>

CatalogNext ==
    \/ Initialize
    \/ \E r \in Request : Ask(r) \/ Apply(r) \/ Answer(r)

CatalogSpec == CatalogInit /\ [][CatalogNext]_cvars
=============================================================================

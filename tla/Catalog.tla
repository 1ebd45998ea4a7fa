------------------------------ MODULE Catalog ------------------------------
(***************************************************************************)
(* The connector catalog: categories and no-auth providers in Postgres     *)
(* (connectors/store/catalog_write.py), their backup section               *)
(* (connectors/store/backup.py), and the cache every worker serves them    *)
(* from (connectors/store/catalog_store.py, connectors/providers/          *)
(* registry.py), refreshed by a reload and, outside the reload gate, by an *)
(* import, so that the two may overlap on a worker.  A row's descriptor is *)
(* abstracted to whether it passes the per-row checks.                     *)
(***************************************************************************)
EXTENDS Integers, FiniteSets, FiniteSetsExt

CONSTANTS
    CtWorkers,     \* worker processes
    CtProviders,   \* provider ids
    CtCode,        \* the ids plugins register in code
    CtNew,         \* categories that may be created
    CtDocs,        \* catalog sections an operator may import
    CtLast,        \* sort order of the category that stays last
    MaxCtOps       \* bound: operations, crashes, store failures

VARIABLES
    ctCats,        \* category -> sort order
    ctRows,        \* provider -> its row
    ctLock,        \* holder of the category-create lock
    ctCache,       \* worker -> providers it serves
    ctPending,     \* worker -> a fleet reload is on its way to it
    ctJob,         \* worker -> the operation it runs
    ctRefresh,     \* worker, a reload or an import -> the refresh it runs for it
    ctFailed,      \* workers whose newest reload raised
    ctMissed,      \* workers that were not told, or published an old read over a newer one (history)
    ctLate,        \* refreshes under way that may not make up for what was missed (history)
    ctAdded,       \* providers added and not disabled since (history)
    ctForeign,     \* categories whose order came with an import (history)
    ctDoc,         \* the newest export
    ctLeft

ctTables == <<ctCats, ctRows, ctAdded, ctForeign>>
ctVars == <<ctTables, ctLock, ctCache, ctPending, ctJob, ctRefresh, ctFailed, ctMissed, ctLate, ctDoc, ctLeft>>

Other == "other"
CtIdle == [step |-> "idle"]
CtNobody == "nobody"
NoRefresh == [step |-> "none"]
CtKinds == {"reload", "import"}
CtRefreshing(w) == \E k \in CtKinds : ctRefresh[<<w, k>>] # NoRefresh
Shown(rows) == {x \in DOMAIN rows : rows[x].enabled}
CtWith(f, k, v) == [x \in DOMAIN f \cup {k} |-> IF x = k THEN v ELSE f[x]]
Overlaid(f, g) == [x \in DOMAIN f \cup DOMAIN g |-> IF x \in DOMAIN g THEN g[x] ELSE f[x]]

OrdersOK(cats) == IsFiniteSet(DOMAIN cats) /\ \A c \in DOMAIN cats : cats[c] \in Int

ASSUME CtConstants ==
    /\ CtNobody \notin CtWorkers
    /\ CtLast \in Nat /\ CtLast > 1
    /\ \A doc \in CtDocs : OrdersOK(doc.cats)

CtInit ==
    /\ ctCats = [c \in {"seed", Other} |-> IF c = Other THEN CtLast ELSE 1]
    /\ ctRows = [x \in {} |-> 0] /\ ctAdded = {} /\ ctForeign = {}
    /\ ctLock = CtNobody
    /\ ctCache = [w \in CtWorkers |-> {}] /\ ctPending = [w \in CtWorkers |-> FALSE]
    /\ ctJob = [w \in CtWorkers |-> CtIdle] /\ ctRefresh = [r \in CtWorkers \X CtKinds |-> NoRefresh]
    /\ ctFailed = {} /\ ctMissed = {} /\ ctLate = {} /\ ctDoc = [cats |-> ctCats, rows |-> ctRows]
    /\ ctLeft = MaxCtOps

CtBegins(w) == ctLeft > 0 /\ ctLeft' = ctLeft - 1 /\ ctJob[w] = CtIdle
CtJob(w, job) == ctJob' = [ctJob EXCEPT ![w] = job]
CtAt(w, step) == ctJob[w].step = step

\* Workers that miss a change; what their refreshes have read so far does not make up for it.
Miss(ws) == ctMissed' = ctMissed \cup ws /\ ctLate' = ctLate \cup (ws \X CtKinds)
CtServed == <<ctMissed, ctLate>>

----------------------------------------------------------------------------
(* create_category, alone.                                                  *)
CreateCategory(w, c) ==
    /\ CtBegins(w) /\ CtJob(w, [step |-> "lock", cat |-> c, row |-> CtNobody])
    /\ UNCHANGED <<ctTables, ctLock, ctCache, ctPending, ctRefresh, ctFailed, CtServed, ctDoc>>

(* add_provider: an id this worker does not know yet, a category that       *)
(* exists or comes with a create payload,                                  *)
KnownProvider(w, x) == x \in CtCode \cup ctCache[w]

AddProvider(w, x, c, new) ==
    /\ c \in (IF new THEN CtNew ELSE DOMAIN ctCats)
    /\ CtBegins(w) /\ ~KnownProvider(w, x)
    /\ CtJob(w, [step |-> "verify", cat |-> c, row |-> x, new |-> new])
    /\ UNCHANGED <<ctTables, ctLock, ctCache, ctPending, ctRefresh, ctFailed, CtServed, ctDoc>>

(* then its sub-services are asked to answer.                               *)
Verified(w, ok) ==
    /\ CtAt(w, "verify")
    /\ CtJob(w, IF ~ok THEN CtIdle ELSE [ctJob[w] EXCEPT !.step = IF ctJob[w].new THEN "lock" ELSE "commit"])
    /\ UNCHANGED <<ctTables, ctLock, ctCache, ctPending, ctRefresh, ctFailed, CtServed, ctDoc, ctLeft>>

MayCreate(w) == ctLock = CtNobody

(* _insert_category: under the lock, after every category but the last.     *)
InsertCategory(w) ==
    LET c == ctJob[w].cat
        order == 1 + Max({0} \cup {ctCats[d] : d \in DOMAIN ctCats \ {Other}}) IN
    /\ CtAt(w, "lock") /\ MayCreate(w)
    /\ IF c \notin DOMAIN ctCats /\ order < CtLast
       THEN /\ ctLock' = w
            /\ CtJob(w, [step |-> "commit", cat |-> c, row |-> ctJob[w].row, new |-> TRUE, order |-> order])
       ELSE CtJob(w, CtIdle) /\ UNCHANGED ctLock
    /\ UNCHANGED <<ctTables, ctCache, ctPending, ctRefresh, ctFailed, CtServed, ctDoc, ctLeft>>

\* The workers that hear an announcement wait for their reload.
Announced(told) == [v \in CtWorkers |-> ctPending[v] \/ v \in told]

(* The commit of both rows, or of neither; it may take effect and its       *)
(* answer be lost, and then nobody is told of the row.                      *)
CommitRows(w, heard) ==
    LET j == ctJob[w]
        clash == (j.new /\ j.cat \in DOMAIN ctCats) \/ (j.row # CtNobody /\ j.row \in DOMAIN ctRows) IN
    /\ CtAt(w, "commit")
    /\ ctLock' = IF ctLock = w THEN CtNobody ELSE ctLock
    /\ IF clash THEN CtJob(w, CtIdle) /\ UNCHANGED <<ctTables, CtServed>>
       ELSE /\ ctCats' = IF j.new THEN CtWith(ctCats, j.cat, j.order) ELSE ctCats
            /\ ctRows' = IF j.row = CtNobody THEN ctRows ELSE CtWith(ctRows, j.row, [cat |-> j.cat, enabled |-> TRUE, good |-> TRUE])
            /\ ctAdded' = ctAdded \cup ({j.row} \ {CtNobody}) /\ UNCHANGED ctForeign
            /\ CtJob(w, IF j.row = CtNobody \/ ~heard THEN CtIdle ELSE [step |-> "reload"])
            /\ Miss(IF j.row = CtNobody \/ heard THEN {} ELSE CtWorkers)
    /\ UNCHANGED <<ctCache, ctPending, ctRefresh, ctFailed, ctDoc, ctLeft>>

----------------------------------------------------------------------------
(* A refresh: the categories in one read, the rows in another, and what was  *)
(* read is published when the connection has been given back.               *)
StartRefresh(w, k, wiped) ==
    /\ ctRefresh[<<w, k>>] = NoRefresh
    /\ ctRefresh' = [ctRefresh EXCEPT ![<<w, k>>] = [step |-> "rows", cats |-> DOMAIN ctCats]]
    /\ ctCache' = IF wiped THEN [ctCache EXCEPT ![w] = {}] ELSE ctCache

ReadRows(w, k) ==
    /\ ctRefresh[<<w, k>>].step = "rows"
    /\ ctRefresh' = [ctRefresh EXCEPT ![<<w, k>>] = [step |-> "publish", cats |-> ctRefresh[<<w, k>>].cats, rows |-> ctRows]]
    /\ ctLate' = ctLate \ {<<w, k>>}
    /\ UNCHANGED <<ctTables, ctLock, ctCache, ctPending, ctJob, ctFailed, ctMissed, ctDoc, ctLeft>>

(* A reload drops the cache first, as every settings cache.                 *)
LocalReload(w) ==
    /\ CtAt(w, "reload") /\ StartRefresh(w, "reload", TRUE) /\ CtJob(w, [step |-> "announce"])
    /\ UNCHANGED <<ctTables, ctLock, ctPending, ctFailed, CtServed, ctDoc, ctLeft>>

CtFleetReload(w) ==
    /\ ctPending[w] /\ StartRefresh(w, "reload", TRUE)
    /\ ctPending' = [ctPending EXCEPT ![w] = FALSE]
    /\ UNCHANGED <<ctTables, ctLock, ctJob, ctFailed, CtServed, ctDoc, ctLeft>>

(* fetch_catalog's checks of an enabled row, against the categories read.    *)
RowLoads(row, cats) == row.good /\ row.cat \in cats

(* set_catalog: no id a plugin has registered.                              *)
Publishes(rows) == rows \cap CtCode = {}

OtherKind(k) == CHOOSE o \in CtKinds : o # k
RefreshDone(w, k) ==
    /\ ctRefresh' = [ctRefresh EXCEPT ![<<w, k>>] = NoRefresh]
    /\ ctLate' = ctLate \cup {<<w, OtherKind(k)>>}

CtLoads(r) == (\A x \in Shown(r.rows) : RowLoads(r.rows[x], r.cats)) /\ Publishes(Shown(r.rows))

RefreshEnds(w, k) ==
    LET r == ctRefresh[<<w, k>>] IN
    /\ r.step = "publish" /\ CtLoads(r)
    /\ ctCache' = [ctCache EXCEPT ![w] = Shown(r.rows)]
    /\ ctFailed' = ctFailed \ {w}
    /\ ctMissed' = IF <<w, k>> \in ctLate THEN ctMissed \cup {w} ELSE ctMissed \ {w}
    /\ RefreshDone(w, k)
    /\ UNCHANGED <<ctTables, ctLock, ctPending, ctJob, ctDoc, ctLeft>>

(* The store does not answer, or what was read does not pass the checks.     *)
RefreshRaises(w, k) ==
    LET r == ctRefresh[<<w, k>>] IN
    /\ \/ r.step = "rows" /\ ctLeft > 0 /\ ctLeft' = ctLeft - 1
       \/ r.step = "publish" /\ ~CtLoads(r) /\ UNCHANGED ctLeft
    /\ RefreshDone(w, k)
    /\ ctFailed' = IF k = "reload" THEN ctFailed \cup {w} ELSE ctFailed
    /\ UNCHANGED <<ctTables, ctLock, ctCache, ctPending, ctJob, ctMissed, ctDoc>>

(* The fleet is told, whatever became of the local reload.  A publish that   *)
(* fails is swallowed and its report ignored, so some, or all, may not hear. *)
Broadcast(w, told) ==
    /\ CtAt(w, "announce") /\ ctRefresh[<<w, "reload">>] = NoRefresh
    /\ ctPending' = Announced(told)
    /\ Miss(CtWorkers \ (told \cup {w}))
    /\ CtJob(w, CtIdle)
    /\ UNCHANGED <<ctTables, ctLock, ctCache, ctRefresh, ctFailed, ctDoc, ctLeft>>

(* A worker crashes and boots again, which reads the catalog; of a row it    *)
(* had committed and not announced the others are not told.                 *)
CtCrash(w) ==
    /\ ctLeft > 0 /\ ctLeft' = ctLeft - 1
    /\ CtJob(w, CtIdle) /\ ctLock' = IF ctLock = w THEN CtNobody ELSE ctLock
    /\ ctRefresh' = [ctRefresh EXCEPT ![<<w, "reload">>] = [step |-> "rows", cats |-> DOMAIN ctCats], ![<<w, "import">>] = NoRefresh]
    /\ ctCache' = [ctCache EXCEPT ![w] = {}] /\ ctPending' = [ctPending EXCEPT ![w] = FALSE]
    /\ Miss(IF ctJob[w].step \in {"reload", "announce"} THEN CtWorkers \ {w} ELSE {})
    /\ UNCHANGED <<ctTables, ctFailed, ctDoc>>

----------------------------------------------------------------------------
(* export_connector_catalog: two reads.                                     *)
ExportCategories(w) ==
    /\ CtBegins(w) /\ CtJob(w, [step |-> "export", cats |-> ctCats])
    /\ UNCHANGED <<ctTables, ctLock, ctCache, ctPending, ctRefresh, ctFailed, CtServed, ctDoc>>

ExportRows(w) ==
    /\ CtAt(w, "export") /\ CtJob(w, CtIdle)
    /\ ctDoc' = [cats |-> ctJob[w].cats, rows |-> ctRows]
    /\ UNCHANGED <<ctTables, ctLock, ctCache, ctPending, ctRefresh, ctFailed, CtServed, ctLeft>>

\* A plausible mistake: a row that is already there is not checked.
MutantRowValid(doc, x) == x \in DOMAIN ctRows \/ RowLoads(doc.rows[x], DOMAIN ctCats \cup DOMAIN doc.cats)

(* _validate_enabled_catalog_row: a category stored or in the document.     *)
RowValid(doc, x) == RowLoads(doc.rows[x], DOMAIN ctCats \cup DOMAIN doc.cats)

(* import_connector_catalog: every enabled row is checked before any write,  *)
(* all in one transaction, and this worker's cache is refreshed, unless the *)
(* answer of the commit is lost.  An upsert waits for an uncommitted insert *)
(* of the same category.                                                    *)
ImportCatalog(w, doc, heard) ==
    /\ CtBegins(w) /\ ctRefresh[<<w, "import">>] = NoRefresh
    /\ \A v \in CtWorkers \ {w} : ctLock = v => ctJob[v].cat \notin DOMAIN doc.cats
    /\ \A x \in Shown(doc.rows) : RowValid(doc, x)
    /\ ctCats' = Overlaid(ctCats, doc.cats) /\ ctRows' = Overlaid(ctRows, doc.rows)
    /\ ctAdded' = ctAdded \ (DOMAIN doc.rows \ Shown(doc.rows)) /\ ctForeign' = ctForeign \cup DOMAIN doc.cats
    /\ IF heard THEN StartRefresh(w, "import", FALSE) /\ CtJob(w, [step |-> "import"])
       ELSE UNCHANGED <<ctRefresh, ctCache, ctJob>>
    /\ UNCHANGED <<ctLock, ctPending, ctFailed, CtServed, ctDoc>>

ImportEnds(w) ==
    /\ CtAt(w, "import") /\ ctRefresh[<<w, "import">>] = NoRefresh /\ CtJob(w, CtIdle)
    /\ UNCHANGED <<ctTables, ctLock, ctCache, ctPending, ctRefresh, ctFailed, CtServed, ctDoc, ctLeft>>

(* The database is lost and made anew.                                      *)
Wiped ==
    /\ ctLeft > 0 /\ ctLeft' = ctLeft - 1
    /\ \A w \in CtWorkers : ctJob[w] = CtIdle /\ ~CtRefreshing(w)
    /\ ctCats' = [c \in {"seed", Other} |-> IF c = Other THEN CtLast ELSE 1]
    /\ ctRows' = [x \in {} |-> 0] /\ ctAdded' = {} /\ ctForeign' = {}
    /\ UNCHANGED <<ctLock, ctCache, ctPending, ctJob, ctRefresh, ctFailed, CtServed, ctDoc>>

CtNext ==
    \/ \E w \in CtWorkers :
          \/ \E c \in CtNew : CreateCategory(w, c)
          \/ \E x \in CtProviders, c \in CtNew \cup {"seed"}, new \in BOOLEAN : AddProvider(w, x, c, new)
          \/ \E ok \in BOOLEAN : Verified(w, ok)
          \/ \E heard \in BOOLEAN : CommitRows(w, heard) \/ \E doc \in CtDocs \cup {ctDoc} : ImportCatalog(w, doc, heard)
          \/ \E k \in CtKinds : ReadRows(w, k) \/ RefreshEnds(w, k) \/ RefreshRaises(w, k)
          \/ \E told \in SUBSET (CtWorkers \ {w}) : Broadcast(w, told)
          \/ InsertCategory(w) \/ LocalReload(w) \/ CtFleetReload(w) \/ CtCrash(w)
          \/ ExportCategories(w) \/ ExportRows(w) \/ ImportEnds(w)
    \/ Wiped

CtSpec == CtInit /\ [][CtNext]_ctVars

----------------------------------------------------------------------------
(* Whatever is imported and whoever creates categories meanwhile: an enabled *)
(* row passes the checks a booting worker makes, so no stored row of its     *)
(* own keeps the fleet from starting.                                       *)
CatalogGated == \A x \in Shown(ctRows) : RowLoads(ctRows[x], DOMAIN ctCats)

(* The order of the categories this deployment created is total and the last *)
(* one stays last, however creates race, with one another or with the commit *)
(* of a new provider; an imported order is the document's.                   *)
CategoriesOrdered ==
    \A c, d \in DOMAIN ctCats \ ctForeign : c # d => ctCats[c] # ctCats[d] /\ (d = Other => ctCats[c] < ctCats[d])

(* A provider that was added is served by every worker that has no reload    *)
(* ahead of it or running and whose newest one went through, whatever became *)
(* of the reload on the worker that added it.  Excepted, until a refresh has *)
(* read since, are a worker that was not told (the publish failed, the      *)
(* adding worker crashed before it or never heard of its commit) and one    *)
(* that published what it had read before another of its refreshes ended.   *)
AddedServed ==
    \A x \in ctAdded, w \in CtWorkers \ (ctMissed \cup ctFailed) :
        (\A v \in CtWorkers : ctJob[v].step \notin {"reload", "announce"})
        /\ ~ctPending[w] /\ ctRefresh[<<w, "reload">>] = NoRefresh => x \in ctCache[w]

(* import_connector_catalog's docstring: a bad backup aborts rather than     *)
(* landing a poison row that then fails every connector-using worker at      *)
(* startup, so what is stored can be published.                             *)
NoPoisonRow == Publishes(Shown(ctRows))

\* What the catalog serves has been checked, sorts as it was created, and holds what was added.
CatalogSound == CatalogGated /\ CategoriesOrdered /\ AddedServed
=============================================================================

----------------------------- MODULE Templates ------------------------------
(***************************************************************************)
(* The stored templates of one worker (template/resource_manager.py and    *)
(* operations/templates.py).  A render takes the compiled template from an *)
(* async LRU cache whose entry exists from the moment a fetch starts, so a *)
(* write that lands between a fetch's read and its return has to be kept   *)
(* from leaving the old text behind.  What an included template reads goes *)
(* through the template engine's own cache, which nothing evicts.          *)
(* Contents are a version number and a kind.  The storage provider and the *)
(* two cache libraries are external.                                       *)
(***************************************************************************)
EXTENDS Naturals, FiniteSets

CONSTANTS
    TpPaths,       \* template ids inside the template root
    TpUnsafe,      \* keys that leave it
    TpDir,         \* the ids under the one directory that is ever deleted
    TpDep,         \* the id an including template includes
    TpCallers,     \* concurrent renders and reads
    TpAdmins,      \* concurrent uploads and deletes
    MaxTpWrites,   \* bound: uploads, deletes, directory deletes, cache clears
    MaxTpReads     \* bound: renders and reads

ASSUME TpConstants == "inline" \notin TpPaths /\ TpDir \subseteq TpPaths

VARIABLES
    tpCached,      \* _cache_enabled
    tpStore,       \* id -> [ver, kind] of what the provider holds
    tpCache,       \* id -> its entry in the compiled cache
    tpTracked,     \* _cached_template_ids
    tpFetch,       \* caller -> the fetch it started
    tpEngine,      \* id -> contents in the engine's own cache
    tpCall,        \* caller -> its call
    tpWork,        \* admin -> its operation
    tpAcked,       \* id -> newest version whose write has returned (history)
    tpWrites, tpReads

tpShared == <<tpCache, tpTracked, tpEngine>>
tpVars == <<tpCached, tpStore, tpShared, tpFetch, tpCall, tpWork, tpAcked, tpWrites, tpReads>>

Inline == [ver |-> 0, kind |-> "includes"]
NoDep == [ver |-> 0, kind |-> "none"]
Kinds(p) == IF p = TpDep THEN {"plain", "broken"} ELSE {"plain", "includes", "broken"}
NoCall == [pc |-> "idle"]
NoFetch == [pc |-> "none"]
NoWork == [pc |-> "idle"]

TpInit ==
    /\ tpCached \in BOOLEAN
    /\ tpStore = [p \in TpPaths |-> [ver |-> 0, kind |-> IF p = TpDep THEN "plain" ELSE "includes"]]
    /\ tpCache = [p \in {} |-> NoDep] /\ tpTracked = {} /\ tpEngine = [p \in {} |-> NoDep]
    /\ tpFetch = [c \in TpCallers |-> NoFetch] /\ tpCall = [c \in TpCallers |-> NoCall]
    /\ tpWork = [a \in TpAdmins |-> NoWork]
    /\ tpAcked = [p \in TpPaths |-> 0] /\ tpWrites = MaxTpWrites /\ tpReads = MaxTpReads

----------------------------------------------------------------------------
(* The operations refuse a key that leaves the root before anything else.    *)
SafeKey(p) == p \in TpPaths

Cut(f, P) == [p \in DOMAIN f \ P |-> f[p]]
HasEntry(cache, p) == p \in DOMAIN cache

(* Eviction of one id: the entry goes whether its fetch has finished or not, *)
(* tracked or not.                                                          *)
MutantEvictCompiled(p) ==
    /\ tpCache' = IF p \in tpTracked THEN Cut(tpCache, {p}) ELSE tpCache
    /\ tpTracked' = tpTracked \ {p}

EvictCompiled(p) == tpCache' = Cut(tpCache, {p}) /\ tpTracked' = tpTracked \ {p}

(* Eviction of a directory goes by the tracked ids.                          *)
EvictCompiledPrefix ==
    LET cache == Cut(tpCache, tpTracked \cap TpDir) IN
    /\ tpCache' = cache
    /\ tpTracked' = {p \in tpTracked \ TpDir : HasEntry(cache, p)}

(* The sweep of a fetch: once more ids are tracked than entries cached.      *)
Swept(tracked) ==
    IF Cardinality(tracked) > Cardinality(DOMAIN tpCache) THEN {p \in tracked : HasEntry(tpCache, p)} ELSE tracked

----------------------------------------------------------------------------
(* Writes.  The provider's write and the eviction are two steps.             *)
Begin(a) == tpWork[a] = NoWork /\ tpWrites > 0 /\ tpWrites' = tpWrites - 1
Stored(p, kind) == tpStore' = [tpStore EXCEPT ![p] = [ver |-> @.ver + 1, kind |-> kind]]
Reading == <<tpFetch, tpCall, tpReads>>

UploadTemplate(a, p, kind) ==
    /\ Begin(a) /\ SafeKey(p) /\ Stored(p, kind)
    /\ tpWork' = [tpWork EXCEPT ![a] = [pc |-> "evict", path |-> p, ver |-> tpStore[p].ver + 1]]
    /\ UNCHANGED <<tpCached, tpShared, Reading, tpAcked>>

DeleteTemplate(a, p) ==
    /\ Begin(a) /\ SafeKey(p) /\ tpStore[p].kind # "gone" /\ Stored(p, "gone")
    /\ tpWork' = [tpWork EXCEPT ![a] = [pc |-> "evict", path |-> p, ver |-> tpStore[p].ver + 1]]
    /\ UNCHANGED <<tpCached, tpShared, Reading, tpAcked>>

WriteReturns(a) ==
    /\ tpWork[a].pc = "evict"
    /\ LET w == tpWork[a] IN
       /\ EvictCompiled(w.path)
       /\ tpAcked' = [tpAcked EXCEPT ![w.path] = IF w.ver > @ THEN w.ver ELSE @]
    /\ tpWork' = [tpWork EXCEPT ![a] = NoWork]
    /\ UNCHANGED <<tpCached, tpStore, tpEngine, Reading, tpWrites>>

(* A directory delete takes its files one by one and may fail after any; it  *)
(* evicts either way.                                                        *)
DeleteTemplateDir(a) ==
    /\ Begin(a)
    /\ tpWork' = [tpWork EXCEPT ![a] = [pc |-> "purge", left |-> {p \in TpDir : tpStore[p].kind # "gone"}, gone |-> {}]]
    /\ UNCHANGED <<tpCached, tpStore, tpShared, Reading, tpAcked>>

PurgeOne(a, p) ==
    /\ tpWork[a].pc = "purge" /\ p \in tpWork[a].left
    /\ Stored(p, "gone")
    /\ tpWork' = [tpWork EXCEPT ![a].left = @ \ {p}, ![a].gone = @ \cup {[path |-> p, ver |-> tpStore[p].ver + 1]}]
    /\ UNCHANGED <<tpCached, tpShared, Reading, tpAcked, tpWrites>>

(* An id whose fetch is still under way is not tracked yet, and keeps its    *)
(* entry: the delete acknowledges only the others.                           *)
DirReturns(a) ==
    /\ tpWork[a].pc = "purge"
    /\ EvictCompiledPrefix
    /\ LET Seen(p) == {x.ver : x \in {y \in tpWork[a].gone : y.path = p}}
           Pending(p) == p \in DOMAIN tpCache /\ tpCache[p].pc = "pending"
       IN tpAcked' = [p \in TpPaths |->
                        IF Pending(p) \/ \A v \in Seen(p) : v <= tpAcked[p] THEN tpAcked[p] ELSE CHOOSE v \in Seen(p) : v > tpAcked[p]]
    /\ tpWork' = [tpWork EXCEPT ![a] = NoWork]
    /\ UNCHANGED <<tpCached, tpStore, tpEngine, Reading, tpWrites>>

ClearCache ==
    /\ tpWrites > 0 /\ tpWrites' = tpWrites - 1
    /\ tpCached /\ tpCache' = [p \in {} |-> NoDep] /\ tpTracked' = {}
    /\ UNCHANGED <<tpCached, tpStore, tpEngine, Reading, tpWork, tpAcked>>

(* The cache drops an entry of its own: its time is up, or it is the oldest. *)
Expires(p) ==
    /\ p \in DOMAIN tpCache /\ tpCache[p].pc = "done"
    /\ tpCache' = Cut(tpCache, {p})
    /\ UNCHANGED <<tpCached, tpStore, tpTracked, tpEngine, Reading, tpWork, tpAcked, tpWrites>>

----------------------------------------------------------------------------
(* Renders.                                                                  *)
Writing == <<tpCached, tpStore, tpWork, tpAcked, tpWrites>>
Ask(c) == tpCall[c] = NoCall /\ tpReads > 0 /\ tpReads' = tpReads - 1
TpAnswer(call, own, dep, said) ==
    [pc |-> "answered", path |-> call.path, floor |-> call.floor, own |-> own, dep |-> dep, said |-> said]
Rendering(call, own) == [pc |-> "render", path |-> call.path, floor |-> call.floor, own |-> own]

(* The caller joins the entry of its id, or starts the fetch that becomes it. *)
RenderById(c, p) ==
    /\ Ask(c) /\ SafeKey(p)
    /\ LET call == [pc |-> "wait", path |-> p, floor |-> tpAcked, on |-> c]
           hit == tpCached /\ p \in DOMAIN tpCache
       IN IF hit
          THEN /\ tpCall' = [tpCall EXCEPT ![c] = IF tpCache[p].pc = "done" THEN Rendering(call, tpCache[p].got)
                                                  ELSE [call EXCEPT !.on = tpCache[p].by]]
               /\ UNCHANGED <<tpFetch, tpCache>>
          ELSE /\ tpCall' = [tpCall EXCEPT ![c] = call]
               /\ tpFetch' = [tpFetch EXCEPT ![c] = [pc |-> "load", path |-> p]]
               /\ tpCache' = IF tpCached
                             THEN [q \in DOMAIN tpCache \cup {p} |-> IF q = p THEN [pc |-> "pending", by |-> c] ELSE tpCache[q]]
                             ELSE tpCache
    /\ UNCHANGED <<Writing, tpTracked, tpEngine>>

(* The provider reads the text.                                              *)
LoadById(c) ==
    /\ tpFetch[c].pc = "load"
    /\ tpFetch' = [tpFetch EXCEPT ![c] = [pc |-> "read", path |-> @.path, got |-> tpStore[@.path]]]
    /\ UNCHANGED <<Writing, tpShared, tpCall, tpReads>>

(* The fetch resumes: it tracks the id and sweeps, unless nothing was there, *)
(* compiles, and ends for everyone who waits on it.  A failed fetch takes    *)
(* whatever entry its id has; a finished one fills its own, if it still has  *)
(* one.                                                                      *)
FetchAndCompile(c) ==
    /\ tpFetch[c].pc = "read"
    /\ LET f == tpFetch[c]
           fails == f.got.kind \in {"gone", "broken"}
           own == tpCached /\ f.path \in DOMAIN tpCache /\ tpCache[f.path] = [pc |-> "pending", by |-> c]
       IN /\ tpTracked' = IF tpCached /\ f.got.kind # "gone" THEN Swept(tpTracked \cup {f.path}) ELSE tpTracked
          /\ tpCache' = IF fails THEN Cut(tpCache, {f.path})
                        ELSE IF own THEN [tpCache EXCEPT ![f.path] = [pc |-> "done", got |-> f.got]]
                        ELSE tpCache
          /\ tpCall' = [d \in TpCallers |->
                          IF tpCall[d].pc # "wait" \/ tpCall[d].on # c THEN tpCall[d]
                          ELSE IF fails THEN TpAnswer(tpCall[d], f.got, NoDep, f.got.kind)
                          ELSE Rendering(tpCall[d], f.got)]
    /\ tpFetch' = [tpFetch EXCEPT ![c] = NoFetch]
    /\ UNCHANGED <<Writing, tpEngine, tpReads>>

(* An inline text is compiled by its content, which cannot go stale.          *)
RenderInline(c) ==
    /\ Ask(c)
    /\ tpCall' = [tpCall EXCEPT ![c] = [pc |-> "render", path |-> "inline", floor |-> tpAcked, own |-> Inline]]
    /\ UNCHANGED <<Writing, tpShared, tpFetch>>

(* The operation takes a stored template's id or an inline text, never both.   *)
RenderTemplate(c) == (\E p \in TpPaths \cup TpUnsafe : RenderById(c, p)) \/ RenderInline(c)

(* The engine renders in a thread; an include it has not cached is loaded.    *)
Render(c) ==
    /\ tpCall[c].pc = "render"
    /\ LET k == tpCall[c] IN
       tpCall' = [tpCall EXCEPT ![c] =
                    IF k.own.kind # "includes" THEN TpAnswer(k, k.own, NoDep, "ok")
                    ELSE IF TpDep \in DOMAIN tpEngine THEN TpAnswer(k, k.own, tpEngine[TpDep], "ok")
                    ELSE [pc |-> "include", path |-> k.path, floor |-> k.floor, own |-> k.own, dep |-> tpStore[TpDep]]]
    /\ UNCHANGED <<Writing, tpShared, tpFetch, tpReads>>

(* The engine compiles what the loader returned, and keeps it.               *)
SyncLoader(c) ==
    /\ tpCall[c].pc = "include"
    /\ LET k == tpCall[c]
           ok == k.dep.kind \notin {"gone", "broken"}
       IN /\ tpCall' = [tpCall EXCEPT ![c] = TpAnswer(k, k.own, k.dep, IF ok THEN "ok" ELSE k.dep.kind)]
          /\ tpEngine' = IF ok THEN [q \in DOMAIN tpEngine \cup {TpDep} |-> IF q = TpDep THEN k.dep ELSE tpEngine[q]] ELSE tpEngine
    /\ UNCHANGED <<Writing, tpCache, tpTracked, tpFetch, tpReads>>

----------------------------------------------------------------------------
(* get_template reads the text and then, for its schema, reads it again.      *)
GetTemplate(c, p) ==
    /\ Ask(c) /\ SafeKey(p)
    /\ tpCall' = [tpCall EXCEPT ![c] = [pc |-> "get", path |-> p, floor |-> tpAcked]]
    /\ UNCHANGED <<Writing, tpShared, tpFetch>>

FetchTemplate(c) ==
    /\ tpCall[c].pc = "get"
    /\ LET k == tpCall[c]
           text == tpStore[k.path]
       IN tpCall' = [tpCall EXCEPT ![c] = IF text.kind = "gone" THEN TpAnswer(k, text, NoDep, "gone")
                                          ELSE [pc |-> "schema", path |-> k.path, floor |-> k.floor]]
    /\ UNCHANGED <<Writing, tpShared, tpFetch, tpReads>>

TemplateSchema(c) ==
    /\ tpCall[c].pc = "schema"
    /\ LET k == tpCall[c]
           text == tpStore[k.path]
       IN tpCall' = [tpCall EXCEPT ![c] = TpAnswer(k, text, NoDep, IF text.kind \in {"gone", "broken"} THEN text.kind ELSE "ok")]
    /\ UNCHANGED <<Writing, tpShared, tpFetch, tpReads>>

Returned(c) ==
    /\ tpCall[c].pc = "answered"
    /\ tpCall' = [tpCall EXCEPT ![c] = NoCall]
    /\ UNCHANGED <<Writing, tpShared, tpFetch, tpReads>>

TpNext ==
    \/ \E a \in TpAdmins :
         \/ \E p \in TpPaths \cup TpUnsafe : (\E k \in Kinds(p) : UploadTemplate(a, p, k)) \/ DeleteTemplate(a, p)
         \/ WriteReturns(a) \/ DeleteTemplateDir(a) \/ DirReturns(a) \/ \E p \in TpDir : PurgeOne(a, p)
    \/ \E c \in TpCallers :
         \/ RenderTemplate(c) \/ \E p \in TpPaths \cup TpUnsafe : GetTemplate(c, p)
         \/ LoadById(c) \/ FetchAndCompile(c) \/ Render(c) \/ SyncLoader(c)
         \/ FetchTemplate(c) \/ TemplateSchema(c) \/ Returned(c)
    \/ ClearCache \/ \E p \in TpPaths : Expires(p)

TpSpec == TpInit /\ [][TpNext]_tpVars

----------------------------------------------------------------------------
(* Once an upload or a delete of a template has returned, no render that     *)
(* begins afterwards uses an older text of it, whatever fetch of the old     *)
(* text was under way when the write landed; and the same after a directory  *)
(* delete, for the ids no fetch was under way of.  The directory's eviction  *)
(* goes by the tracked ids, so it relies on every finished entry being       *)
(* tracked (resource_manager.py, upload_template and delete_template_dir).   *)
RendersCurrent ==
    \A c \in TpCallers :
      tpCall[c].pc = "answered" /\ tpCall[c].path \in TpPaths => tpCall[c].own.ver >= tpCall[c].floor[tpCall[c].path]

(* The same of what a render includes: resource_manager.py:478 has renders   *)
(* stay consistent with storage after an upload.                             *)
IncludesCurrent ==
    \A c \in TpCallers :
      tpCall[c].pc = "answered" /\ tpCall[c].dep # NoDep => tpCall[c].dep.ver >= tpCall[c].floor[TpDep]

=============================================================================

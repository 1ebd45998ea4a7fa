----------------------------- MODULE TokenStore -----------------------------
(***************************************************************************)
(* The connector token store (connectors/store/redis_pg.py) for one        *)
(* connection: a durable Postgres row behind a Redis cache whose entries   *)
(* are fenced by the row's cache_version.  Every round trip to Redis or    *)
(* Postgres is a step; the Lua scripts and the SQL statements are atomic.  *)
(* A ciphertext is the number of the durable write that produced it: each  *)
(* encryption draws a new nonce, so a compare-and-set hits only the write  *)
(* its caller loaded.                                                      *)
(***************************************************************************)
EXTENDS Integers

CONSTANTS
    Procs, Absent,
    MaxWrites,      \* bound: durable writes
    TkScenarios       \* the disturbances to explore: how many deletes, imports and Redis errors

TkScenario == [deletes : Nat, restores : Nat, faults : Nat]

ASSUME StoreConstants ==
    /\ Absent \notin Nat \cup [ver : Nat, blob : Nat \cup {Absent}] \cup [blob : Nat, ver : Nat, live : BOOLEAN]
    /\ MaxWrites \in Nat \ {0}
    /\ TkScenarios \subseteq TkScenario

VARIABLES
    row,        \* the Postgres row: its ciphertext, cache_version, and whether the session still lives
    cache,      \* the Redis record: a version and a ciphertext, Absent for a tombstone
    calls,      \* the store call each process is in
    tkWrites,     \* durable writes so far
    tkBudget,     \* the scenario, counting down
    served,     \* the newest ciphertext a finished get returned or a finished put installed
    gone,       \* a delete has returned
    reborn,     \* an import brought a deleted connection back, with its versions starting again
    unfenced    \* a call went around the version fence: its Redis write raised or it had no version

tkVars == <<row, cache, calls, tkWrites, tkBudget, served, gone, reborn, unfenced>>

Blobs == 1 .. MaxWrites
Start(at) == [at |-> at, blob |-> Absent, ver |-> Absent, live |-> TRUE, expired |-> FALSE]
TkIdle == Start("idle")
Calls == [at : {"idle", "pg", "fill", "drop", "tomb", "wipe"}, blob : Blobs \cup {Absent}, ver : Blobs \cup {Absent},
          live : BOOLEAN, expired : BOOLEAN]

TkTypeOK ==
    /\ row \in [blob : Blobs, ver : Blobs, live : BOOLEAN] \cup {Absent}
    /\ cache \in [ver : Blobs, blob : Blobs \cup {Absent}] \cup {Absent}
    /\ calls \in [Procs -> Calls]
    /\ tkWrites \in 0 .. MaxWrites /\ tkBudget \in TkScenario
    /\ served \in Blobs \cup {0}
    /\ gone \in BOOLEAN /\ reborn \in BOOLEAN /\ unfenced \in BOOLEAN

TkInit ==
    /\ row = Absent /\ cache = Absent /\ calls = [p \in Procs |-> TkIdle]
    /\ tkWrites = 0 /\ tkBudget \in TkScenarios
    /\ served = 0 /\ gone = FALSE /\ reborn = FALSE /\ unfenced = FALSE

Busy(p, at) == calls[p].at = at
TkGo(p, at) == calls' = [calls EXCEPT ![p].at = at]
Return(p) == calls' = [calls EXCEPT ![p] = TkIdle]
Served(b) == served' = IF b = Absent \/ served > b THEN served ELSE b

TkSpend(b) == tkBudget[b] > 0 /\ tkBudget' = [tkBudget EXCEPT ![b] = @ - 1]
RedisFault == TkSpend("faults")

----------------------------------------------------------------------------
(* The two scripts. *)

\* A plausible mistake: the fill is unconditional.
MutantSetIfNewer(blob, ver, live) == cache' = IF live THEN [ver |-> ver, blob |-> blob] ELSE Absent

\* _CACHE_SET_IF_NEWER_LUA; an expiry already in the past drops the key it has just written.
SetIfNewer(blob, ver, live) ==
    cache' = IF cache # Absent /\ cache.ver >= ver THEN cache
             ELSE IF live THEN [ver |-> ver, blob |-> blob] ELSE Absent

\* _CACHE_TOMBSTONE_LUA
Tombstone(ver) ==
    cache' = IF cache # Absent /\ cache.ver > ver THEN cache ELSE [ver |-> ver, blob |-> Absent]

----------------------------------------------------------------------------
(* get *)

\* A ciphertext in Redis is the answer and changes nothing.  Otherwise, or when Redis does not
\* answer, Postgres is asked; disconnect asks for a lapsed session too.
GetMiss(p, expired) ==
    /\ Busy(p, "idle")
    /\ IF cache = Absent \/ cache.blob = Absent THEN UNCHANGED tkBudget ELSE RedisFault
    /\ calls' = [calls EXCEPT ![p] = [Start("pg") EXCEPT !.expired = expired]]
    /\ UNCHANGED <<row, cache, tkWrites, served, gone, unfenced, reborn>>

\* The row of a lapsed session is not put back into the cache.
GetPg(p) ==
    /\ Busy(p, "pg")
    /\ IF row = Absent \/ (~row.live /\ ~calls[p].expired)
       THEN Return(p) /\ UNCHANGED served
       ELSE IF ~row.live THEN Return(p) /\ Served(row.blob)
            ELSE /\ calls' = [calls EXCEPT ![p] = [@ EXCEPT !.at = "fill", !.blob = row.blob, !.ver = row.ver, !.live = TRUE]]
                 /\ UNCHANGED served
    /\ UNCHANGED <<row, cache, tkWrites, tkBudget, gone, unfenced, reborn>>

\* _cache_set, of a get or of a put; when it fails the key is dropped.
Fill(p) ==
    LET c == calls[p] IN
    /\ Busy(p, "fill")
    /\ \/ SetIfNewer(c.blob, c.ver, c.live) /\ Return(p) /\ Served(c.blob) /\ UNCHANGED <<tkBudget, unfenced>>
       \/ RedisFault /\ TkGo(p, "drop") /\ unfenced' = TRUE /\ UNCHANGED <<cache, served>>
    /\ UNCHANGED <<row, tkWrites, gone, reborn>>

\* _invalidate_after_failed_write: best effort, of a get, a put or a delete.
Drop(p) ==
    /\ Busy(p, "drop")
    /\ \/ cache' = Absent /\ UNCHANGED tkBudget
       \/ RedisFault /\ UNCHANGED cache
    /\ Return(p) /\ Served(calls[p].blob)
    /\ gone' = (gone \/ calls[p].blob = Absent)
    /\ UNCHANGED <<row, tkWrites, unfenced, reborn>>

----------------------------------------------------------------------------
(* put, delete, and the import of a backup *)

\* A durable write, and where its call goes on.
Written(p, at, version) ==
    LET b == tkWrites + 1 IN
    /\ tkWrites < MaxWrites /\ tkWrites' = b
    /\ row' = [blob |-> b, ver |-> version, live |-> TRUE]
    /\ calls' = [calls EXCEPT ![p] = [Start(at) EXCEPT !.blob = b, !.ver = version]]

Create(p) ==
    /\ Busy(p, "idle") /\ tkWrites = 0 /\ Written(p, "fill", 1)
    /\ UNCHANGED <<cache, tkBudget, served, gone, unfenced, reborn>>

\* A compare-and-set that hits; one that misses changes nothing.
PutCas(p) ==
    /\ Busy(p, "idle") /\ row # Absent /\ Written(p, "fill", row.ver + 1)
    /\ UNCHANGED <<cache, tkBudget, served, gone, unfenced, reborn>>

DeletePg(p) ==
    /\ Busy(p, "idle") /\ tkWrites > 0 /\ TkSpend("deletes")
    /\ row' = Absent
    /\ calls' = [calls EXCEPT ![p] = [Start("tomb") EXCEPT !.ver = IF row = Absent THEN Absent ELSE row.ver]]
    /\ UNCHANGED <<cache, tkWrites, served, gone, unfenced, reborn>>

\* A delete that found no row has no version to fence with and just drops the key.
DeleteCache(p) ==
    LET v == calls[p].ver IN
    /\ Busy(p, "tomb")
    /\ \/ /\ IF v = Absent THEN cache' = Absent ELSE Tombstone(v)
          /\ unfenced' = (unfenced \/ v = Absent)
          /\ Return(p) /\ gone' = TRUE /\ UNCHANGED tkBudget
       \/ RedisFault /\ TkGo(p, "drop") /\ unfenced' = TRUE /\ UNCHANGED <<cache, gone>>
    /\ UNCHANGED <<row, tkWrites, served, reborn>>

\* import_connector_connections: an upsert, then the key is dropped, loudly if that fails.
RestorePg(p) ==
    /\ Busy(p, "idle") /\ TkSpend("restores")
    /\ Written(p, "wipe", IF row = Absent THEN 1 ELSE row.ver + 1)
    /\ gone' = FALSE /\ unfenced' = TRUE /\ reborn' = (reborn \/ row = Absent)
    /\ UNCHANGED <<cache, served>>

RestoreCache(p) ==
    /\ Busy(p, "wipe")
    /\ \/ cache' = Absent /\ Served(calls[p].blob) /\ UNCHANGED tkBudget
       \/ RedisFault /\ UNCHANGED <<cache, served>>
    /\ Return(p) /\ UNCHANGED <<row, tkWrites, gone, unfenced, reborn>>

----------------------------------------------------------------------------
(* Time. *)

\* The session's end: the row is hidden, the key expires, an expiry still in flight is past.
Lapse ==
    /\ row # Absent /\ row.live /\ row' = [row EXCEPT !.live = FALSE]
    /\ cache' = IF cache # Absent /\ cache.blob # Absent THEN Absent ELSE cache
    /\ calls' = [p \in Procs |-> IF Busy(p, "idle") THEN calls[p] ELSE [calls[p] EXCEPT !.live = FALSE]]
    /\ UNCHANGED <<tkWrites, tkBudget, served, gone, unfenced, reborn>>

\* A tombstone outlives every call that loaded the row before the delete.
TombstoneExpires ==
    /\ cache # Absent /\ cache.blob = Absent /\ \A p \in Procs : ~Busy(p, "fill") /\ ~Busy(p, "drop")
    /\ cache' = Absent
    /\ UNCHANGED <<row, calls, tkWrites, tkBudget, served, gone, unfenced, reborn>>

TkNext ==
    \/ \E p \in Procs : \/ GetPg(p) \/ Fill(p) \/ Drop(p) \/ Create(p) \/ PutCas(p)
                        \/ DeletePg(p) \/ DeleteCache(p) \/ RestorePg(p) \/ RestoreCache(p)
                        \/ \E expired \in BOOLEAN : GetMiss(p, expired)
    \/ Lapse \/ TombstoneExpires

TkSpec == TkInit /\ [][TkNext]_tkVars

----------------------------------------------------------------------------
(* What the store promises. *)

\* A durable write, a delete or an import whose cache step is still to come, or a reader about to
\* install the row as it is.
Pending == \E p \in Procs : calls[p].at \in {"fill", "drop", "tomb", "wipe"}
                            /\ (row = Absent \/ calls[p].blob = row.blob \/ calls[p].blob = Absent)

\* Once the last durable write has reached the cache, what Redis serves is the row, or nothing:
\* no reader that loaded an older row, however late, can bring it back.
CacheCurrent ==
    cache # Absent /\ cache.blob # Absent /\ ~Pending /\ ~unfenced => row # Absent /\ cache.blob = row.blob

\* What a get finds in Redis is never older than a ciphertext some call had already returned or
\* installed when it began, and nothing once a delete had returned.
ReadsMonotone == cache # Absent /\ cache.blob # Absent /\ ~unfenced => cache.blob >= served /\ ~gone

\* Nothing in Redis outranks the row, so the next durable write gets past the fence and heals
\* whatever a failed or a late cache step left there (a connection restored after its deletion
\* starts its versions again).
NextWriteLands == row # Absent /\ cache # Absent /\ ~reborn => cache.ver <= row.ver

\* The fence's invariant: the version order of row and cache.
FenceHolds == TkTypeOK /\ NextWriteLands

\* What redis_pg.py promises of its cache: the fence holds, reads never go back while it does, and
\* a healed entry is the row.
CacheSound == FenceHolds /\ ReadsMonotone /\ CacheCurrent
=============================================================================

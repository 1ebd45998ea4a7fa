-------------------------- MODULE ConnectorsProofs --------------------------
(***************************************************************************)
(* The cache of the connector token store, for every number of processes,  *)
(* writes and disturbances. CacheSound says what Redis may serve; it holds *)
(* because of what the calls still carry, so the induction runs on two     *)
(* invariants more: VersionsOrdered, which needs no assumption on the      *)
(* disturbances and bounds every version in flight by the row's, and       *)
(* Fenced, which says what the calls may still do while no call has gone   *)
(* around the version fence.                                               *)
(*                                                                         *)
(* The resolver's verdicts about a connection are true and its tokens      *)
(* never go back, for any replicas, scenarios and bounds. A forced refresh *)
(* replaces a token the server refused, a write-back carries tokens newer  *)
(* than the record it was refreshed from (CallSound); and as long as no    *)
(* body outlived its lock or ran without it, the lock is exclusive, what a *)
(* refresh read of the record still holds, and what the provider said of   *)
(* it is still true, but for a breaker whose removal failed or was cut off *)
(* (CallSafe, Verdicts).                                                   *)
(*                                                                         *)
(* The connector catalog has distinct orders and serves what was added. A  *)
(* create holds the lock from its insert to its commit, and the order it   *)
(* brings is above every native one and below the last (Inserting); a      *)
(* worker that does not serve an added provider has a reload ahead,        *)
(* running or failed, or one is still to be announced to it, or it missed  *)
(* the change (AddedComing); and a refresh that nothing overtook has read  *)
(* every provider that was added, or ends with such a reload ahead         *)
(* (ReadAll).                                                              *)
(*                                                                         *)
(* The records, consents, managed entries and flows of the connection      *)
(* service agree (CnInv). A flow has one owner and is written once         *)
(* (OneUse), a connection about to be created is known to nobody else      *)
(* (Unknown), a live consent has a record or soon gets one (Consents),     *)
(* and what a change read is not newer than the record it will write to    *)
(* (ReadBefore): these hold always. As long as no body outlived its lock,  *)
(* the connection is the body's own (Exclusive); as long as none was cut   *)
(* short either, the manifest is where its next step finds it (InStep).    *)
(*                                                                         *)
(* The marketplace installer leaves every plugin whole, by the row it was  *)
(* last told of. The one running operation is shaped by its kind and step  *)
(* (MkShaped); a plugin that no operation is on agrees in that row,        *)
(* packages, manifest and registration (Settled), the one it is on agrees  *)
(* as far as the step has come (Course), and the manifest saved for an     *)
(* unwind fits every other plugin (MkInv), for no step puts a module of    *)
(* one plugin where another's are.                                         *)
(***************************************************************************)
EXTENDS TokenStore, TokenRefresh, Catalog, Connections, Marketplace, FiniteSetTheorems, TLAPS

----------------------------------------------------------------------------
(* The token store. *)

Carrying(p, at) == calls[p].at = at

\* Every version a call may still write is one the row has or had, and no row stands
\* where nothing was ever written.
VersionsOrdered ==
    /\ row # Absent => row.ver <= tkWrites /\ row.blob = tkWrites
    /\ tkWrites = 0 => row = Absent /\ cache = Absent /\ ~gone /\ \A p \in Procs : calls[p].at \in {"idle", "pg"}
    /\ ~reborn => \A p \in Procs : Carrying(p, "fill") /\ row # Absent => calls[p].ver <= row.ver
    /\ ~reborn => \A p \in Procs : Carrying(p, "tomb") => row = Absent
    /\ \A p \in Procs : Carrying(p, "fill") \/ Carrying(p, "wipe") => calls[p].blob \in Blobs /\ calls[p].ver \in Blobs
    /\ \A p \in Procs : calls[p].blob # Absent => calls[p].blob <= tkWrites
    /\ reborn => unfenced
    /\ \A p \in Procs : Carrying(p, "drop") \/ Carrying(p, "wipe") => unfenced
    /\ served <= tkWrites

\* While every call has gone through the fence the versions number the writes, and whatever is
\* still in flight is ordered: what was loaded before the session lapsed lies below what was loaded
\* after, nothing that could be installed lies below what was served, the row's own write is on its
\* way or has arrived, and a delete's tombstone is on its way or has closed the entry.
InFlight(p) == Carrying(p, "fill") /\ calls[p].live
Lapsed(p) == Carrying(p, "fill") /\ ~calls[p].live

NumberedByWrite ==
    /\ row # Absent => row.ver = tkWrites
    /\ cache # Absent => cache.ver <= tkWrites /\ (cache.blob # Absent => cache.blob = cache.ver)
    /\ \A p \in Procs : Carrying(p, "fill") => calls[p].ver = calls[p].blob
    /\ \A p \in Procs : Carrying(p, "tomb") => calls[p].ver \in {Absent, tkWrites} /\ row = Absent
    /\ gone => row = Absent

Ordered ==
    /\ \A p, q \in Procs : InFlight(p) /\ Lapsed(q) => calls[q].blob < calls[p].blob
    /\ cache = Absent => \A p \in Procs : InFlight(p) => calls[p].blob >= served
    /\ cache # Absent /\ cache.blob # Absent => cache.blob >= served
    /\ row # Absent /\ ~row.live => cache = Absent /\ \A p \in Procs : ~InFlight(p)
    /\ row # Absent /\ row.live => \A p \in Procs : Lapsed(p) => calls[p].blob < tkWrites

Arriving ==
    /\ row # Absent /\ row.live =>
          \/ \E p \in Procs : InFlight(p) /\ calls[p].blob = tkWrites
          \/ cache # Absent /\ cache.ver = tkWrites
    /\ cache # Absent /\ cache.blob = Absent => cache.ver = tkWrites /\ row = Absent

Closed ==
    \/ cache # Absent /\ cache.blob = Absent
    \/ cache = Absent /\ \A p \in Procs : ~Carrying(p, "fill")

Closing ==
    row = Absent /\ tkWrites > 0 =>
        \/ ~gone /\ \E p \in Procs : Carrying(p, "tomb") /\ calls[p].ver = tkWrites
        \/ Closed

Fenced == NumberedByWrite /\ Ordered /\ Arriving /\ Closing

\* The inductive invariant.
CacheInv == FenceHolds /\ VersionsOrdered /\ (~unfenced => Fenced)

\* What the clauses about calls in flight say of the cache itself.
LEMMA CacheInvSound == CacheInv => CacheSound
<1> SUFFICES ASSUME CacheInv PROVE ReadsMonotone /\ CacheCurrent
  BY DEF CacheInv, CacheSound
<1>1. ReadsMonotone
  BY DEF CacheInv, ReadsMonotone, Fenced, Ordered, Closing, Closed, NumberedByWrite, VersionsOrdered, FenceHolds, TkTypeOK, Carrying
<1>2. CacheCurrent
  <2> SUFFICES ASSUME cache # Absent, cache.blob # Absent, ~Pending, ~unfenced
               PROVE  row # Absent /\ cache.blob = row.blob
    BY DEF CacheCurrent
  <2>1. row # Absent
    <3> SUFFICES ASSUME row = Absent PROVE FALSE
      OBVIOUS
    <3>1. tkWrites > 0
      BY DEF CacheInv, VersionsOrdered, FenceHolds, TkTypeOK
    <3>2. \E p \in Procs : Carrying(p, "tomb")
      BY <3>1 DEF CacheInv, Fenced, Closing, Closed
    <3> QED BY <3>2 DEF Pending, Carrying
  <2>2. cache.blob = row.blob
    BY <2>1 DEF CacheInv, Fenced, Arriving, Ordered, NumberedByWrite, VersionsOrdered, FenceHolds, TkTypeOK, Pending, InFlight, Carrying
  <2> QED BY <2>1, <2>2
<1> QED BY <1>1, <1>2

\* What the type invariant says of one call.
LEMMA CallType ==
    ASSUME TkTypeOK, NEW p \in Procs
    PROVE  /\ calls[p].at \in {"idle", "pg", "fill", "drop", "tomb", "wipe"}
           /\ calls[p].blob \in Blobs \cup {Absent} /\ calls[p].ver \in Blobs \cup {Absent}
           /\ calls[p].live \in BOOLEAN /\ calls[p].expired \in BOOLEAN
BY DEF TkTypeOK, Calls

\* The empty store satisfies the invariant.
LEMMA CacheInitInv == TkInit => CacheInv
<1> SUFFICES ASSUME TkInit PROVE CacheInv
  OBVIOUS
<1> USE StoreConstants DEF TkInit
<1>1. TkTypeOK
  <2>1. calls \in [Procs -> Calls]
    BY DEF TkIdle, Start, Calls
  <2>2. gone \in BOOLEAN /\ reborn \in BOOLEAN /\ unfenced \in BOOLEAN
    OBVIOUS
  <2>3. tkBudget \in TkScenario /\ tkWrites \in 0 .. MaxWrites /\ served \in Blobs \cup {0}
    BY DEF Blobs
  <2> QED BY <2>1, <2>2, <2>3 DEF TkTypeOK
<1>2. NextWriteLands
  BY DEF NextWriteLands
<1>3. VersionsOrdered
  BY DEF VersionsOrdered, Carrying, TkIdle, Start
<1>4. Fenced
  BY DEF Fenced, NumberedByWrite, Ordered, Arriving, Closing, Closed, Carrying, InFlight, Lapsed, TkIdle, Start
<1> QED BY <1>1, <1>2, <1>3, <1>4 DEF CacheInv, FenceHolds

\* A call replaced by another call of the type.
LEMMA CallStep ==
    ASSUME TkTypeOK, NEW p \in Procs, NEW r \in Calls, calls' = [calls EXCEPT ![p] = r]
    PROVE  calls' \in [Procs -> Calls] /\ calls'[p] = r /\ \A q \in Procs \ {p} : calls'[q] = calls[q]
BY DEF TkTypeOK

\* A row and a cache entry are never mistaken for their absence.
LEMMA Present ==
    /\ \A b, v \in Blobs : [blob |-> b, ver |-> v, live |-> TRUE] # Absent
    /\ \A v \in Blobs : \A b \in Blobs \cup {Absent} : [ver |-> v, blob |-> b] # Absent
    /\ Absent \notin [blob : Blobs, ver : Blobs, live : BOOLEAN]
<1>1. Blobs \subseteq Nat
  BY StoreConstants DEF Blobs
<1>2. ASSUME NEW b \in Blobs, NEW v \in Blobs PROVE [blob |-> b, ver |-> v, live |-> TRUE] # Absent
  <2>1. [blob |-> b, ver |-> v, live |-> TRUE] \in [blob : Nat, ver : Nat, live : BOOLEAN]
    BY <1>1
  <2> QED BY <2>1, StoreConstants
<1>3. ASSUME NEW v \in Blobs, NEW b \in Blobs \cup {Absent} PROVE [ver |-> v, blob |-> b] # Absent
  <2>1. [ver |-> v, blob |-> b] \in [ver : Nat, blob : Nat \cup {Absent}]
    BY <1>1
  <2> QED BY <2>1, StoreConstants
<1>4. Absent \notin [blob : Blobs, ver : Blobs, live : BOOLEAN]
  <2>1. [blob : Blobs, ver : Blobs, live : BOOLEAN] \subseteq [blob : Nat, ver : Nat, live : BOOLEAN]
    BY <1>1
  <2> QED BY <2>1, StoreConstants
<1> QED BY <1>2, <1>3, <1>4

\* The calls a step can leave behind.
LEMMA CallForms ==
    /\ TkIdle \in Calls
    /\ \A e \in BOOLEAN : [Start("pg") EXCEPT !.expired = e] \in Calls
    /\ \A b, v \in Blobs : [[Start("fill") EXCEPT !.blob = b] EXCEPT !.ver = v] \in Calls
    /\ \A b, v \in Blobs : [[Start("wipe") EXCEPT !.blob = b] EXCEPT !.ver = v] \in Calls
    /\ \A v \in Blobs \cup {Absent} : [Start("tomb") EXCEPT !.ver = v] \in Calls
    /\ \A c \in Calls : [c EXCEPT !.at = "drop"] \in Calls
BY DEF Calls, TkIdle, Start

\* A get goes on to Postgres.
LEMMA GetMissInv ==
    ASSUME CacheInv, NEW p \in Procs, NEW expired \in BOOLEAN, GetMiss(p, expired)
    PROVE  CacheInv'
<1> USE StoreConstants DEF CacheInv, FenceHolds, Busy, GetMiss, Start, RedisFault, TkSpend
<1>t. calls[p] \in Calls /\ calls[p].blob \in Blobs \cup {Absent} /\ calls[p].ver \in Blobs \cup {Absent} /\ calls[p].live \in BOOLEAN
  BY CallType DEF TkTypeOK
<1>c. calls' \in [Procs -> Calls] /\ \A q \in Procs \ {p} : calls'[q] = calls[q]
  BY <1>t, CallStep DEF VersionsOrdered, TkTypeOK, Calls, Blobs
<1>o. calls'[p].at = "pg"
  BY <1>t DEF TkTypeOK, VersionsOrdered, Carrying, Blobs, Calls
<1>1. TkTypeOK'
  <2>1. tkBudget' \in TkScenario
    BY <1>t, <1>c, <1>o DEF TkTypeOK, Blobs, TkScenario, VersionsOrdered, Carrying
  <2> QED BY <1>t, <1>c, <1>o, <2>1 DEF TkTypeOK
<1>2. NextWriteLands'
  BY <1>t, <1>c, <1>o DEF NextWriteLands, VersionsOrdered, Carrying, TkTypeOK, Blobs
<1>3. VersionsOrdered'
  BY <1>t, <1>c, <1>o DEF VersionsOrdered, TkTypeOK, Carrying, Blobs
<1>4. ~unfenced' => Fenced'
  <2> SUFFICES ASSUME ~unfenced' PROVE Fenced'
    OBVIOUS
  <2>1. ~unfenced /\ Fenced
    BY <1>t, <1>c, <1>o DEF VersionsOrdered, Carrying
  <2>2. NumberedByWrite'
    BY <2>1, <1>t, <1>c, <1>o DEF Fenced, NumberedByWrite, VersionsOrdered, Ordered, Carrying, TkTypeOK, Blobs
  <2>3. Ordered'
    BY <2>1, <1>t, <1>c, <1>o DEF Fenced, NumberedByWrite, VersionsOrdered, Ordered, Arriving, Carrying, InFlight, Lapsed, TkTypeOK, Blobs
  <2>4. Arriving'
    BY <2>1, <1>t, <1>c, <1>o DEF Fenced, NumberedByWrite, VersionsOrdered, Ordered, Arriving, Closing, Closed, Carrying, InFlight, Lapsed, TkTypeOK, Blobs
  <2>5. Closing'
    BY <2>1, <1>t, <1>c, <1>o DEF Fenced, NumberedByWrite, VersionsOrdered, Ordered, Arriving, Closing, Closed, Carrying, InFlight, Lapsed, TkTypeOK, Blobs
  <2> QED BY <2>2, <2>3, <2>4, <2>5 DEF Fenced
<1> QED BY <1>1, <1>2, <1>3, <1>4

\* What Postgres answers a get: the row, hidden, or nothing.
LEMMA GetPgInv ==
    ASSUME CacheInv, NEW p \in Procs, GetPg(p)
    PROVE  CacheInv'
<1> USE StoreConstants DEF CacheInv, FenceHolds, Busy, GetPg, Start, Return, Served, TkIdle
<1>t. /\ calls[p] \in Calls /\ calls[p].blob \in Blobs \cup {Absent}
      /\ calls[p].ver \in Blobs \cup {Absent} /\ calls[p].live \in BOOLEAN
  BY CallType DEF TkTypeOK
<1>r. \E r \in Calls : /\ calls' = [calls EXCEPT ![p] = r]
                       /\ \/ r.at = "idle" /\ r.blob = Absent
                          \/ /\ row # Absent /\ row.live /\ UNCHANGED served
                             /\ r.at = "fill" /\ r.blob = row.blob /\ r.ver = row.ver /\ r.live = TRUE
  <2>a. CASE row # Absent /\ row.live
    <3>1. [calls[p] EXCEPT !.at = "fill", !.blob = row.blob, !.ver = row.ver, !.live = TRUE] \in Calls
      BY <1>t, <2>a DEF TkTypeOK, Calls
    <3> QED BY <1>t, <2>a, <3>1 DEF Calls
  <2>b. CASE ~(row # Absent /\ row.live)
    BY <2>b, CallForms
  <2> QED BY <2>a, <2>b
<1>c. calls' \in [Procs -> Calls] /\ \A q \in Procs \ {p} : calls'[q] = calls[q]
  BY <1>r, CallStep
<1>o. \/ calls'[p].at = "idle" /\ calls'[p].blob = Absent
      \/ /\ row # Absent /\ row.live /\ UNCHANGED served
         /\ calls'[p].at = "fill" /\ calls'[p].blob = row.blob /\ calls'[p].ver = row.ver /\ calls'[p].live = TRUE
  BY <1>r, CallStep
<1>1. TkTypeOK'
  <2>1. served' \in Blobs \cup {0}
    BY <1>t, <1>c, <1>o DEF TkTypeOK, Blobs, TkScenario, VersionsOrdered, Carrying
  <2> QED BY <1>t, <1>c, <1>o, <2>1 DEF TkTypeOK
<1>2. NextWriteLands'
  BY <1>t, <1>c, <1>o DEF NextWriteLands, VersionsOrdered, Carrying, TkTypeOK, Blobs
<1>3. VersionsOrdered'
  BY <1>t, <1>c, <1>o DEF VersionsOrdered, TkTypeOK, Carrying, Blobs
<1>4. ~unfenced' => Fenced'
  <2> SUFFICES ASSUME ~unfenced' PROVE Fenced'
    OBVIOUS
  <2>1. ~unfenced /\ Fenced
    BY <1>t, <1>c, <1>o DEF VersionsOrdered, Carrying
  <2>2. NumberedByWrite'
    BY <2>1, <1>t, <1>c, <1>o DEF Fenced, NumberedByWrite, VersionsOrdered, Ordered, Carrying, TkTypeOK, Blobs
  <2>3. Ordered'
    BY <2>1, <1>t, <1>c, <1>o DEF Fenced, NumberedByWrite, VersionsOrdered, Ordered, Arriving, Carrying, InFlight, Lapsed, TkTypeOK, Blobs
  <2>4. Arriving'
    BY <2>1, <1>t, <1>c, <1>o DEF Fenced, NumberedByWrite, VersionsOrdered, Ordered, Arriving, Closing, Closed, Carrying, InFlight, Lapsed, TkTypeOK, Blobs
  <2>5. Closing'
    BY <2>1, <1>t, <1>c, <1>o DEF Fenced, NumberedByWrite, VersionsOrdered, Ordered, Arriving, Closing, Closed, Carrying, InFlight, Lapsed, TkTypeOK, Blobs
  <2> QED BY <2>2, <2>3, <2>4, <2>5 DEF Fenced
<1> QED BY <1>1, <1>2, <1>3, <1>4

\* A fill that reaches Redis passes the fence; one that does not opens it.
LEMMA FillInv ==
    ASSUME CacheInv, NEW p \in Procs, Fill(p)
    PROVE  CacheInv'
<1> USE StoreConstants DEF CacheInv, FenceHolds, Busy, Served, SetIfNewer, RedisFault, TkSpend, Fill
<1>t. /\ calls[p] \in Calls /\ calls[p].blob \in Blobs \cup {Absent}
      /\ calls[p].ver \in Blobs \cup {Absent} /\ calls[p].live \in BOOLEAN
  BY CallType DEF TkTypeOK
<1>v. calls[p].blob \in Blobs /\ calls[p].ver \in Blobs
  BY DEF VersionsOrdered, Carrying
<1>r. \E r \in Calls : /\ calls' = [calls EXCEPT ![p] = r]
                       /\ \/ /\ r.at = "idle" /\ r.blob = Absent /\ UNCHANGED <<tkBudget, unfenced>> /\ Served(calls[p].blob)
                             /\ SetIfNewer(calls[p].blob, calls[p].ver, calls[p].live)
                          \/ /\ r.at = "drop" /\ r.blob = calls[p].blob /\ unfenced' = TRUE /\ UNCHANGED <<cache, served>> /\ RedisFault
  <2>1. /\ [calls[p] EXCEPT !.at = "drop"] \in Calls /\ [calls[p] EXCEPT !.at = "drop"].at = "drop"
        /\ [calls[p] EXCEPT !.at = "drop"].blob = calls[p].blob
    BY <1>t DEF Calls
  <2>2. TkIdle \in Calls /\ TkIdle.at = "idle" /\ TkIdle.blob = Absent
    BY CallForms DEF TkIdle, Start
  <2>3. [calls EXCEPT ![p].at = "drop"] = [calls EXCEPT ![p] = [calls[p] EXCEPT !.at = "drop"]]
    OBVIOUS
  <2> QED BY <2>1, <2>2, <2>3 DEF Fill, Return, TkGo
<1>c. calls' \in [Procs -> Calls] /\ \A q \in Procs \ {p} : calls'[q] = calls[q]
  BY <1>r, CallStep
<1>o. \/ /\ calls'[p].at = "idle" /\ calls'[p].blob = Absent /\ UNCHANGED <<tkBudget, unfenced>> /\ Served(calls[p].blob)
         /\ SetIfNewer(calls[p].blob, calls[p].ver, calls[p].live)
      \/ /\ calls'[p].at = "drop" /\ calls'[p].blob = calls[p].blob /\ unfenced' = TRUE /\ UNCHANGED <<cache, served>> /\ RedisFault
  BY <1>r, CallStep
<1>u. UNCHANGED <<row, tkWrites, gone, reborn>> /\ Carrying(p, "fill")
  BY DEF Fill, Carrying
<1>n. [ver |-> calls[p].ver, blob |-> calls[p].blob] # Absent
  BY <1>v, Present
<1> HIDE DEF Fill
<1>1. TkTypeOK'
  <2>1. cache' \in [ver : Blobs, blob : Blobs \cup {Absent}] \cup {Absent}
    BY <1>t, <1>c, <1>o, <1>v, <1>u, <1>n DEF TkTypeOK, Blobs, TkScenario, VersionsOrdered, Carrying
  <2>2. tkBudget' \in TkScenario
    BY <1>t, <1>c, <1>o, <1>v, <1>u, <1>n DEF TkTypeOK, Blobs, TkScenario, VersionsOrdered, Carrying
  <2>3. served' \in Blobs \cup {0}
    BY <1>t, <1>c, <1>o, <1>v, <1>u, <1>n DEF TkTypeOK, Blobs, TkScenario, VersionsOrdered, Carrying
  <2>4. unfenced' \in BOOLEAN
    BY <1>t, <1>c, <1>o, <1>v, <1>u, <1>n DEF TkTypeOK, Blobs, TkScenario, VersionsOrdered, Carrying
  <2> QED BY <1>t, <1>c, <1>o, <1>v, <1>u, <1>n, <2>1, <2>2, <2>3, <2>4 DEF TkTypeOK
<1>2. NextWriteLands'
  BY <1>t, <1>c, <1>o, <1>v, <1>u, <1>n DEF NextWriteLands, VersionsOrdered, Carrying, TkTypeOK, Blobs
<1>3. VersionsOrdered'
  BY <1>t, <1>c, <1>o, <1>v, <1>u, <1>n DEF VersionsOrdered, TkTypeOK, Carrying, Blobs
<1>4. ~unfenced' => Fenced'
  <2> SUFFICES ASSUME ~unfenced' PROVE Fenced'
    OBVIOUS
  <2>1. ~unfenced /\ Fenced
    BY <1>t, <1>c, <1>o, <1>v, <1>u, <1>n DEF VersionsOrdered, Carrying
  <2>2. NumberedByWrite'
    BY <2>1, <1>t, <1>c, <1>o, <1>v, <1>u, <1>n DEF Fenced, NumberedByWrite, VersionsOrdered, Ordered, Carrying, TkTypeOK, Blobs
  <2>3. Ordered'
    BY <2>1, <1>t, <1>c, <1>o, <1>v, <1>u, <1>n DEF Fenced, NumberedByWrite, VersionsOrdered, Ordered, Arriving, Carrying, InFlight, Lapsed, TkTypeOK, Blobs
  <2>4. Arriving'
    BY <2>1, <1>t, <1>c, <1>o, <1>v, <1>u, <1>n DEF Fenced, NumberedByWrite, VersionsOrdered, Ordered, Arriving, Closing, Closed, Carrying, InFlight, Lapsed, TkTypeOK, Blobs
  <2>5. Closing'
    BY <2>1, <1>t, <1>c, <1>o, <1>v, <1>u, <1>n DEF Fenced, NumberedByWrite, VersionsOrdered, Ordered, Arriving, Closing, Closed, Carrying, InFlight, Lapsed, TkTypeOK, Blobs
  <2> QED BY <2>2, <2>3, <2>4, <2>5 DEF Fenced
<1> QED BY <1>1, <1>2, <1>3, <1>4

\* A drop happens only once the fence was gone around.
LEMMA DropInv ==
    ASSUME CacheInv, NEW p \in Procs, Drop(p)
    PROVE  CacheInv'
<1> USE StoreConstants DEF CacheInv, FenceHolds, Busy, Drop, Return, Served, TkIdle, RedisFault, TkSpend, Start
<1>t. calls[p] \in Calls /\ calls[p].blob \in Blobs \cup {Absent} /\ calls[p].ver \in Blobs \cup {Absent} /\ calls[p].live \in BOOLEAN
  BY CallType DEF TkTypeOK
<1>c. calls' \in [Procs -> Calls] /\ \A q \in Procs \ {p} : calls'[q] = calls[q]
  BY <1>t, CallStep DEF VersionsOrdered, TkTypeOK, Calls, Blobs
<1>o. calls'[p].at = "idle"
  BY <1>t DEF TkTypeOK, VersionsOrdered, Carrying, Blobs, Calls
<1>1. TkTypeOK'
  <2>1. cache' \in [ver : Blobs, blob : Blobs \cup {Absent}] \cup {Absent}
    BY <1>t, <1>c, <1>o DEF TkTypeOK, Blobs, TkScenario, VersionsOrdered, Carrying
  <2>2. tkBudget' \in TkScenario
    BY <1>t, <1>c, <1>o DEF TkTypeOK, Blobs, TkScenario, VersionsOrdered, Carrying
  <2>3. served' \in Blobs \cup {0}
    BY <1>t, <1>c, <1>o DEF TkTypeOK, Blobs, TkScenario, VersionsOrdered, Carrying
  <2>4. gone' \in BOOLEAN
    BY <1>t, <1>c, <1>o DEF TkTypeOK, Blobs, TkScenario, VersionsOrdered, Carrying
  <2> QED BY <1>t, <1>c, <1>o, <2>1, <2>2, <2>3, <2>4 DEF TkTypeOK
<1>2. NextWriteLands'
  BY <1>t, <1>c, <1>o DEF NextWriteLands, VersionsOrdered, Carrying, TkTypeOK, Blobs
<1>3. VersionsOrdered'
  BY <1>t, <1>c, <1>o DEF VersionsOrdered, TkTypeOK, Carrying, Blobs
<1>4. ~unfenced' => Fenced'
  <2> SUFFICES ASSUME ~unfenced' PROVE Fenced'
    OBVIOUS
  <2>1. ~unfenced /\ Fenced
    BY <1>t, <1>c, <1>o DEF VersionsOrdered, Carrying
  <2>2. NumberedByWrite'
    BY <2>1, <1>t, <1>c, <1>o DEF Fenced, NumberedByWrite, VersionsOrdered, Ordered, Carrying, TkTypeOK, Blobs
  <2>3. Ordered'
    BY <2>1, <1>t, <1>c, <1>o DEF Fenced, NumberedByWrite, VersionsOrdered, Ordered, Arriving, Carrying, InFlight, Lapsed, TkTypeOK, Blobs
  <2>4. Arriving'
    BY <2>1, <1>t, <1>c, <1>o DEF Fenced, NumberedByWrite, VersionsOrdered, Ordered, Arriving, Closing, Closed, Carrying, InFlight, Lapsed, TkTypeOK, Blobs
  <2>5. Closing'
    BY <2>1, <1>t, <1>c, <1>o DEF Fenced, NumberedByWrite, VersionsOrdered, Ordered, Arriving, Closing, Closed, Carrying, InFlight, Lapsed, TkTypeOK, Blobs
  <2> QED BY <2>2, <2>3, <2>4, <2>5 DEF Fenced
<1> QED BY <1>1, <1>2, <1>3, <1>4

\* The first write.
LEMMA CreateInv ==
    ASSUME CacheInv, NEW p \in Procs, Create(p)
    PROVE  CacheInv'
<1> USE StoreConstants DEF CacheInv, FenceHolds, Busy, Create, Written, Start
<1>t. /\ calls[p] \in Calls /\ calls[p].blob \in Blobs \cup {Absent}
      /\ calls[p].ver \in Blobs \cup {Absent} /\ calls[p].live \in BOOLEAN
  BY CallType DEF TkTypeOK
<1>b. tkWrites + 1 \in Blobs /\ 1 \in Blobs
  BY DEF TkTypeOK, Blobs, VersionsOrdered, Written
<1>r. \E r \in Calls : /\ calls' = [calls EXCEPT ![p] = r]
                       /\ r.at = "fill" /\ r.blob = tkWrites + 1 /\ r.ver = 1 /\ r.live = TRUE
  <2> DEFINE r == [Start("fill") EXCEPT !.blob = tkWrites + 1, !.ver = 1]
  <2>1. r \in Calls /\ r.at = "fill" /\ r.blob = tkWrites + 1 /\ r.ver = 1 /\ r.live = TRUE
    BY <1>b DEF Calls, Start
  <2> QED BY <2>1 DEF Create, Written
<1>c. calls' \in [Procs -> Calls] /\ \A q \in Procs \ {p} : calls'[q] = calls[q]
  BY <1>r, CallStep
<1>o. calls'[p].at = "fill" /\ calls'[p].blob = tkWrites + 1 /\ calls'[p].ver = 1 /\ calls'[p].live = TRUE
  BY <1>r, CallStep
<1>u. /\ tkWrites' = tkWrites + 1
      /\ row' = [blob |-> tkWrites + 1, ver |-> 1, live |-> TRUE] /\ row' # Absent
      /\ UNCHANGED <<cache, tkBudget, served, gone, unfenced, reborn>> /\ tkWrites = 0 /\ Carrying(p, "idle")
  BY <1>b, Present DEF Create, Written, Carrying
<1> HIDE DEF Create
<1>y. \A q \in Procs : calls[q].blob \in Blobs \cup {Absent} /\ calls[q].ver \in Blobs \cup {Absent}
  BY CallType
<1>z. row = Absent /\ cache = Absent /\ \A q \in Procs : calls[q].at \in {"idle", "pg"}
  BY <1>u DEF VersionsOrdered
<1>1. TkTypeOK'
  <2>1. row' \in [blob : Blobs, ver : Blobs, live : BOOLEAN] \cup {Absent}
    BY <1>t, <1>c, <1>o, <1>b, <1>u DEF TkTypeOK, Blobs, TkScenario, VersionsOrdered, Carrying
  <2>2. tkWrites' \in 0 .. MaxWrites
    BY <1>t, <1>c, <1>o, <1>b, <1>u DEF TkTypeOK, Blobs, TkScenario, VersionsOrdered, Carrying
  <2> QED BY <1>t, <1>c, <1>o, <1>b, <1>u, <2>1, <2>2 DEF TkTypeOK
<1>2. NextWriteLands'
  BY <1>y, <1>t, <1>c, <1>o, <1>b, <1>u DEF NextWriteLands, VersionsOrdered, Carrying, TkTypeOK, Blobs
<1>3. VersionsOrdered'
  BY <1>y, <1>t, <1>c, <1>o, <1>b, <1>u DEF VersionsOrdered, TkTypeOK, Carrying, Blobs
<1>4. ~unfenced' => Fenced'
  <2> SUFFICES ASSUME ~unfenced' PROVE Fenced'
    OBVIOUS
  <2>1. ~unfenced /\ Fenced
    BY <1>y, <1>t, <1>c, <1>o, <1>b, <1>u DEF VersionsOrdered, Carrying
  <2>2. NumberedByWrite'
    BY <2>1, <1>z, <1>y, <1>t, <1>c, <1>o, <1>b, <1>u DEF Fenced, NumberedByWrite, VersionsOrdered, Ordered, Carrying, TkTypeOK, Blobs
  <2>3. Ordered'
    BY <2>1, <1>z, <1>y, <1>t, <1>c, <1>o, <1>b, <1>u DEF Fenced, NumberedByWrite, VersionsOrdered, Ordered, Arriving, Carrying, InFlight, Lapsed, TkTypeOK, Blobs
  <2>4. Arriving'
    BY <2>1, <1>z, <1>y, <1>t, <1>c, <1>o, <1>b, <1>u DEF Fenced, NumberedByWrite, VersionsOrdered, Ordered, Arriving, Closing, Closed, Carrying, InFlight, Lapsed, TkTypeOK, Blobs
  <2>5. Closing'
    BY <2>1, <1>z, <1>y, <1>t, <1>c, <1>o, <1>b, <1>u DEF Fenced, NumberedByWrite, VersionsOrdered, Ordered, Arriving, Closing, Closed, Carrying, InFlight, Lapsed, TkTypeOK, Blobs
  <2> QED BY <2>2, <2>3, <2>4, <2>5 DEF Fenced
<1> QED BY <1>1, <1>2, <1>3, <1>4

\* A later write outranks everything in flight.
LEMMA PutCasInv ==
    ASSUME CacheInv, NEW p \in Procs, PutCas(p)
    PROVE  CacheInv'
<1> USE StoreConstants DEF CacheInv, FenceHolds, Busy, PutCas, Written, Start
<1>t. /\ calls[p] \in Calls /\ calls[p].blob \in Blobs \cup {Absent}
      /\ calls[p].ver \in Blobs \cup {Absent} /\ calls[p].live \in BOOLEAN
  BY CallType DEF TkTypeOK
<1>b. tkWrites + 1 \in Blobs /\ row.ver + 1 \in Blobs
  BY DEF TkTypeOK, Blobs, VersionsOrdered, Written
<1>r. \E r \in Calls : /\ calls' = [calls EXCEPT ![p] = r]
                       /\ r.at = "fill" /\ r.blob = tkWrites + 1 /\ r.ver = row.ver + 1 /\ r.live = TRUE
  <2> DEFINE r == [Start("fill") EXCEPT !.blob = tkWrites + 1, !.ver = row.ver + 1]
  <2>1. r \in Calls /\ r.at = "fill" /\ r.blob = tkWrites + 1 /\ r.ver = row.ver + 1 /\ r.live = TRUE
    BY <1>b DEF Calls, Start
  <2> QED BY <2>1 DEF PutCas, Written
<1>c. calls' \in [Procs -> Calls] /\ \A q \in Procs \ {p} : calls'[q] = calls[q]
  BY <1>r, CallStep
<1>o. calls'[p].at = "fill" /\ calls'[p].blob = tkWrites + 1 /\ calls'[p].ver = row.ver + 1 /\ calls'[p].live = TRUE
  BY <1>r, CallStep
<1>u. /\ tkWrites' = tkWrites + 1
      /\ row' = [blob |-> tkWrites + 1, ver |-> row.ver + 1, live |-> TRUE] /\ row' # Absent
      /\ UNCHANGED <<cache, tkBudget, served, gone, unfenced, reborn>> /\ row # Absent /\ Carrying(p, "idle")
  BY <1>b, Present DEF PutCas, Written, Carrying
<1> HIDE DEF PutCas
<1>y. \A q \in Procs : calls[q].blob \in Blobs \cup {Absent} /\ calls[q].ver \in Blobs \cup {Absent}
  BY CallType
<1>1. TkTypeOK'
  <2>1. row' \in [blob : Blobs, ver : Blobs, live : BOOLEAN] \cup {Absent}
    BY <1>t, <1>c, <1>o, <1>b, <1>u DEF TkTypeOK, Blobs, TkScenario, VersionsOrdered, Carrying
  <2>2. tkWrites' \in 0 .. MaxWrites
    BY <1>t, <1>c, <1>o, <1>b, <1>u DEF TkTypeOK, Blobs, TkScenario, VersionsOrdered, Carrying
  <2> QED BY <1>t, <1>c, <1>o, <1>b, <1>u, <2>1, <2>2 DEF TkTypeOK
<1>2. NextWriteLands'
  BY <1>y, <1>t, <1>c, <1>o, <1>b, <1>u DEF NextWriteLands, VersionsOrdered, Carrying, TkTypeOK, Blobs
<1>3. VersionsOrdered'
  BY <1>y, <1>t, <1>c, <1>o, <1>b, <1>u DEF VersionsOrdered, TkTypeOK, Carrying, Blobs
<1>4. ~unfenced' => Fenced'
  <2> SUFFICES ASSUME ~unfenced' PROVE Fenced'
    OBVIOUS
  <2>1. ~unfenced /\ Fenced
    BY <1>y, <1>t, <1>c, <1>o, <1>b, <1>u DEF VersionsOrdered, Carrying
  <2>2. NumberedByWrite'
    BY <2>1, <1>y, <1>t, <1>c, <1>o, <1>b, <1>u DEF Fenced, NumberedByWrite, VersionsOrdered, Ordered, Carrying, TkTypeOK, Blobs
  <2>3. Ordered'
    BY <2>1, <1>y, <1>t, <1>c, <1>o, <1>b, <1>u DEF Fenced, NumberedByWrite, VersionsOrdered, Ordered, Arriving, Carrying, InFlight, Lapsed, TkTypeOK, Blobs
  <2>4. Arriving'
    BY <2>1, <1>y, <1>t, <1>c, <1>o, <1>b, <1>u DEF Fenced, NumberedByWrite, VersionsOrdered, Ordered, Arriving, Closing, Closed, Carrying, InFlight, Lapsed, TkTypeOK, Blobs
  <2>5. Closing'
    BY <2>1, <1>y, <1>t, <1>c, <1>o, <1>b, <1>u DEF Fenced, NumberedByWrite, VersionsOrdered, Ordered, Arriving, Closing, Closed, Carrying, InFlight, Lapsed, TkTypeOK, Blobs
  <2> QED BY <2>2, <2>3, <2>4, <2>5 DEF Fenced
<1> QED BY <1>1, <1>2, <1>3, <1>4

\* The row goes and its delete carries the last version.
LEMMA DeletePgInv ==
    ASSUME CacheInv, NEW p \in Procs, DeletePg(p)
    PROVE  CacheInv'
<1> USE StoreConstants DEF CacheInv, FenceHolds, Busy, DeletePg, Start, TkSpend
<1>t. calls[p] \in Calls /\ calls[p].blob \in Blobs \cup {Absent} /\ calls[p].ver \in Blobs \cup {Absent} /\ calls[p].live \in BOOLEAN
  BY CallType DEF TkTypeOK
<1>v. (IF row = Absent THEN Absent ELSE row.ver) \in Blobs \cup {Absent}
  BY DEF TkTypeOK
<1>r. [Start("tomb") EXCEPT !.ver = IF row = Absent THEN Absent ELSE row.ver] \in Calls
  BY <1>v DEF Calls
<1>c. calls' \in [Procs -> Calls] /\ \A q \in Procs \ {p} : calls'[q] = calls[q]
  BY <1>r, CallStep
<1>o. calls'[p].at = "tomb" /\ calls'[p].ver = (IF row = Absent THEN Absent ELSE row.ver)
  BY <1>t DEF TkTypeOK, VersionsOrdered, Carrying, Blobs, Calls
<1>1. TkTypeOK'
  <2>1. tkBudget' \in TkScenario
    BY <1>t, <1>c, <1>o DEF TkTypeOK, Blobs, TkScenario, VersionsOrdered, Carrying
  <2> QED BY <1>t, <1>c, <1>o, <2>1 DEF TkTypeOK
<1>2. NextWriteLands'
  BY <1>t, <1>c, <1>o DEF NextWriteLands, VersionsOrdered, Carrying, TkTypeOK, Blobs
<1>3. VersionsOrdered'
  BY <1>t, <1>c, <1>o DEF VersionsOrdered, TkTypeOK, Carrying, Blobs
<1>4. ~unfenced' => Fenced'
  <2> SUFFICES ASSUME ~unfenced' PROVE Fenced'
    OBVIOUS
  <2>1. ~unfenced /\ Fenced
    BY <1>t, <1>c, <1>o DEF VersionsOrdered, Carrying
  <2>2. NumberedByWrite'
    BY <2>1, <1>t, <1>c, <1>o DEF Fenced, NumberedByWrite, VersionsOrdered, Ordered, Carrying, TkTypeOK, Blobs
  <2>3. Ordered'
    BY <2>1, <1>t, <1>c, <1>o DEF Fenced, NumberedByWrite, VersionsOrdered, Ordered, Arriving, Carrying, InFlight, Lapsed, TkTypeOK, Blobs
  <2>4. Arriving'
    BY <2>1, <1>t, <1>c, <1>o DEF Fenced, NumberedByWrite, VersionsOrdered, Ordered, Arriving, Closing, Closed, Carrying, InFlight, Lapsed, TkTypeOK, Blobs
  <2>5. Closing'
    BY <2>1, <1>t, <1>c, <1>o DEF Fenced, NumberedByWrite, VersionsOrdered, Ordered, Arriving, Closing, Closed, Carrying, InFlight, Lapsed, TkTypeOK, Blobs
  <2> QED BY <2>2, <2>3, <2>4, <2>5 DEF Fenced
<1> QED BY <1>1, <1>2, <1>3, <1>4

\* The tombstone outranks every late fill.
LEMMA DeleteCacheInv ==
    ASSUME CacheInv, NEW p \in Procs, DeleteCache(p)
    PROVE  CacheInv'
<1> USE StoreConstants DEF CacheInv, FenceHolds, Busy, Tombstone, RedisFault, TkSpend, DeleteCache
<1>t. /\ calls[p] \in Calls /\ calls[p].blob \in Blobs \cup {Absent}
      /\ calls[p].ver \in Blobs \cup {Absent} /\ calls[p].live \in BOOLEAN
  BY CallType DEF TkTypeOK
<1>r. \E r \in Calls : /\ calls' = [calls EXCEPT ![p] = r]
                       /\ \/ /\ r.at = "idle" /\ r.blob = Absent /\ gone' = TRUE /\ UNCHANGED tkBudget
                             /\ IF calls[p].ver = Absent THEN cache' = Absent ELSE Tombstone(calls[p].ver)
                             /\ unfenced' = (unfenced \/ calls[p].ver = Absent)
                          \/ /\ r.at = "drop" /\ r.blob = calls[p].blob /\ unfenced' = TRUE /\ UNCHANGED <<cache, gone>> /\ RedisFault
  <2>1. /\ [calls[p] EXCEPT !.at = "drop"] \in Calls /\ [calls[p] EXCEPT !.at = "drop"].at = "drop"
        /\ [calls[p] EXCEPT !.at = "drop"].blob = calls[p].blob
    BY <1>t DEF Calls
  <2>2. TkIdle \in Calls /\ TkIdle.at = "idle" /\ TkIdle.blob = Absent
    BY CallForms DEF TkIdle, Start
  <2>3. [calls EXCEPT ![p].at = "drop"] = [calls EXCEPT ![p] = [calls[p] EXCEPT !.at = "drop"]]
    OBVIOUS
  <2> QED BY <2>1, <2>2, <2>3 DEF DeleteCache, Return, TkGo
<1>c. calls' \in [Procs -> Calls] /\ \A q \in Procs \ {p} : calls'[q] = calls[q]
  BY <1>r, CallStep
<1>o. \/ /\ calls'[p].at = "idle" /\ calls'[p].blob = Absent /\ gone' = TRUE /\ UNCHANGED tkBudget
         /\ IF calls[p].ver = Absent THEN cache' = Absent ELSE Tombstone(calls[p].ver)
         /\ unfenced' = (unfenced \/ calls[p].ver = Absent)
      \/ /\ calls'[p].at = "drop" /\ calls'[p].blob = calls[p].blob /\ unfenced' = TRUE /\ UNCHANGED <<cache, gone>> /\ RedisFault
  BY <1>r, CallStep
<1>u. UNCHANGED <<row, tkWrites, served, reborn>> /\ Carrying(p, "tomb")
  BY DEF DeleteCache, Carrying
<1>n. \A v \in Blobs : [ver |-> v, blob |-> Absent] # Absent
  BY Present
<1> HIDE DEF DeleteCache
<1>1. TkTypeOK'
  <2>1. cache' \in [ver : Blobs, blob : Blobs \cup {Absent}] \cup {Absent}
    BY <1>t, <1>c, <1>o, <1>u, <1>n DEF TkTypeOK, Blobs, TkScenario, VersionsOrdered, Carrying
  <2>2. tkBudget' \in TkScenario
    BY <1>t, <1>c, <1>o, <1>u, <1>n DEF TkTypeOK, Blobs, TkScenario, VersionsOrdered, Carrying
  <2>3. gone' \in BOOLEAN
    BY <1>t, <1>c, <1>o, <1>u, <1>n DEF TkTypeOK, Blobs, TkScenario, VersionsOrdered, Carrying
  <2>4. unfenced' \in BOOLEAN
    BY <1>t, <1>c, <1>o, <1>u, <1>n DEF TkTypeOK, Blobs, TkScenario, VersionsOrdered, Carrying
  <2> QED BY <1>t, <1>c, <1>o, <1>u, <1>n, <2>1, <2>2, <2>3, <2>4 DEF TkTypeOK
<1>2. NextWriteLands'
  BY <1>t, <1>c, <1>o, <1>u, <1>n DEF NextWriteLands, VersionsOrdered, Carrying, TkTypeOK, Blobs
<1>3. VersionsOrdered'
  BY <1>t, <1>c, <1>o, <1>u, <1>n DEF VersionsOrdered, TkTypeOK, Carrying, Blobs
<1>4. ~unfenced' => Fenced'
  <2> SUFFICES ASSUME ~unfenced' PROVE Fenced'
    OBVIOUS
  <2>1. ~unfenced /\ Fenced
    BY <1>t, <1>c, <1>o, <1>u, <1>n DEF VersionsOrdered, Carrying
  <2>z. /\ row = Absent /\ tkWrites \in Blobs /\ calls'[p].at = "idle"
        /\ cache' = [ver |-> tkWrites, blob |-> Absent] /\ cache' # Absent
    <3>1. calls[p].ver = tkWrites /\ row = Absent /\ calls'[p].at = "idle"
      BY <2>1, <1>t, <1>o, <1>u DEF Fenced, NumberedByWrite
    <3>2. tkWrites \in Blobs /\ (cache # Absent => ~(cache.ver > tkWrites))
      BY <2>1, <3>1, <1>t, <1>o, <1>u, StoreConstants DEF Fenced, NumberedByWrite, TkTypeOK, Blobs
    <3> QED BY <2>1, <3>1, <3>2, <1>o, <1>n, StoreConstants DEF Tombstone
  <2>2. NumberedByWrite'
    BY <2>1, <2>z, <1>t, <1>c, <1>o, <1>u, <1>n DEF Fenced, NumberedByWrite, VersionsOrdered, Ordered, Carrying, TkTypeOK, Blobs
  <2>3. Ordered'
    BY <2>1, <2>z, <1>t, <1>c, <1>o, <1>u, <1>n DEF Fenced, NumberedByWrite, VersionsOrdered, Ordered, Arriving, Carrying, InFlight, Lapsed, TkTypeOK, Blobs
  <2>4. Arriving'
    BY <2>1, <2>z, <1>t, <1>c, <1>o, <1>u, <1>n DEF Fenced, NumberedByWrite, VersionsOrdered, Ordered, Arriving, Closing, Closed, Carrying, InFlight, Lapsed, TkTypeOK, Blobs
  <2>5. Closing'
    BY <2>1, <2>z, <1>t, <1>c, <1>o, <1>u, <1>n DEF Fenced, NumberedByWrite, VersionsOrdered, Ordered, Arriving, Closing, Closed, Carrying, InFlight, Lapsed, TkTypeOK, Blobs
  <2> QED BY <2>2, <2>3, <2>4, <2>5 DEF Fenced
<1> QED BY <1>1, <1>2, <1>3, <1>4

\* An import goes around the fence.
LEMMA RestorePgInv ==
    ASSUME CacheInv, NEW p \in Procs, RestorePg(p)
    PROVE  CacheInv'
<1> USE StoreConstants DEF CacheInv, FenceHolds, Busy, RestorePg, Written, Start, TkSpend
<1>t. /\ calls[p] \in Calls /\ calls[p].blob \in Blobs \cup {Absent}
      /\ calls[p].ver \in Blobs \cup {Absent} /\ calls[p].live \in BOOLEAN
  BY CallType DEF TkTypeOK
<1>b. tkWrites + 1 \in Blobs /\ (IF row = Absent THEN 1 ELSE row.ver + 1) \in Blobs
  BY DEF TkTypeOK, Blobs, VersionsOrdered, Written
<1>r. \E r \in Calls : /\ calls' = [calls EXCEPT ![p] = r]
                       /\ r.at = "wipe" /\ r.blob = tkWrites + 1 /\ r.ver = (IF row = Absent THEN 1 ELSE row.ver + 1) /\ r.live = TRUE
  <2> DEFINE r == [Start("wipe") EXCEPT !.blob = tkWrites + 1, !.ver = (IF row = Absent THEN 1 ELSE row.ver + 1)]
  <2>1. r \in Calls /\ r.at = "wipe" /\ r.blob = tkWrites + 1 /\ r.ver = (IF row = Absent THEN 1 ELSE row.ver + 1) /\ r.live = TRUE
    BY <1>b DEF Calls, Start
  <2> QED BY <2>1 DEF RestorePg, Written
<1>c. calls' \in [Procs -> Calls] /\ \A q \in Procs \ {p} : calls'[q] = calls[q]
  BY <1>r, CallStep
<1>o. calls'[p].at = "wipe" /\ calls'[p].blob = tkWrites + 1 /\ calls'[p].ver = (IF row = Absent THEN 1 ELSE row.ver + 1) /\ calls'[p].live = TRUE
  BY <1>r, CallStep
<1>u. /\ tkWrites' = tkWrites + 1
      /\ row' = [blob |-> tkWrites + 1, ver |-> (IF row = Absent THEN 1 ELSE row.ver + 1), live |-> TRUE] /\ row' # Absent
      /\ gone' = FALSE /\ unfenced' = TRUE /\ reborn' = (reborn \/ row = Absent) /\ TkSpend("restores")
      /\ UNCHANGED <<cache, served>>
  BY <1>b, Present DEF RestorePg, Written
<1> HIDE DEF RestorePg
<1>y. \A q \in Procs : calls[q].blob \in Blobs \cup {Absent} /\ calls[q].ver \in Blobs \cup {Absent}
  BY CallType
<1>e. ~reborn' => ~reborn /\ row # Absent
  BY <1>u
<1>1. TkTypeOK'
  <2>1. row' \in [blob : Blobs, ver : Blobs, live : BOOLEAN] \cup {Absent}
    BY <1>t, <1>c, <1>o, <1>b, <1>u DEF TkTypeOK, Blobs, TkScenario, VersionsOrdered, Carrying
  <2>2. tkWrites' \in 0 .. MaxWrites
    BY <1>t, <1>c, <1>o, <1>b, <1>u DEF TkTypeOK, Blobs, TkScenario, VersionsOrdered, Carrying
  <2>3. tkBudget' \in TkScenario
    BY <1>t, <1>c, <1>o, <1>b, <1>u DEF TkTypeOK, Blobs, TkScenario, VersionsOrdered, Carrying
  <2>4. reborn' \in BOOLEAN
    BY <1>t, <1>c, <1>o, <1>b, <1>u DEF TkTypeOK, Blobs, TkScenario, VersionsOrdered, Carrying
  <2> QED BY <1>t, <1>c, <1>o, <1>b, <1>u, <2>1, <2>2, <2>3, <2>4 DEF TkTypeOK
<1>2. NextWriteLands'
  BY <1>e, <1>y, <1>t, <1>c, <1>o, <1>b, <1>u DEF NextWriteLands, VersionsOrdered, Carrying, TkTypeOK, Blobs
<1>3. VersionsOrdered'
  BY <1>e, <1>y, <1>t, <1>c, <1>o, <1>b, <1>u DEF VersionsOrdered, TkTypeOK, Carrying, Blobs
<1>4. ~unfenced' => Fenced'
  <2> SUFFICES ASSUME ~unfenced' PROVE Fenced'
    OBVIOUS
  <2>1. ~unfenced /\ Fenced
    BY <1>e, <1>y, <1>t, <1>c, <1>o, <1>b, <1>u DEF VersionsOrdered, Carrying
  <2>2. NumberedByWrite'
    BY <2>1, <1>y, <1>t, <1>c, <1>o, <1>b, <1>u DEF Fenced, NumberedByWrite, VersionsOrdered, Ordered, Carrying, TkTypeOK, Blobs
  <2>3. Ordered'
    BY <2>1, <1>y, <1>t, <1>c, <1>o, <1>b, <1>u DEF Fenced, NumberedByWrite, VersionsOrdered, Ordered, Arriving, Carrying, InFlight, Lapsed, TkTypeOK, Blobs
  <2>4. Arriving'
    BY <2>1, <1>y, <1>t, <1>c, <1>o, <1>b, <1>u DEF Fenced, NumberedByWrite, VersionsOrdered, Ordered, Arriving, Closing, Closed, Carrying, InFlight, Lapsed, TkTypeOK, Blobs
  <2>5. Closing'
    BY <2>1, <1>y, <1>t, <1>c, <1>o, <1>b, <1>u DEF Fenced, NumberedByWrite, VersionsOrdered, Ordered, Arriving, Closing, Closed, Carrying, InFlight, Lapsed, TkTypeOK, Blobs
  <2> QED BY <2>2, <2>3, <2>4, <2>5 DEF Fenced
<1> QED BY <1>1, <1>2, <1>3, <1>4

\* So does its drop.
LEMMA RestoreCacheInv ==
    ASSUME CacheInv, NEW p \in Procs, RestoreCache(p)
    PROVE  CacheInv'
<1> USE StoreConstants DEF CacheInv, FenceHolds, Busy, RestoreCache, Return, TkIdle, Served, RedisFault, TkSpend, Start
<1>t. calls[p] \in Calls /\ calls[p].blob \in Blobs \cup {Absent} /\ calls[p].ver \in Blobs \cup {Absent} /\ calls[p].live \in BOOLEAN
  BY CallType DEF TkTypeOK
<1>c. calls' \in [Procs -> Calls] /\ \A q \in Procs \ {p} : calls'[q] = calls[q]
  BY <1>t, CallStep DEF VersionsOrdered, TkTypeOK, Calls, Blobs
<1>o. calls'[p].at = "idle"
  BY <1>t DEF TkTypeOK, VersionsOrdered, Carrying, Blobs, Calls
<1>1. TkTypeOK'
  <2>1. cache' \in [ver : Blobs, blob : Blobs \cup {Absent}] \cup {Absent}
    BY <1>t, <1>c, <1>o DEF TkTypeOK, Blobs, TkScenario, VersionsOrdered, Carrying
  <2>2. tkBudget' \in TkScenario
    BY <1>t, <1>c, <1>o DEF TkTypeOK, Blobs, TkScenario, VersionsOrdered, Carrying
  <2>3. served' \in Blobs \cup {0}
    BY <1>t, <1>c, <1>o DEF TkTypeOK, Blobs, TkScenario, VersionsOrdered, Carrying
  <2> QED BY <1>t, <1>c, <1>o, <2>1, <2>2, <2>3 DEF TkTypeOK
<1>2. NextWriteLands'
  BY <1>t, <1>c, <1>o DEF NextWriteLands, VersionsOrdered, Carrying, TkTypeOK, Blobs
<1>3. VersionsOrdered'
  BY <1>t, <1>c, <1>o DEF VersionsOrdered, TkTypeOK, Carrying, Blobs
<1>4. ~unfenced' => Fenced'
  <2> SUFFICES ASSUME ~unfenced' PROVE Fenced'
    OBVIOUS
  <2>1. ~unfenced /\ Fenced
    BY <1>t, <1>c, <1>o DEF VersionsOrdered, Carrying
  <2>2. NumberedByWrite'
    BY <2>1, <1>t, <1>c, <1>o DEF Fenced, NumberedByWrite, VersionsOrdered, Ordered, Carrying, TkTypeOK, Blobs
  <2>3. Ordered'
    BY <2>1, <1>t, <1>c, <1>o DEF Fenced, NumberedByWrite, VersionsOrdered, Ordered, Arriving, Carrying, InFlight, Lapsed, TkTypeOK, Blobs
  <2>4. Arriving'
    BY <2>1, <1>t, <1>c, <1>o DEF Fenced, NumberedByWrite, VersionsOrdered, Ordered, Arriving, Closing, Closed, Carrying, InFlight, Lapsed, TkTypeOK, Blobs
  <2>5. Closing'
    BY <2>1, <1>t, <1>c, <1>o DEF Fenced, NumberedByWrite, VersionsOrdered, Ordered, Arriving, Closing, Closed, Carrying, InFlight, Lapsed, TkTypeOK, Blobs
  <2> QED BY <2>2, <2>3, <2>4, <2>5 DEF Fenced
<1> QED BY <1>1, <1>2, <1>3, <1>4

\* The session ends for the row, the entry and the calls in flight.
LEMMA LapseInv ==
    ASSUME CacheInv, Lapse
    PROVE  CacheInv'
<1> USE StoreConstants DEF CacheInv, FenceHolds, Busy, Lapse
<1>r. \A q \in Procs : /\ calls[q] \in Calls /\ [calls[q] EXCEPT !.live = FALSE] \in Calls
                       /\ [calls[q] EXCEPT !.live = FALSE].live = FALSE
                       /\ \A f \in {"at", "blob", "ver"} : [calls[q] EXCEPT !.live = FALSE][f] = calls[q][f]
  <2>1. ASSUME NEW c \in Calls
        PROVE  /\ [c EXCEPT !.live = FALSE] \in Calls /\ [c EXCEPT !.live = FALSE].live = FALSE
               /\ \A f \in {"at", "blob", "ver"} : [c EXCEPT !.live = FALSE][f] = c[f]
    BY DEF Calls
  <2>2. \A q \in Procs : calls[q] \in Calls
    BY DEF TkTypeOK
  <2> QED BY <2>1, <2>2
<1>c. calls' \in [Procs -> Calls]
      /\ \A q \in Procs : /\ calls'[q].at = calls[q].at /\ calls'[q].blob = calls[q].blob /\ calls'[q].ver = calls[q].ver
                         /\ calls[q].at # "idle" => calls'[q].live = FALSE
  <2>1. calls' \in [Procs -> Calls]
    BY <1>r
  <2>2. ASSUME NEW q \in Procs
        PROVE  /\ calls'[q].at = calls[q].at /\ calls'[q].blob = calls[q].blob /\ calls'[q].ver = calls[q].ver
               /\ calls[q].at # "idle" => calls'[q].live = FALSE
    <3>1. calls'[q] = IF calls[q].at = "idle" THEN calls[q] ELSE [calls[q] EXCEPT !.live = FALSE]
      OBVIOUS
    <3> QED BY <1>r, <3>1
  <2> QED BY <2>1, <2>2
<1>n. row # Absent /\ row' # Absent /\ row'.live = FALSE /\ row'.blob = row.blob /\ row'.ver = row.ver
  <2>1. row \in [blob : Blobs, ver : Blobs, live : BOOLEAN]
    BY DEF TkTypeOK
  <2>2. row' \in [blob : Blobs, ver : Blobs, live : BOOLEAN] /\ row'.live = FALSE /\ row'.blob = row.blob /\ row'.ver = row.ver
    BY <2>1
  <2> QED BY <2>2, Present
<1>1. TkTypeOK'
  <2>1. row' \in [blob : Blobs, ver : Blobs, live : BOOLEAN] \cup {Absent}
    BY <1>c DEF TkTypeOK, Blobs, TkScenario, VersionsOrdered, Carrying
  <2>2. cache' \in [ver : Blobs, blob : Blobs \cup {Absent}] \cup {Absent}
    BY <1>c DEF TkTypeOK, Blobs, TkScenario, VersionsOrdered, Carrying
  <2> QED BY <1>c, <2>1, <2>2 DEF TkTypeOK
<1>2. NextWriteLands'
  BY <1>c DEF NextWriteLands, VersionsOrdered, Carrying, TkTypeOK, Blobs
<1>3. VersionsOrdered'
  BY <1>c DEF VersionsOrdered, TkTypeOK, Carrying, Blobs
<1>4. ~unfenced' => Fenced'
  <2> SUFFICES ASSUME ~unfenced' PROVE Fenced'
    OBVIOUS
  <2>1. ~unfenced /\ Fenced
    BY <1>c DEF VersionsOrdered, Carrying
  <2>2. NumberedByWrite'
    BY <2>1, <1>c, <1>n DEF Fenced, NumberedByWrite, VersionsOrdered, Ordered, Carrying, TkTypeOK, Blobs
  <2>3. Ordered'
    BY <2>1, <1>c, <1>n DEF Fenced, NumberedByWrite, VersionsOrdered, Ordered, Arriving, Carrying, InFlight, Lapsed, TkTypeOK, Blobs
  <2>4. Arriving'
    BY <2>1, <1>c, <1>n DEF Fenced, NumberedByWrite, VersionsOrdered, Ordered, Arriving, Closing, Closed, Carrying, InFlight, Lapsed, TkTypeOK, Blobs
  <2>5. Closing'
    BY <2>1, <1>c, <1>n DEF Fenced, NumberedByWrite, VersionsOrdered, Ordered, Arriving, Closing, Closed, Carrying, InFlight, Lapsed, TkTypeOK, Blobs
  <2> QED BY <2>2, <2>3, <2>4, <2>5 DEF Fenced
<1> QED BY <1>1, <1>2, <1>3, <1>4

\* A tombstone goes when no fill can follow it.
LEMMA TombstoneExpiresInv ==
    ASSUME CacheInv, TombstoneExpires
    PROVE  CacheInv'
<1> USE StoreConstants DEF CacheInv, FenceHolds, Busy, TombstoneExpires
<1>c. calls' = calls
  OBVIOUS
<1>1. TkTypeOK'
  <2>1. cache' \in [ver : Blobs, blob : Blobs \cup {Absent}] \cup {Absent}
    BY <1>c DEF TkTypeOK, Blobs, TkScenario, VersionsOrdered, Carrying
  <2> QED BY <1>c, <2>1 DEF TkTypeOK
<1>2. NextWriteLands'
  BY <1>c DEF NextWriteLands, VersionsOrdered, Carrying, TkTypeOK, Blobs
<1>3. VersionsOrdered'
  BY <1>c DEF VersionsOrdered, TkTypeOK, Carrying, Blobs
<1>4. ~unfenced' => Fenced'
  <2> SUFFICES ASSUME ~unfenced' PROVE Fenced'
    OBVIOUS
  <2>1. ~unfenced /\ Fenced
    BY <1>c DEF VersionsOrdered, Carrying
  <2>2. NumberedByWrite'
    BY <2>1, <1>c DEF Fenced, NumberedByWrite, VersionsOrdered, Ordered, Carrying, TkTypeOK, Blobs
  <2>3. Ordered'
    BY <2>1, <1>c DEF Fenced, NumberedByWrite, VersionsOrdered, Ordered, Arriving, Carrying, InFlight, Lapsed, TkTypeOK, Blobs
  <2>4. Arriving'
    BY <2>1, <1>c DEF Fenced, NumberedByWrite, VersionsOrdered, Ordered, Arriving, Closing, Closed, Carrying, InFlight, Lapsed, TkTypeOK, Blobs
  <2>5. Closing'
    BY <2>1, <1>c DEF Fenced, NumberedByWrite, VersionsOrdered, Ordered, Arriving, Closing, Closed, Carrying, InFlight, Lapsed, TkTypeOK, Blobs
  <2> QED BY <2>2, <2>3, <2>4, <2>5 DEF Fenced
<1> QED BY <1>1, <1>2, <1>3, <1>4

\* Every step of the store keeps the invariant.
LEMMA CacheStep == CacheInv /\ [TkNext]_tkVars => CacheInv'
<1> SUFFICES ASSUME CacheInv, [TkNext]_tkVars PROVE CacheInv'
  OBVIOUS
<1>1. CASE UNCHANGED tkVars
  BY <1>1 DEF tkVars, CacheInv, FenceHolds, NextWriteLands, TkTypeOK, VersionsOrdered, Fenced, NumberedByWrite, Ordered,
              Arriving, Closing, Closed, Carrying, InFlight, Lapsed
<1>2. CASE TkNext
  BY <1>2, GetMissInv, GetPgInv, FillInv, DropInv, CreateInv, PutCasInv, DeletePgInv, DeleteCacheInv, RestorePgInv,
     RestoreCacheInv, LapseInv, TombstoneExpiresInv DEF TkNext
<1> QED BY <1>1, <1>2

\* Whatever the number of readers, writers, deletes and imports, in whatever order their round
\* trips to Redis and Postgres land, and whichever of them fail: the fence's version order holds,
\* and while no call went around it a get never goes back to an older token and a healed entry is
\* the row's.
THEOREM TokenCacheSound == TkSpec => []CacheSound
<1>1. TkSpec => []CacheInv
  BY CacheInitInv, CacheStep, PTL DEF TkSpec
<1>2. CacheInv => CacheSound
  BY CacheInvSound
<1> QED BY <1>1, <1>2, PTL

----------------------------------------------------------------------------
(* The token resolver. *)

Body == {"locked", "probe", "refresh", "store", "dead", "failing", "clear", "open", "peer", "reclear"}
Refreshing == {"probe", "refresh", "store", "dead", "failing"}
Repairs == {"clear", "reclear"}
RfCall == [pc : RfSteps, force : BOOLEAN, token : 0 .. MaxMints, blob : Nat, rt : 0 .. MaxMints, got : 0 .. MaxMints,
           tries : 0 .. Budget, again : BOOLEAN]

\* The record, the provider and the lock; nobody stored a token that was not minted.
RfTables ==
    /\ rec \in [at : 1 .. MaxMints, rt : 1 .. MaxMints, health : Health, fresh : BOOLEAN, blob : Nat]
    /\ prov \in [mints : 1 .. MaxMints, rt : 0 .. MaxMints, alive : SUBSET (1 .. MaxMints)]
    /\ rfLock \in Replicas \cup {Nobody} /\ breaker \in BOOLEAN /\ stalled \in BOOLEAN /\ uncleared \in BOOLEAN
    /\ DOMAIN call = Replicas /\ call = [r \in Replicas |-> call[r]]
    /\ rec.at <= prov.mints /\ rec.rt <= prov.mints /\ \A n \in prov.alive : n <= prov.mints

CallFits(k) ==
    /\ k \in RfCall /\ (k.pc \in Refreshing => k.rt # 0) /\ (k.pc = "store" <=> k.got # 0)
    /\ k.pc \in {"idle", "load", "cooldown", "reclear"} => ~k.force
    /\ k.pc \in {"sent", "clear"} \/ (k.force /\ k.pc \in {"lock", "locked"}) => k.token # 0
\* A call has no token that was not minted, and read no record that was not written; tokens about to
\* be stored are newer than the record they were refreshed from; and the token a forced refresh is to
\* replace was refused by the server, and stays refused.
CallSound(k) ==
    /\ CallFits(k) /\ k.token <= prov.mints /\ k.got <= prov.mints /\ k.blob <= rec.blob
    /\ k.pc = "store" /\ k.blob = rec.blob => k.got > rec.at /\ k.got > rec.rt
    /\ k.force /\ k.pc \in {"lock", "locked"} => k.token \notin prov.alive

\* As long as no body outlived its lock or ran without it: the lock is exclusive, what a refresh read
\* of the record still holds, the refresh is due, and what it was told is still true.
CallSafe(r, k) ==
    /\ k.pc \in Body => rfLock = r
    /\ k.pc \in Refreshing => k.blob = rec.blob /\ k.rt = rec.rt /\ rec.health # "reconnect"
    /\ k.pc \in {"probe", "refresh"} => ~(rec.health = "healthy" /\ rec.fresh /\ rec.at \in prov.alive)
    /\ k.pc = "dead" => k.rt # prov.rt
    /\ k.pc = "open" => rec.health = "failing"
Verdicts ==
    /\ rec.health = "reconnect" => rec.rt # prov.rt
    /\ breaker /\ ~uncleared => rec.health # "healthy" \/ \E r \in Replicas : call[r].pc \in Repairs

RefreshInv ==
    /\ RfTables /\ \A r \in Replicas : CallSound(call[r])
    /\ stalled \/ (Verdicts /\ \A r \in Replicas : CallSafe(r, call[r]))

LEMMA SentCall ==
  ASSUME RfTables, NEW v, v \in RfCall, v.pc \in {"idle", "load", "sent"}, IF v.pc = "sent" THEN v.token # 0 ELSE ~v.force,
         v.token \in 0 .. prov.mints, v.got = 0, v.blob = 0
  PROVE  CallSound(v) /\ \A r : CallSafe(r, v)
<1>1. MaxMints \in Nat /\ prov.mints \in 1 .. MaxMints /\ prov.mints \in Int /\ rec.blob \in Nat
  BY RefreshConstants DEF RfTables
<1>2. CallSound(v)
  BY <1>1 DEF CallSound, CallFits, Refreshing
<1>3. \A r : CallSafe(r, v)
  BY DEF CallSafe, Refreshing, Body
<1> QED
  BY <1>2, <1>3

LEMMA IdleCall == ASSUME RfTables PROVE RfIdle \in RfCall /\ CallSound(RfIdle) /\ \A r : CallSafe(r, RfIdle)
<1>1. 0 \in 0 .. prov.mints
  BY DEF RfTables
<1>2. 0 \in 0 .. MaxMints /\ 0 \in 0 .. Budget /\ 0 \in Nat
  BY RefreshConstants
<1>3. RfIdle \in RfCall
  BY <1>2 DEF RfIdle, RfCall, RfSteps
<1>4. RfIdle.pc = "idle" /\ ~RfIdle.force /\ RfIdle.token = 0 /\ RfIdle.got = 0 /\ RfIdle.blob = 0
  BY DEF RfIdle
<1> QED
  BY <1>1, <1>3, <1>4, SentCall

LEMMA RefreshInitially == RfInit => RefreshInv
<1> SUFFICES ASSUME RfInit PROVE RefreshInv
  OBVIOUS
<1>1. rec.at = 1 /\ rec.rt = 1 /\ rec.health = "healthy" /\ prov.mints = 1 /\ prov.rt = 1 /\ prov.alive = {1} /\ ~breaker
  BY DEF RfInit
<1>2. MaxMints \in Nat /\ 1 \in 1 .. MaxMints /\ 1 \in 0 .. MaxMints
  BY RefreshConstants
<1>3. RfTables
  <2>1. rec \in [at : 1 .. MaxMints, rt : 1 .. MaxMints, health : Health, fresh : BOOLEAN, blob : Nat]
    BY <1>2 DEF RfInit, Health
  <2>2. prov \in [mints : 1 .. MaxMints, rt : 0 .. MaxMints, alive : SUBSET (1 .. MaxMints)]
    BY <1>2 DEF RfInit
  <2>3. \A n \in prov.alive : n <= prov.mints
    BY <1>1
  <2> QED
    BY <1>1, <2>1, <2>2, <2>3 DEF RfTables, RfInit
<1>4. \A r \in Replicas : call[r] = RfIdle
  BY DEF RfInit
<1>5. Verdicts
  BY <1>1 DEF Verdicts
<1> QED
  BY <1>3, <1>4, <1>5, IdleCall DEF RefreshInv

\* A verdict stays while the record does; a body that repaired it leaves no breaker behind unnoticed.
LEMMA VerdictsKept ==
  ASSUME RefreshInv, ~stalled, NEW r \in Replicas, NEW v, call' = [call EXCEPT ![r] = v], UNCHANGED <<rec, breaker>>,
         rec.health = "reconnect" => rec.rt # prov'.rt, uncleared => uncleared', call[r].pc \in Repairs => uncleared' \/ ~breaker
  PROVE  Verdicts'
<1>1. \A s \in Replicas \ {r} : call'[s] = call[s]
  BY DEF RefreshInv, RfTables
<1>2. CASE breaker /\ ~uncleared' /\ rec.health = "healthy"
  <2>1. PICK s \in Replicas : call[s].pc \in Repairs
    BY <1>2 DEF RefreshInv, Verdicts
  <2>2. s # r
    BY <1>2, <2>1
  <2> QED
    BY <1>1, <1>2, <2>1, <2>2 DEF Verdicts
<1>3. CASE ~(breaker /\ ~uncleared' /\ rec.health = "healthy")
  BY <1>3 DEF Verdicts
<1> QED
  BY <1>2, <1>3

\* A call moves and leaves the record, the provider and the breaker alone.
LEMMA CallMoves ==
  ASSUME RefreshInv, NEW r \in Replicas, NEW v, CallSound(v), call' = [call EXCEPT ![r] = v],
         UNCHANGED <<rec, prov, breaker>>, stalled' \in BOOLEAN, stalled => stalled',
         rfLock' \in Replicas \cup {Nobody}, rfLock' = rfLock \/ rfLock \in {r, Nobody},
         uncleared' \in BOOLEAN, uncleared => uncleared', call[r].pc \in Repairs => uncleared' \/ ~breaker,
         stalled' \/ CallSafe(r, v)'
  PROVE  RefreshInv'
<1>1. RfTables'
  BY DEF RefreshInv, RfTables
<1>2. call'[r] = v /\ \A s \in Replicas \ {r} : call'[s] = call[s]
  BY DEF RefreshInv, RfTables
<1>3. ASSUME NEW s \in Replicas PROVE CallSound(call[s])'
  BY <1>2 DEF RefreshInv, CallSound
<1>4. CASE ~stalled'
  <2>1. Verdicts'
    <3>1. ~stalled /\ (rec.health = "reconnect" => rec.rt # prov'.rt)
      BY <1>4 DEF RefreshInv, Verdicts
    <3> QED
      BY <3>1, VerdictsKept
  <2>2. ASSUME NEW s \in Replicas \ {r} PROVE CallSafe(s, call[s])'
    BY <1>2, <1>4, <2>2, RefreshConstants DEF RefreshInv, CallSafe
  <2>3. CallSafe(r, call[r])'
    BY <1>2, <1>4 DEF CallSafe
  <2> QED
    BY <1>1, <1>3, <2>1, <2>2, <2>3 DEF RefreshInv
<1> QED
  BY <1>1, <1>3, <1>4 DEF RefreshInv

\* A call in its locked part also writes the record, asks the provider or sets the breaker.
LEMMA BodyMoves ==
  ASSUME RefreshInv, RfTables', NEW r \in Replicas, NEW v, CallSound(v)', call' = [call EXCEPT ![r] = v],
         call[r].pc \in Body, UNCHANGED stalled, rfLock' = rfLock \/ rfLock = r,
         prov.mints <= prov'.mints, \A n \in prov'.alive : n \in prov.alive \/ n > prov.mints,
         rec'.blob >= rec.blob, (rec'.at = rec.at /\ rec'.rt = rec.rt) \/ rec'.blob > rec.blob,
         stalled \/ (Verdicts' /\ CallSafe(r, v)')
  PROVE  RefreshInv'
<1>1. call'[r] = v /\ \A s \in Replicas \ {r} : call'[s] = call[s]
  BY DEF RefreshInv, RfTables
<1>2. /\ prov.mints \in Int /\ prov'.mints \in Int /\ rec.blob \in Int /\ rec'.blob \in Int
      /\ \A n \in prov'.alive : n \in Int
  BY RefreshConstants DEF RefreshInv, RfTables
<1>3. ASSUME NEW s \in Replicas PROVE CallSound(call[s])'
  <2>1. CASE s = r
    BY <1>1, <2>1
  <2>2. CASE s # r
    <3>1. call'[s] = call[s] /\ CallSound(call[s])
      BY <1>1, <2>2 DEF RefreshInv
    <3>2. call[s].token \in Int /\ call[s].got \in Int /\ call[s].blob \in Int
      BY <3>1, RefreshConstants DEF CallSound, CallFits, RfCall
    <3>3. CallFits(call[s])'
      BY <3>1 DEF CallSound, CallFits
    <3> QED
      BY <1>2, <3>1, <3>2, <3>3 DEF CallSound
  <2> QED
    BY <2>1, <2>2
<1>4. CASE ~stalled
  <2>1. ASSUME NEW s \in Replicas PROVE CallSafe(s, call[s])'
    <3>1. CASE s = r
      BY <1>1, <1>4, <3>1
    <3>2. CASE s # r
      <4>1. call'[s] = call[s] /\ call[s].pc \notin Body
        BY <1>1, <1>4, <3>2 DEF RefreshInv, CallSafe
      <4> QED
        BY <4>1 DEF CallSafe, Body, Refreshing
    <3> QED
      BY <3>1, <3>2
  <2> QED
    BY <1>3, <1>4, <2>1 DEF RefreshInv
<1> QED
  BY <1>3, <1>4 DEF RefreshInv

\* The facts that the steps of one call start from.
LEMMA CallFacts ==
  ASSUME RefreshInv, NEW r \in Replicas
  PROVE  /\ CallSound(call[r]) /\ call[r] \in RfCall
         /\ call[r].token \in 0 .. prov.mints /\ call[r].got \in 0 .. prov.mints /\ call[r].blob \in Nat /\ call[r].rt \in 0 .. MaxMints
         /\ call[r].tries \in 0 .. Budget /\ call[r].force \in BOOLEAN /\ call[r].again \in BOOLEAN
         /\ prov.mints \in 1 .. MaxMints /\ prov.rt \in 0 .. MaxMints /\ rec.at \in 1 .. prov.mints /\ rec.rt \in 1 .. prov.mints
         /\ rec.blob \in Nat /\ rec.fresh \in BOOLEAN /\ rec.health \in Health
         /\ ~stalled => Verdicts /\ CallSafe(r, call[r])
         /\ stalled \in BOOLEAN /\ uncleared \in BOOLEAN /\ breaker \in BOOLEAN /\ rfLock \in Replicas \cup {Nobody} /\ MaxMints \in Nat \ {0} /\ Budget \in Nat \ {0}
<1>1. CallSound(call[r]) /\ call[r] \in RfCall
  BY DEF RefreshInv, CallSound, CallFits
<1>2. call[r].token <= prov.mints /\ call[r].got <= prov.mints
  BY <1>1 DEF CallSound
<1>3. /\ MaxMints \in Nat \ {0} /\ Budget \in Nat \ {0} /\ prov.mints \in 1 .. MaxMints /\ prov.rt \in 0 .. MaxMints
      /\ rec.at \in 1 .. MaxMints /\ rec.rt \in 1 .. MaxMints /\ rec.blob \in Nat /\ rec.fresh \in BOOLEAN /\ rec.health \in Health
      /\ rec.at <= prov.mints /\ rec.rt <= prov.mints
  BY RefreshConstants DEF RefreshInv, RfTables
<1>4. rec.at \in 1 .. prov.mints /\ rec.rt \in 1 .. prov.mints
  BY <1>3
<1>5. /\ call[r].token \in 0 .. MaxMints /\ call[r].got \in 0 .. MaxMints /\ call[r].blob \in Nat /\ call[r].rt \in 0 .. MaxMints
      /\ call[r].tries \in 0 .. Budget /\ call[r].force \in BOOLEAN /\ call[r].again \in BOOLEAN
  BY <1>1 DEF RfCall
<1>6. call[r].token \in 0 .. prov.mints /\ call[r].got \in 0 .. prov.mints
  BY <1>2, <1>3, <1>5
<1>7. stalled \in BOOLEAN /\ uncleared \in BOOLEAN /\ breaker \in BOOLEAN /\ rfLock \in Replicas \cup {Nobody}
  BY DEF RefreshInv, RfTables
<1>8. ~stalled => Verdicts /\ CallSafe(r, call[r])
  BY DEF RefreshInv
<1> QED
  BY <1>1, <1>3, <1>4, <1>5, <1>6, <1>7, <1>8

----------------------------------------------------------------------------
(* Steps that only move a call. *)

\* A call that ends, with or without letting go of its lock.
LEMMA CallEndsOK ==
  ASSUME RefreshInv, NEW r \in Replicas, End(r), UNCHANGED <<rec, prov, breaker>>, stalled' \in BOOLEAN, stalled => stalled', uncleared' \in BOOLEAN, uncleared => uncleared',
         call[r].pc \in Repairs => uncleared' \/ ~breaker,
         UNCHANGED rfLock \/ Release(r)
  PROVE  RefreshInv'
<1>1. call' = [call EXCEPT ![r] = RfIdle] /\ RfTables
  BY DEF End, RefreshInv
<1>2. rfLock' \in Replicas \cup {Nobody} /\ (rfLock' = rfLock \/ rfLock \in {r, Nobody})
  BY DEF Release, RefreshInv, RfTables
<1>3. CallSound(RfIdle) /\ CallSafe(r, RfIdle)'
  BY <1>1, IdleCall DEF CallSafe, RfIdle, Body, Refreshing
<1> QED
  BY <1>1, <1>2, <1>3, CallMoves

\* A call that sends a token it has.
LEMMA CallSends ==
  ASSUME RefreshInv, NEW r \in Replicas, NEW t \in 1 .. prov.mints, Send(r, t), UNCHANGED <<rec, prov, breaker, stalled, uncleared>>,
         call[r].pc \notin Repairs, UNCHANGED rfLock \/ Release(r)
  PROVE  RefreshInv'
<1>1. PICK v : v = [RfIdle EXCEPT !.pc = "sent", !.token = t, !.force = call[r].force, !.again = call[r].again]
  OBVIOUS
<1>2. call' = [call EXCEPT ![r] = v] /\ RfTables
  BY <1>1 DEF Send, RefreshInv
<1>3. rfLock' \in Replicas \cup {Nobody} /\ (rfLock' = rfLock \/ rfLock \in {r, Nobody}) /\ stalled \in BOOLEAN /\ uncleared \in BOOLEAN
  BY DEF Release, RefreshInv, RfTables
<1>4. RfIdle \in RfCall /\ RfIdle.got = 0 /\ RfIdle.blob = 0
  BY <1>2, IdleCall DEF RfIdle
<1>5. t \in 0 .. MaxMints /\ t \in 0 .. prov.mints /\ call[r].force \in BOOLEAN /\ call[r].again \in BOOLEAN
  BY CallFacts
<1>6. v \in RfCall /\ v.pc = "sent" /\ v.token = t /\ v.got = 0 /\ v.blob = 0
  BY <1>1, <1>4, <1>5 DEF RfCall, RfSteps
<1>7. CallSound(v)
  BY <1>2, <1>5, <1>6, SentCall
<1>8. CallSafe(r, v)'
  BY <1>6 DEF CallSafe, Body, Refreshing
<1> QED
  BY <1>2, <1>3, <1>7, <1>8, CallMoves

\* A call of which only the step changes.
LEMMA CallAt ==
  ASSUME RefreshInv, NEW r \in Replicas, NEW pc \in RfSteps, NEW v, v = [call[r] EXCEPT !.pc = pc]
  PROVE  /\ v \in RfCall /\ v.pc = pc /\ v.force = call[r].force /\ v.token = call[r].token /\ v.blob = call[r].blob
         /\ v.rt = call[r].rt /\ v.got = call[r].got /\ v.tries = call[r].tries /\ v.again = call[r].again
BY CallFacts DEF RfCall

LEMMA CallGoes ==
  ASSUME RefreshInv, NEW r \in Replicas, NEW pc \in RfSteps \ (Refreshing \cup {"clear", "open", "sent", "reclear"}), RfGo(r, pc),
         call[r].pc # "store", call[r].force => pc \in {"locked", "peer"} /\ call[r].pc \in {"lock", "dead", "failing"},
         pc = "locked" => call[r].pc = "lock", call[r].pc \notin Repairs,
         UNCHANGED <<rec, prov, breaker, uncleared>>, stalled' \in BOOLEAN, stalled => stalled',
         rfLock' = rfLock \/ (rfLock = Nobody /\ rfLock' = r),
         stalled' \/ pc \notin Body \/ rfLock' = r
  PROVE  RefreshInv'
<1>1. PICK v : v = [call[r] EXCEPT !.pc = pc]
  OBVIOUS
<1>2. call' = [call EXCEPT ![r] = v]
  BY <1>1 DEF RfGo
<1>3. /\ v \in RfCall /\ v.pc = pc /\ v.force = call[r].force /\ v.token = call[r].token /\ v.blob = call[r].blob
      /\ v.rt = call[r].rt /\ v.got = call[r].got
  BY <1>1, CallAt
<1>4. CallSound(v)
  BY <1>3, CallFacts DEF CallSound, CallFits, Refreshing
<1>5. stalled' \/ CallSafe(r, v)'
  BY <1>3 DEF CallSafe, Body, Refreshing
<1>6. rfLock' \in Replicas \cup {Nobody} /\ (rfLock' = rfLock \/ rfLock \in {r, Nobody}) /\ uncleared \in BOOLEAN
  BY DEF RefreshInv, RfTables
<1> QED
  BY <1>2, <1>4, <1>5, <1>6, CallMoves

LEMMA BeginOK == ASSUME RefreshInv, NEW r \in Replicas, RfBegin(r) PROVE RefreshInv'
<1>1. "load" \in RfSteps \ (Refreshing \cup {"clear", "open", "sent", "reclear"}) /\ "load" \notin Body
  BY DEF RfSteps, Refreshing, Body
<1>2. /\ call[r].pc = "idle" /\ ~call[r].force /\ RfGo(r, "load") /\ stalled \in BOOLEAN /\ UNCHANGED <<rec, prov, rfLock, breaker, stalled, uncleared>>
      /\ call[r].pc \notin Repairs
  BY CallFacts DEF RfBegin, At, CallSound, CallFits, Repairs
<1> QED
  BY <1>1, <1>2, CallGoes

LEMMA ResolveOK == ASSUME RefreshInv, NEW r \in Replicas, Resolve(r) PROVE RefreshInv'
<1>1. "cooldown" \in RfSteps \ (Refreshing \cup {"clear", "open", "sent", "reclear"}) /\ "cooldown" \notin Body
  BY DEF RfSteps, Refreshing, Body
<1>2. /\ call[r].pc = "load" /\ ~call[r].force /\ stalled \in BOOLEAN /\ UNCHANGED <<rec, prov, rfLock, breaker, stalled, uncleared>>
      /\ rec.at \in 1 .. prov.mints /\ uncleared \in BOOLEAN /\ call[r].pc \notin Repairs
  BY CallFacts DEF Resolve, At, CallSound, CallFits, Repairs
<1>3. CASE End(r)
  BY <1>2, <1>3, CallEndsOK
<1>4. CASE Send(r, rec.at)
  BY <1>2, <1>4, CallSends
<1>5. CASE RfGo(r, "cooldown")
  BY <1>1, <1>2, <1>5, CallGoes
<1> QED
  BY <1>3, <1>4, <1>5 DEF Resolve

LEMMA CooldownOK == ASSUME RefreshInv, NEW r \in Replicas, Cooldown(r) PROVE RefreshInv'
<1>1. "lock" \in RfSteps \ (Refreshing \cup {"clear", "open", "sent", "reclear"}) /\ "lock" \notin Body
  BY DEF RfSteps, Refreshing, Body
<1>2. /\ call[r].pc = "cooldown" /\ ~call[r].force /\ stalled \in BOOLEAN /\ UNCHANGED <<rec, prov, rfLock, breaker, stalled, uncleared>>
      /\ uncleared \in BOOLEAN /\ call[r].pc \notin Repairs
  BY CallFacts DEF Cooldown, At, CallSound, CallFits, Repairs, BreakerSeen, BreakerUnseen, RfFault
<1>3. CASE End(r)
  BY <1>2, <1>3, CallEndsOK
<1>4. CASE RfGo(r, "lock")
  BY <1>1, <1>2, <1>4, CallGoes
<1> QED
  BY <1>3, <1>4 DEF Cooldown

LEMMA AcquireOK == ASSUME RefreshInv, NEW r \in Replicas, Acquire(r) \/ GiveUpLock(r) PROVE RefreshInv'
<1>1. "locked" \in RfSteps \ (Refreshing \cup {"clear", "open", "sent", "reclear"})
  BY DEF RfSteps, Refreshing
<1>2. /\ call[r].pc = "lock" /\ RfGo(r, "locked") /\ stalled \in BOOLEAN /\ stalled' \in BOOLEAN /\ (stalled => stalled')
      /\ UNCHANGED <<rec, prov, breaker, uncleared>> /\ (rfLock' = rfLock \/ (rfLock = Nobody /\ rfLock' = r)) /\ (stalled' \/ rfLock' = r)
      /\ call[r].pc \notin Repairs
  <2>1. stalled \in BOOLEAN
    BY CallFacts
  <2>2. CASE Acquire(r)
    BY <2>1, <2>2 DEF Acquire, At, Repairs
  <2>3. CASE GiveUpLock(r)
    BY <2>1, <2>3 DEF GiveUpLock, Stall, At, Repairs
  <2> QED
    BY <2>2, <2>3
<1> QED
  BY <1>1, <1>2, CallGoes

LEMMA ServeOK ==
  ASSUME RefreshInv, NEW r \in Replicas, ServeRecord(r), Release(r), UNCHANGED <<rec, prov, breaker, stalled, uncleared>>,
         call[r].pc \notin Repairs
  PROVE  RefreshInv'
<1>1. rec.at \in 1 .. prov.mints /\ stalled \in BOOLEAN /\ uncleared \in BOOLEAN
  BY CallFacts
<1> QED
  BY <1>1, CallEndsOK, CallSends DEF ServeRecord

LEMMA ReloadOK == ASSUME RefreshInv, NEW r \in Replicas, RfReload(r) PROVE RefreshInv'
<1>1. /\ call[r].pc = "locked" /\ stalled \in BOOLEAN /\ uncleared \in BOOLEAN /\ UNCHANGED <<rec, prov, breaker, stalled, uncleared>>
      /\ call[r].pc \notin Repairs
  BY CallFacts DEF RfReload, At, Repairs
<1>2. CASE End(r) /\ Release(r)
  BY <1>1, <1>2, CallEndsOK
<1>3. CASE ServeRecord(r) /\ Release(r)
  BY <1>1, <1>3, ServeOK
<1>4. CASE /\ rec.health # "reconnect" /\ ~Superseded(call[r]) /\ UNCHANGED rfLock
           /\ call' = [call EXCEPT ![r] = [@ EXCEPT !.pc = "probe", !.blob = rec.blob, !.rt = rec.rt, !.token = 0]]
  <2>1. PICK v : v = [call[r] EXCEPT !.pc = "probe", !.blob = rec.blob, !.rt = rec.rt, !.token = 0]
    OBVIOUS
  <2>2. call' = [call EXCEPT ![r] = v]
    BY <1>4, <2>1
  <2>3. rec.blob \in Nat /\ rec.rt \in 0 .. MaxMints /\ 0 \in 0 .. MaxMints /\ prov.mints >= 0 /\ rec.rt # 0
    BY CallFacts
  <2>4. v \in RfCall /\ v.pc = "probe" /\ v.token = 0 /\ v.blob = rec.blob /\ v.rt = rec.rt /\ v.got = call[r].got
    BY <2>1, <2>3, CallFacts DEF RfCall, RfSteps
  <2>5. call[r].got = 0 /\ (call[r].force => call[r].token \notin prov.alive)
    BY <1>1, CallFacts DEF CallSound, CallFits
  <2>6. CallSound(v)
    BY <2>3, <2>4, <2>5 DEF CallSound, CallFits
  <2>7. ~(rec.health = "healthy" /\ rec.fresh /\ rec.at \in prov.alive)
    BY <1>4, <2>5 DEF Superseded
  <2>8. stalled \/ CallSafe(r, v)'
    <3>1. ~stalled => rfLock = r
      BY <1>1, CallFacts DEF CallSafe, Body
    <3> QED
      BY <1>1, <1>4, <2>4, <2>7, <3>1 DEF CallSafe
  <2>9. rfLock \in Replicas \cup {Nobody}
    BY CallFacts
  <2> QED
    BY <1>1, <1>4, <2>2, <2>6, <2>8, <2>9, CallMoves
<1> QED
  BY <1>2, <1>3, <1>4 DEF RfReload

LEMMA ProbeOK == ASSUME RefreshInv, NEW r \in Replicas, Probe(r) PROVE RefreshInv'
<1>1. /\ call[r].pc = "probe" /\ stalled \in BOOLEAN /\ UNCHANGED <<rec, prov, breaker, stalled, uncleared>>
      /\ uncleared \in BOOLEAN /\ call[r].pc \notin Repairs
  BY CallFacts DEF Probe, At, Repairs, BreakerSeen, BreakerUnseen, RfFault
<1>2. CASE End(r) /\ Release(r)
  BY <1>1, <1>2, CallEndsOK
<1>3. CASE RfGo(r, "refresh") /\ UNCHANGED rfLock
  <2>1. PICK v : v = [call[r] EXCEPT !.pc = "refresh"]
    OBVIOUS
  <2>2. call' = [call EXCEPT ![r] = v] /\ "refresh" \in RfSteps
    BY <1>3, <2>1 DEF RfGo, RfSteps
  <2>3. /\ v \in RfCall /\ v.pc = "refresh" /\ v.force = call[r].force /\ v.token = call[r].token /\ v.blob = call[r].blob
        /\ v.rt = call[r].rt /\ v.got = call[r].got
    BY <2>1, <2>2, CallAt
  <2>4. CallSound(v)
    BY <1>1, <2>3, CallFacts DEF CallSound, CallFits, Refreshing
  <2>5. stalled \/ CallSafe(r, v)'
    BY <1>1, <1>3, <2>3, CallFacts DEF CallSafe, Body, Refreshing
  <2>6. rfLock \in Replicas \cup {Nobody}
    BY CallFacts
  <2> QED
    BY <1>1, <1>3, <2>2, <2>4, <2>5, <2>6, CallMoves
<1> QED
  BY <1>2, <1>3 DEF Probe

----------------------------------------------------------------------------
(* The refresh. *)

LEMMA RefusedOK == ASSUME RefreshInv, NEW r \in Replicas, RefreshRefused(r) PROVE RefreshInv'
<1>1. PICK v : v = [call[r] EXCEPT !.pc = "dead", !.tries = 0]
  OBVIOUS
<1>2. /\ call[r].pc = "refresh" /\ call[r].rt # prov.rt /\ call' = [call EXCEPT ![r] = v]
      /\ UNCHANGED <<rec, prov, rfLock, breaker, stalled, uncleared>> /\ stalled \in BOOLEAN /\ rfLock \in Replicas \cup {Nobody}
      /\ uncleared \in BOOLEAN /\ call[r].pc \notin Repairs
  BY <1>1, CallFacts DEF RefreshRefused, At, Repairs
<1>3. 0 \in 0 .. Budget
  BY CallFacts
<1>4. /\ v \in RfCall /\ v.pc = "dead" /\ v.force = call[r].force /\ v.token = call[r].token /\ v.blob = call[r].blob
      /\ v.rt = call[r].rt /\ v.got = call[r].got
  BY <1>1, <1>3, CallFacts DEF RfCall, RfSteps
<1>5. CallSound(v)
  BY <1>2, <1>4, CallFacts DEF CallSound, CallFits, Refreshing
<1>6. stalled \/ CallSafe(r, v)'
  BY <1>2, <1>4, CallFacts DEF CallSafe, Body, Refreshing
<1> QED
  BY <1>2, <1>5, <1>6, CallMoves

\* What a mint changes.
LEMMA MintIs ==
  ASSUME RefreshInv, Mint
  PROVE  /\ prov' \in [mints : 1 .. MaxMints, rt : 0 .. MaxMints, alive : SUBSET (1 .. MaxMints)]
         /\ prov'.mints = prov.mints + 1 /\ prov'.mints \in 1 .. MaxMints /\ prov.mints \in Nat
         /\ \A n \in prov'.alive : n \in prov.alive \/ n = prov.mints + 1
         /\ \A n \in prov'.alive : n <= prov'.mints
<1>1. /\ prov.mints \in 1 .. MaxMints /\ prov.rt \in 0 .. MaxMints /\ prov.alive \subseteq 1 .. MaxMints /\ MaxMints \in Nat
      /\ \A n \in prov.alive : n <= prov.mints
  BY RefreshConstants DEF RefreshInv, RfTables
<1>2. /\ prov.mints < MaxMints
      /\ prov' = [mints |-> prov.mints + 1, rt |-> IF rfBudget.rotating THEN prov.mints + 1 ELSE prov.rt,
                  alive |-> IF rfBudget.rotating THEN {prov.mints + 1} ELSE prov.alive \cup {prov.mints + 1}]
  BY DEF Mint
<1>3. prov.mints + 1 \in 1 .. MaxMints /\ prov.mints + 1 \in 0 .. MaxMints
  BY <1>1, <1>2
<1>4. \A n \in prov'.alive : n \in prov.alive \/ n = prov.mints + 1
  BY <1>2
<1>5. prov'.mints = prov.mints + 1 /\ prov' \in [mints : 1 .. MaxMints, rt : 0 .. MaxMints, alive : SUBSET (1 .. MaxMints)]
  BY <1>1, <1>2, <1>3
<1>6. \A n \in prov'.alive : n <= prov'.mints
  BY <1>1, <1>4, <1>5
<1> QED
  BY <1>1, <1>3, <1>4, <1>5, <1>6

LEMMA MintTables == ASSUME RefreshInv, Mint, NEW r \in Replicas, NEW v, call' = [call EXCEPT ![r] = v],
                           UNCHANGED <<rec, breaker, rfLock, uncleared>>, stalled' \in BOOLEAN
                    PROVE RfTables'
<1>1. rec.at <= prov'.mints /\ rec.rt <= prov'.mints
  BY MintIs, CallFacts
<1> QED
  BY <1>1, MintIs DEF RefreshInv, RfTables

LEMMA RefreshOkOK == ASSUME RefreshInv, NEW r \in Replicas, RefreshOk(r) PROVE RefreshInv'
<1>1. PICK v : v = [call[r] EXCEPT !.pc = "store", !.got = prov.mints + 1, !.tries = 0]
  OBVIOUS
<1>2. /\ call[r].pc = "refresh" /\ call[r].rt = prov.rt /\ Mint /\ call' = [call EXCEPT ![r] = v]
      /\ UNCHANGED <<rec, rfLock, breaker, stalled, uncleared>> /\ call[r].pc \notin Repairs
  BY <1>1 DEF RefreshOk, At, Repairs
<1>3. 0 \in 0 .. Budget /\ prov.mints + 1 \in 0 .. MaxMints
  BY <1>2, CallFacts, MintIs
<1>4. /\ v \in RfCall /\ v.pc = "store" /\ v.force = call[r].force /\ v.token = call[r].token /\ v.blob = call[r].blob
      /\ v.rt = call[r].rt /\ v.got = prov.mints + 1
  BY <1>1, <1>3, CallFacts DEF RfCall, RfSteps
<1>5. RfTables'
  BY <1>2, MintTables, CallFacts
<1>6. v.token <= prov'.mints /\ v.got <= prov'.mints /\ v.got > rec.at /\ v.got > rec.rt /\ v.got # 0
  BY <1>2, <1>4, CallFacts, MintIs
<1>7. CallSound(v)'
  BY <1>2, <1>4, <1>6, CallFacts DEF CallSound, CallFits, Refreshing
<1>8. ASSUME ~stalled PROVE Verdicts' /\ CallSafe(r, v)'
  <2>1. CallSafe(r, call[r]) /\ Verdicts
    BY <1>8, CallFacts
  <2>2. rec.health # "reconnect" /\ rfLock = r
    BY <1>2, <2>1 DEF CallSafe, Refreshing, Body
  <2>3. Verdicts'
    BY <1>2, <1>8, <2>2, VerdictsKept
  <2> QED
    BY <1>2, <1>4, <2>1, <2>2, <2>3 DEF CallSafe, Body, Refreshing
<1>9. /\ prov.mints <= prov'.mints /\ \A n \in prov'.alive : n \in prov.alive \/ n > prov.mints
      /\ rec'.blob >= rec.blob /\ call[r].pc \in Body
  BY <1>2, MintIs, CallFacts DEF Body
<1> QED
  BY <1>2, <1>5, <1>7, <1>8, <1>9, BodyMoves

\* A transient failure is a fault, not a stall.
LEMMA TransientOK == ASSUME RefreshInv, NEW r \in Replicas, RefreshTransient(r) PROVE RefreshInv'
<1> DEFINE pc == IF call[r].tries + 1 >= Budget THEN "failing" ELSE "refresh"
           tries == IF call[r].tries + 1 >= Budget THEN 0 ELSE call[r].tries + 1
<1>1. PICK v : v = [call[r] EXCEPT !.pc = pc, !.tries = tries]
  OBVIOUS
<1>2. /\ call[r].pc = "refresh" /\ call' = [call EXCEPT ![r] = v] /\ UNCHANGED <<rec, rfLock, breaker, stalled, uncleared>>
      /\ (UNCHANGED prov \/ (call[r].rt = prov.rt /\ Mint))
      /\ call[r].pc \notin Repairs
  BY <1>1 DEF RefreshTransient, At, RfFault, Repairs
<1>3. tries \in 0 .. Budget /\ pc \in {"failing", "refresh"}
  BY CallFacts
<1> HIDE DEF pc, tries
<1>4. /\ v \in RfCall /\ v.pc = pc /\ v.force = call[r].force /\ v.token = call[r].token /\ v.blob = call[r].blob
      /\ v.rt = call[r].rt /\ v.got = call[r].got
  BY <1>1, <1>3, CallFacts DEF RfCall, RfSteps
<1>5. call[r].got = 0 /\ call[r].rt # 0 /\ call[r].blob <= rec.blob
  BY <1>2, CallFacts DEF CallSound, CallFits, Refreshing
<1>6. stalled \in BOOLEAN /\ uncleared \in BOOLEAN /\ rfLock \in Replicas \cup {Nobody}
  BY CallFacts
<1>7. CASE UNCHANGED prov
  <2>1. CallSound(v)
    BY <1>3, <1>4, <1>5, CallFacts DEF CallSound, CallFits, Refreshing
  <2>2. stalled \/ CallSafe(r, v)'
    BY <1>2, <1>3, <1>4, <1>7, CallFacts DEF CallSafe, Body, Refreshing
  <2> QED
    BY <1>2, <1>6, <1>7, <2>1, <2>2, CallMoves
<1>8. CASE call[r].rt = prov.rt /\ Mint
  <2>1. RfTables'
    BY <1>2, <1>6, <1>8, MintTables
  <2>2. v.token <= prov'.mints /\ v.got <= prov'.mints
    BY <1>4, <1>5, <1>8, CallFacts, MintIs
  <2>3. CallSound(v)'
    BY <1>2, <1>3, <1>4, <1>5, <2>2 DEF CallSound, CallFits, Refreshing
  <2>4. ASSUME ~stalled PROVE Verdicts' /\ CallSafe(r, v)'
    <3>1. CallSafe(r, call[r]) /\ Verdicts
      BY <2>4, CallFacts
    <3>2. /\ rec.health # "reconnect" /\ rfLock = r /\ call[r].blob = rec.blob /\ call[r].rt = rec.rt
          /\ ~(rec.health = "healthy" /\ rec.fresh /\ rec.at \in prov.alive)
      BY <1>2, <3>1 DEF CallSafe, Refreshing, Body
    <3>3. rec.at # prov.mints + 1
      BY CallFacts
    <3>4. rec.at \in prov'.alive => rec.at \in prov.alive
      BY <1>8, <3>3, MintIs
    <3>5. Verdicts'
      BY <1>2, <2>4, <3>2, VerdictsKept
    <3> QED
      BY <1>2, <1>3, <1>4, <3>1, <3>2, <3>4, <3>5 DEF CallSafe, Body, Refreshing
  <2>5. /\ prov.mints <= prov'.mints /\ \A n \in prov'.alive : n \in prov.alive \/ n > prov.mints
        /\ rec'.blob >= rec.blob /\ call[r].pc \in Body
    BY <1>2, <1>8, MintIs, CallFacts DEF Body
  <2> QED
    BY <1>2, <2>1, <2>3, <2>4, <2>5, BodyMoves
<1> QED
  BY <1>2, <1>7, <1>8

----------------------------------------------------------------------------
(* The write-back. *)

\* The record after a write: only the given values, under the next write's number.
LEMMA RecordIs ==
  ASSUME RefreshInv, NEW r \in Replicas, NEW at \in 1 .. prov.mints, NEW rt \in 1 .. prov.mints, NEW h \in Health, NEW f \in BOOLEAN,
         rec' = [at |-> at, rt |-> rt, health |-> h, fresh |-> f, blob |-> rec.blob + 1], UNCHANGED prov
  PROVE  /\ rec' \in [at : 1 .. MaxMints, rt : 1 .. MaxMints, health : Health, fresh : BOOLEAN, blob : Nat]
         /\ rec'.at = at /\ rec'.rt = rt /\ rec'.health = h /\ rec'.fresh = f /\ rec'.blob = rec.blob + 1
         /\ rec'.at <= prov'.mints /\ rec'.rt <= prov'.mints
<1>1. rec.blob \in Nat /\ prov.mints \in 1 .. MaxMints
  BY CallFacts
<1>2. at \in 1 .. MaxMints /\ rt \in 1 .. MaxMints /\ at <= prov.mints /\ rt <= prov.mints /\ rec.blob + 1 \in Nat
  BY <1>1, RefreshConstants
<1> QED
  BY <1>2

\* A write of the record by a call whose ciphertext is the current one.
LEMMA StoreMoves ==
  ASSUME RefreshInv, NEW r \in Replicas, call[r].pc \in Refreshing, NEW v, call' = [call EXCEPT ![r] = v],
         UNCHANGED <<prov, breaker, stalled, uncleared>>, rec'.health = "healthy" => v.pc \in Repairs,
         rfLock' = rfLock \/ (rfLock = r /\ rfLock' = Nobody /\ v.pc \notin Body), v.pc \notin Refreshing,
         v \in RfCall, v.got = 0, v.token <= prov.mints, v.blob <= rec.blob + 1,
         v.pc \in {"idle", "load", "cooldown", "reclear"} => ~v.force, v.pc \notin {"lock", "locked"}, v.pc \in {"sent", "clear"} => v.token # 0,
         v.pc = "open" => rec'.health = "failing",
         rec' \in [at : 1 .. MaxMints, rt : 1 .. MaxMints, health : Health, fresh : BOOLEAN, blob : Nat],
         rec'.at <= prov'.mints, rec'.rt <= prov'.mints, rec'.blob = rec.blob + 1,
         stalled \/ (rec'.health = "reconnect" => rec'.rt # prov.rt)
  PROVE  RefreshInv'
<1>1. RfTables'
  BY DEF RefreshInv, RfTables
<1>2. CallSound(v)'
  <2>1. prov.mints \in Nat /\ v.got <= prov.mints
    BY CallFacts
  <2>2. CallFits(v)'
    BY DEF CallFits, Refreshing
  <2>3. v.pc # "store"
    BY DEF Refreshing
  <2> QED
    BY <2>1, <2>2, <2>3 DEF CallSound
<1>3. ASSUME ~stalled PROVE Verdicts' /\ CallSafe(r, v)'
  <2>1. rfLock = r
    BY <1>3, CallFacts DEF CallSafe, Body, Refreshing
  <2>2. call'[r] = v
    BY DEF RefreshInv, RfTables
  <2>3. Verdicts'
    BY <1>3, <2>2 DEF Verdicts
  <2> QED
    BY <1>3, <2>1, <2>3 DEF CallSafe, Body, Refreshing
<1>4. /\ prov.mints <= prov'.mints /\ \A n \in prov'.alive : n \in prov.alive \/ n > prov.mints
      /\ rec'.blob >= rec.blob /\ rec'.blob > rec.blob /\ call[r].pc \in Body
  BY CallFacts DEF Body, Refreshing
<1>5. rfLock' = rfLock \/ rfLock = r
  OBVIOUS
<1> QED
  BY <1>1, <1>2, <1>3, <1>4, <1>5, BodyMoves

\* A write that misses leaves the peer's record to be served.
LEMMA MissOK ==
  ASSUME RefreshInv, NEW r \in Replicas, call[r].pc \in {"store", "dead", "failing"}, NEW v,
         v = [call[r] EXCEPT !.pc = "peer", !.got = 0], call' = [call EXCEPT ![r] = v],
         UNCHANGED <<rec, prov, rfLock, breaker, stalled, uncleared>>
  PROVE  RefreshInv'
<1>1. 0 \in 0 .. MaxMints /\ prov.mints >= 0
  BY CallFacts
<1>2. v \in RfCall /\ v.pc = "peer" /\ v.force = call[r].force /\ v.token = call[r].token /\ v.blob = call[r].blob /\ v.got = 0
  BY <1>1, CallFacts DEF RfCall, RfSteps
<1>3. CallSound(v)
  BY <1>1, <1>2, CallFacts DEF CallSound, CallFits, Refreshing
<1>4. stalled \/ CallSafe(r, v)'
  BY <1>2, CallFacts DEF CallSafe, Body, Refreshing
<1>5. stalled \in BOOLEAN /\ uncleared \in BOOLEAN /\ call[r].pc \notin Repairs /\ rfLock \in Replicas \cup {Nobody}
  BY CallFacts DEF Repairs
<1> QED
  BY <1>3, <1>4, <1>5, CallMoves

LEMMA StoreTokensOK == ASSUME RefreshInv, NEW r \in Replicas, StoreTokens(r) PROVE RefreshInv'
<1>1. call[r].pc = "store" /\ UNCHANGED <<prov, breaker, stalled, uncleared, rfLock>>
  BY DEF StoreTokens, At
<1>2. CASE Current(r)
  <2>1. PICK v : v = [call[r] EXCEPT !.pc = "clear", !.token = call[r].got, !.got = 0]
    OBVIOUS
  <2>2. PICK rt : rt = IF rfBudget.rotating THEN call[r].got ELSE rec.rt
    OBVIOUS
  <2>3. /\ call' = [call EXCEPT ![r] = v]
        /\ rec' = [at |-> call[r].got, rt |-> rt, health |-> "healthy", fresh |-> TRUE, blob |-> rec.blob + 1]
    <3>1. rec \in [at : 1 .. MaxMints, rt : 1 .. MaxMints, health : Health, fresh : BOOLEAN, blob : Nat]
      BY DEF RefreshInv, RfTables
    <3> QED
      BY <1>2, <2>1, <2>2, <3>1 DEF StoreTokens, Stored
  <2>4. call[r].got \in 1 .. prov.mints /\ rt \in 1 .. prov.mints /\ "healthy" \in Health
    BY <1>1, <2>2, CallFacts DEF CallSound, CallFits, Health
  <2>5. /\ rec' \in [at : 1 .. MaxMints, rt : 1 .. MaxMints, health : Health, fresh : BOOLEAN, blob : Nat]
        /\ rec'.health = "healthy" /\ rec'.blob = rec.blob + 1 /\ rec'.at <= prov'.mints /\ rec'.rt <= prov'.mints
    BY <1>1, <2>3, <2>4, RecordIs
  <2>6. call[r].got \in 0 .. MaxMints /\ 0 \in 0 .. MaxMints
    BY CallFacts
  <2>7. v \in RfCall /\ v.pc = "clear" /\ v.token = call[r].got /\ v.blob = call[r].blob /\ v.got = 0
    BY <2>1, <2>6, CallFacts DEF RfCall, RfSteps
  <2>8. /\ v.pc \notin Refreshing /\ v.token <= prov.mints /\ v.token # 0 /\ v.blob <= rec.blob + 1 /\ call[r].pc \in Refreshing
        /\ v.pc \in Repairs
    BY <1>1, <2>4, <2>7, CallFacts DEF CallSound, Refreshing, Repairs
  <2> QED
    BY <1>1, <2>3, <2>5, <2>7, <2>8, StoreMoves
<1>3. CASE ~Current(r)
  <2>1. PICK v : v = [call[r] EXCEPT !.pc = "peer", !.got = 0]
    OBVIOUS
  <2>2. call' = [call EXCEPT ![r] = v] /\ UNCHANGED rec
    BY <1>3, <2>1 DEF StoreTokens
  <2> QED
    BY <1>1, <2>1, <2>2, MissOK
<1> QED
  BY <1>2, <1>3

LEMMA MissesOK ==
  ASSUME RefreshInv, NEW r \in Replicas, call[r].pc \in {"dead", "failing"}, Misses(r), UNCHANGED <<prov, breaker, stalled, uncleared>>
  PROVE  RefreshInv'
<1>1. "peer" \in RfSteps \ (Refreshing \cup {"clear", "open", "sent", "reclear"})
  BY DEF RfSteps, Refreshing
<1>2. RfGo(r, "peer") /\ UNCHANGED <<rec, rfLock>> /\ stalled \in BOOLEAN /\ call[r].pc \notin Repairs
  BY CallFacts DEF Misses, Repairs
<1>3. stalled \/ rfLock = r
  BY CallFacts DEF CallSafe, Body
<1> QED
  BY <1>1, <1>2, <1>3, CallGoes

LEMMA StoreDeadOK == ASSUME RefreshInv, NEW r \in Replicas, StoreDead(r) PROVE RefreshInv'
<1>1. call[r].pc = "dead" /\ UNCHANGED <<prov, breaker, stalled, uncleared>>
  BY DEF StoreDead, At
<1>2. CASE Current(r)
  <2>1. PICK v : v = RfIdle
    OBVIOUS
  <2>2. call' = [call EXCEPT ![r] = v] /\ Stored(r, [rec EXCEPT !.health = "reconnect"]) /\ Release(r)
    BY <1>2, <2>1 DEF StoreDead, End
  <2>3. /\ rec.at \in 1 .. prov.mints /\ rec.rt \in 1 .. prov.mints /\ "reconnect" \in Health /\ rec.fresh \in BOOLEAN
        /\ rec \in [at : 1 .. MaxMints, rt : 1 .. MaxMints, health : Health, fresh : BOOLEAN, blob : Nat] /\ RfTables
    BY CallFacts DEF Health, RefreshInv, RfTables
  <2>4. rec' = [at |-> rec.at, rt |-> rec.rt, health |-> "reconnect", fresh |-> rec.fresh, blob |-> rec.blob + 1]
    BY <2>2, <2>3 DEF Stored
  <2>5. /\ rec' \in [at : 1 .. MaxMints, rt : 1 .. MaxMints, health : Health, fresh : BOOLEAN, blob : Nat]
        /\ rec'.rt = rec.rt /\ rec'.health = "reconnect" /\ rec'.blob = rec.blob + 1 /\ rec'.at <= prov'.mints /\ rec'.rt <= prov'.mints
    BY <1>1, <2>3, <2>4, RecordIs
  <2>6. /\ v \in RfCall /\ v.pc = "idle" /\ v.token = 0 /\ v.blob = 0 /\ v.got = 0 /\ ~v.force /\ v.pc \notin Body /\ v.pc \notin Refreshing
    BY <2>1, <2>3, IdleCall DEF RfIdle, Body, Refreshing
  <2>7. stalled \/ rec'.rt # prov.rt
    BY <1>1, <2>5, CallFacts DEF CallSafe, Refreshing
  <2>8. rfLock' = rfLock \/ (rfLock = r /\ rfLock' = Nobody)
    BY <2>2 DEF Release
  <2>9. v.token <= prov.mints /\ v.blob <= rec.blob + 1 /\ call[r].pc \in Refreshing
    BY <1>1, <2>6, CallFacts DEF Refreshing
  <2> QED
    BY <1>1, <2>2, <2>5, <2>6, <2>7, <2>8, <2>9, StoreMoves
<1>3. CASE ~Current(r)
  BY <1>1, <1>3, MissesOK DEF StoreDead
<1> QED
  BY <1>2, <1>3

LEMMA StoreFailingOK == ASSUME RefreshInv, NEW r \in Replicas, StoreFailing(r) PROVE RefreshInv'
<1>1. call[r].pc = "failing" /\ UNCHANGED <<prov, breaker, stalled, uncleared>>
  BY DEF StoreFailing, At
<1>2. CASE Current(r)
  <2>1. PICK v : v = [call[r] EXCEPT !.pc = "open"]
    OBVIOUS
  <2>2. call' = [call EXCEPT ![r] = v] /\ Stored(r, [rec EXCEPT !.health = "failing"]) /\ UNCHANGED rfLock
    BY <1>2, <2>1 DEF StoreFailing, RfGo
  <2>3. /\ rec.at \in 1 .. prov.mints /\ rec.rt \in 1 .. prov.mints /\ "failing" \in Health /\ rec.fresh \in BOOLEAN
        /\ rec \in [at : 1 .. MaxMints, rt : 1 .. MaxMints, health : Health, fresh : BOOLEAN, blob : Nat] /\ RfTables
    BY CallFacts DEF Health, RefreshInv, RfTables
  <2>4. rec' = [at |-> rec.at, rt |-> rec.rt, health |-> "failing", fresh |-> rec.fresh, blob |-> rec.blob + 1]
    BY <2>2, <2>3 DEF Stored
  <2>5. /\ rec' \in [at : 1 .. MaxMints, rt : 1 .. MaxMints, health : Health, fresh : BOOLEAN, blob : Nat]
        /\ rec'.health = "failing" /\ rec'.blob = rec.blob + 1 /\ rec'.at <= prov'.mints /\ rec'.rt <= prov'.mints
    BY <1>1, <2>3, <2>4, RecordIs
  <2>6. "open" \in RfSteps
    BY DEF RfSteps
  <2>7. v \in RfCall /\ v.pc = "open" /\ v.token = call[r].token /\ v.blob = call[r].blob /\ v.got = call[r].got
    BY <2>1, <2>6, CallAt
  <2>8. /\ v.got = 0 /\ v.pc \notin Refreshing /\ v.token <= prov.mints /\ v.blob <= rec.blob + 1 /\ call[r].pc \in Refreshing
    BY <1>1, <2>7, CallFacts DEF CallSound, CallFits, Refreshing
  <2> QED
    BY <1>1, <2>2, <2>5, <2>7, <2>8, StoreMoves
<1>3. CASE ~Current(r)
  BY <1>1, <1>3, MissesOK DEF StoreFailing
<1> QED
  BY <1>2, <1>3

\* The breaker is set or cleared at the end of a body, or stays.
LEMMA BreakerMoves ==
  ASSUME RefreshInv, NEW r \in Replicas, call[r].pc \in {"clear", "open", "reclear"}, NEW v, call' = [call EXCEPT ![r] = v],
         CallSound(v), v.pc \notin Body, UNCHANGED <<rec, prov, stalled>>, Release(r),
         breaker' \in BOOLEAN, uncleared' \in BOOLEAN,
         breaker' => uncleared' \/ call[r].pc = "open"
  PROVE  RefreshInv'
<1>1. RfTables'
  BY DEF RefreshInv, RfTables, Release
<1>2. CallSound(v)'
  BY DEF CallSound, CallFits
<1>3. ASSUME ~stalled PROVE Verdicts' /\ CallSafe(r, v)'
  <2>1. call[r].pc = "open" => rec.health = "failing"
    BY <1>3, CallFacts DEF CallSafe
  <2>2. rec.health = "reconnect" => rec.rt # prov.rt
    BY <1>3, CallFacts DEF Verdicts
  <2>3. Verdicts'
    BY <2>1, <2>2 DEF Verdicts
  <2> QED
    BY <2>3 DEF CallSafe, Body, Refreshing
<1>4. /\ prov.mints <= prov'.mints /\ \A n \in prov'.alive : n \in prov.alive \/ n > prov.mints
      /\ rec'.blob >= rec.blob /\ call[r].pc \in Body
  BY CallFacts DEF Body
<1>5. rfLock' = rfLock \/ rfLock = r
  BY DEF Release
<1> QED
  BY <1>1, <1>2, <1>3, <1>4, <1>5, BodyMoves

LEMMA ClearIs ==
  ASSUME RefreshInv, Clear
  PROVE  breaker' \in BOOLEAN /\ uncleared' \in BOOLEAN /\ (breaker' => uncleared') /\ UNCHANGED stalled
BY DEF Clear, RfFault, RefreshInv, RfTables

LEMMA ClearBreakerOK == ASSUME RefreshInv, NEW r \in Replicas, ClearBreaker(r) PROVE RefreshInv'
<1>1. PICK v : v = [RfIdle EXCEPT !.pc = "sent", !.token = call[r].token, !.force = call[r].force, !.again = call[r].again]
  OBVIOUS
<1>2. /\ call[r].pc = "clear" /\ call' = [call EXCEPT ![r] = v] /\ UNCHANGED <<rec, prov>> /\ Release(r) /\ Clear
  BY <1>1 DEF ClearBreaker, Send, At
<1>3. call[r].token \in 1 .. prov.mints /\ call[r].token \in 0 .. MaxMints
  BY <1>2, CallFacts DEF CallSound, CallFits
<1>4. RfTables /\ RfIdle \in RfCall /\ RfIdle.got = 0 /\ RfIdle.blob = 0
  BY IdleCall DEF RfIdle, RefreshInv
<1>5. v \in RfCall /\ v.pc = "sent" /\ v.token = call[r].token /\ v.got = 0 /\ v.blob = 0
  BY <1>1, <1>3, <1>4, CallFacts DEF RfCall, RfSteps
<1>6. CallSound(v)
  BY <1>3, <1>4, <1>5, SentCall
<1>7. v.pc \notin Body
  BY <1>5 DEF Body
<1> QED
  BY <1>2, <1>6, <1>7, ClearIs, BreakerMoves

LEMMA OpenBreakerOK == ASSUME RefreshInv, NEW r \in Replicas, OpenBreaker(r) PROVE RefreshInv'
<1>1. PICK v : v = RfIdle
  OBVIOUS
<1>2. /\ call[r].pc = "open" /\ call' = [call EXCEPT ![r] = v] /\ UNCHANGED <<rec, prov, stalled>> /\ Release(r)
      /\ breaker' \in BOOLEAN /\ uncleared' \in BOOLEAN
  BY <1>1, CallFacts DEF OpenBreaker, End, At, RfFault
<1>3. CallSound(v) /\ v.pc \notin Body
  BY <1>1, IdleCall DEF RefreshInv, RfIdle, Body
<1> QED
  BY <1>2, <1>3, BreakerMoves

LEMMA ReclearOK == ASSUME RefreshInv, NEW r \in Replicas, Reclear(r) PROVE RefreshInv'
<1>1. PICK v : v = RfIdle
  OBVIOUS
<1>2. /\ call[r].pc = "reclear" /\ call' = [call EXCEPT ![r] = v] /\ UNCHANGED <<rec, prov>> /\ Release(r) /\ Clear
  BY <1>1 DEF Reclear, End, At
<1>3. CallSound(v) /\ v.pc \notin Body
  BY <1>1, IdleCall DEF RefreshInv, RfIdle, Body
<1> QED
  BY <1>2, <1>3, ClearIs, BreakerMoves

LEMMA ServePeerOK == ASSUME RefreshInv, NEW r \in Replicas, ServePeer(r) PROVE RefreshInv'
BY ServeOK DEF ServePeer, At, Repairs

----------------------------------------------------------------------------
(* The call that carries the token. *)

LEMMA DispatchOK == ASSUME RefreshInv, NEW r \in Replicas, Dispatch(r) PROVE RefreshInv'
<1>1. /\ call[r].pc = "sent" /\ UNCHANGED <<rec, prov, rfLock, breaker, stalled, uncleared>> /\ stalled \in BOOLEAN
      /\ rfLock \in Replicas \cup {Nobody} /\ uncleared \in BOOLEAN /\ call[r].pc \notin Repairs
  BY CallFacts DEF Dispatch, At, Repairs
<1>2. CASE End(r)
  BY <1>1, <1>2, CallEndsOK
<1>3. CASE ~(call[r].token \in prov.alive \/ call[r].force)
  <2>1. PICK v : v = [call[r] EXCEPT !.pc = "lock", !.force = TRUE]
    OBVIOUS
  <2>2. call' = [call EXCEPT ![r] = v]
    BY <1>3, <2>1 DEF Dispatch
  <2>3. v \in RfCall /\ v.pc = "lock" /\ v.token = call[r].token /\ v.blob = call[r].blob /\ v.got = call[r].got
    BY <2>1, CallFacts DEF RfCall, RfSteps
  <2>4. CallSound(v)
    BY <1>1, <1>3, <2>3, CallFacts DEF CallSound, CallFits, Refreshing
  <2>5. CallSafe(r, v)'
    BY <2>3 DEF CallSafe, Body, Refreshing
  <2> QED
    BY <1>1, <2>2, <2>4, <2>5, CallMoves
<1> QED
  BY <1>2, <1>3 DEF Dispatch

LEMMA DisconnectedOK == ASSUME RefreshInv, NEW r \in Replicas, Disconnected(r) PROVE RefreshInv'
<1>1. /\ UNCHANGED <<rec, prov, rfLock, breaker, stalled, uncleared>> /\ stalled \in BOOLEAN /\ rfLock \in Replicas \cup {Nobody}
      /\ uncleared \in BOOLEAN /\ call[r].pc \notin Repairs
  BY CallFacts DEF Disconnected, RfFault, At, Repairs
<1>2. CASE End(r)
  BY <1>1, <1>2, CallEndsOK
<1>3. CASE ~call[r].again
  <2>1. PICK v : v = [RfIdle EXCEPT !.pc = "load", !.again = TRUE]
    OBVIOUS
  <2>2. call' = [call EXCEPT ![r] = v] /\ RfTables
    BY <1>3, <2>1 DEF Disconnected, RefreshInv
  <2>3. RfIdle \in RfCall /\ RfIdle.got = 0 /\ RfIdle.blob = 0 /\ ~RfIdle.force /\ RfIdle.token = 0
    BY <2>2, IdleCall DEF RfIdle
  <2>4. v \in RfCall /\ v.pc = "load" /\ v.token = 0 /\ ~v.force /\ v.got = 0 /\ v.blob = 0 /\ 0 \in 0 .. prov.mints
    <3>1. PICK b \in BOOLEAN : b = TRUE
      OBVIOUS
    <3>2. v = [RfIdle EXCEPT !.pc = "load", !.again = b] /\ "load" \in RfSteps
      BY <2>1, <3>1 DEF RfSteps
    <3>3. v \in RfCall /\ v.pc = "load" /\ v.token = RfIdle.token /\ v.force = RfIdle.force /\ v.got = RfIdle.got /\ v.blob = RfIdle.blob
      BY <2>3, <3>2 DEF RfCall
    <3>4. 0 \in 0 .. prov.mints
      BY CallFacts
    <3> QED
      BY <2>3, <3>3, <3>4
  <2>5. CallSound(v)
    BY <2>2, <2>4, SentCall
  <2>6. CallSafe(r, v)'
    BY <2>4 DEF CallSafe, Body, Refreshing
  <2> QED
    BY <1>1, <2>2, <2>5, <2>6, CallMoves
<1> QED
  BY <1>2, <1>3 DEF Disconnected

LEMMA CrashOK == ASSUME RefreshInv, NEW r \in Replicas, Crash(r) PROVE RefreshInv'
<1>1. /\ End(r) /\ UNCHANGED <<rec, prov, breaker, stalled>> /\ stalled \in BOOLEAN /\ uncleared' \in BOOLEAN
      /\ (UNCHANGED rfLock \/ Release(r)) /\ (uncleared => uncleared') /\ (call[r].pc \in Repairs => uncleared' \/ ~breaker)
  BY CallFacts DEF Crash, RfFault, Repairing, Repairs, At
<1> QED
  BY <1>1, CallEndsOK

----------------------------------------------------------------------------
(* The lease, the breaker, the tokens and the user. *)

\* Nobody's call moves.
LEMMA LockExpiresOK == ASSUME RefreshInv, LockExpires PROVE RefreshInv'
<1>1. UNCHANGED <<rec, prov, breaker, call, uncleared>> /\ rfLock' = Nobody /\ rfLock \in Replicas
  BY DEF LockExpires, RefreshInv, RfTables
<1>2. stalled' \/ (~stalled /\ call[rfLock].pc \notin Body) \/ (stalled /\ stalled')
  BY <1>1 DEF LockExpires, Outside, Stall, Body, RefreshInv, RfTables
<1>3. RfTables' /\ \A r \in Replicas : CallSound(call[r])'
  <2>1. stalled' \in BOOLEAN
    BY DEF LockExpires, Stall, RefreshInv, RfTables
  <2> QED
    BY <1>1, <2>1 DEF RefreshInv, RfTables, CallSound, CallFits
<1>4. CASE ~stalled'
  <2>1. \A r \in Replicas : CallSafe(r, call[r]) /\ call[r].pc \notin Body
    BY <1>2, <1>4 DEF RefreshInv, CallSafe
  <2>2. Verdicts' /\ \A r \in Replicas : CallSafe(r, call[r])'
    BY <1>1, <1>2, <1>4, <2>1 DEF RefreshInv, Verdicts, CallSafe, Body, Refreshing
  <2> QED
    BY <1>3, <2>2 DEF RefreshInv
<1> QED
  BY <1>3, <1>4 DEF RefreshInv

LEMMA BreakerExpiresOK == ASSUME RefreshInv, BreakerExpires PROVE RefreshInv'
<1>1. UNCHANGED <<rec, prov, rfLock, call, stalled>> /\ ~breaker' /\ breaker' \in BOOLEAN /\ uncleared' \in BOOLEAN
  BY DEF BreakerExpires
<1>2. RfTables' /\ \A r \in Replicas : CallSound(call[r])'
  BY <1>1 DEF RefreshInv, RfTables, CallSound, CallFits
<1>3. stalled \/ (Verdicts' /\ \A r \in Replicas : CallSafe(r, call[r])')
  BY <1>1 DEF RefreshInv, Verdicts, CallSafe
<1> QED
  BY <1>1, <1>2, <1>3 DEF RefreshInv

LEMMA AgeOK == ASSUME RefreshInv, Age PROVE RefreshInv'
<1>1. /\ UNCHANGED <<prov, rfLock, breaker, call, stalled, uncleared>>
      /\ rec' = [rec EXCEPT !.fresh = FALSE]
      /\ rec \in [at : 1 .. MaxMints, rt : 1 .. MaxMints, health : Health, fresh : BOOLEAN, blob : Nat]
  BY DEF Age, RefreshInv, RfTables
<1>2. /\ rec' \in [at : 1 .. MaxMints, rt : 1 .. MaxMints, health : Health, fresh : BOOLEAN, blob : Nat]
      /\ rec'.at = rec.at /\ rec'.rt = rec.rt /\ rec'.health = rec.health /\ rec'.blob = rec.blob /\ ~rec'.fresh
  BY <1>1
<1>3. RfTables' /\ \A r \in Replicas : CallSound(call[r])'
  BY <1>1, <1>2 DEF RefreshInv, RfTables, CallSound, CallFits
<1>4. stalled \/ (Verdicts' /\ \A r \in Replicas : CallSafe(r, call[r])')
  BY <1>1, <1>2 DEF RefreshInv, Verdicts, CallSafe
<1> QED
  BY <1>1, <1>3, <1>4 DEF RefreshInv

LEMMA RefuseOK == ASSUME RefreshInv, NEW revoked \in BOOLEAN, Refuse(revoked) PROVE RefreshInv'
<1>1. /\ UNCHANGED <<rec, rfLock, breaker, call, stalled, uncleared>>
      /\ prov' = [prov EXCEPT !.alive = {}, !.rt = IF revoked THEN 0 ELSE prov.rt]
      /\ prov \in [mints : 1 .. MaxMints, rt : 0 .. MaxMints, alive : SUBSET (1 .. MaxMints)] /\ 0 \in 0 .. MaxMints
  BY RefreshConstants DEF Refuse, RefreshInv, RfTables
<1>2. /\ prov' \in [mints : 1 .. MaxMints, rt : 0 .. MaxMints, alive : SUBSET (1 .. MaxMints)]
      /\ prov'.mints = prov.mints /\ prov'.alive = {} /\ prov'.rt \in {0, prov.rt}
  BY <1>1
<1>3. RfTables' /\ \A r \in Replicas : CallSound(call[r])'
  BY <1>1, <1>2 DEF RefreshInv, RfTables, CallSound, CallFits
<1>4. stalled \/ (Verdicts' /\ \A r \in Replicas : CallSafe(r, call[r])')
  <2>1. rec.rt # 0 /\ \A r \in Replicas : call[r].pc = "dead" => call[r].rt # 0
    BY RefreshConstants DEF RefreshInv, RfTables, CallSound, CallFits, Refreshing
  <2> QED
    BY <1>1, <1>2, <2>1 DEF RefreshInv, Verdicts, CallSafe
<1> QED
  BY <1>1, <1>3, <1>4 DEF RefreshInv

LEMMA ReconnectOK == ASSUME RefreshInv, NEW r \in Replicas, Reconnect(r) PROVE RefreshInv'
<1> DEFINE n == prov.mints + 1
<1>1. PICK v : v = [call[r] EXCEPT !.pc = "reclear"]
  OBVIOUS
<1>2. /\ UNCHANGED <<breaker, stalled, uncleared>> /\ rfLock = Nobody /\ rfLock' = r /\ prov.mints < MaxMints
      /\ call[r].pc = "idle" /\ call' = [call EXCEPT ![r] = v]
      /\ prov' = [mints |-> n, rt |-> n, alive |-> {n}]
      /\ rec' = [at |-> n, rt |-> n, health |-> "healthy", fresh |-> TRUE, blob |-> rec.blob + 1]
      /\ prov.mints \in 1 .. MaxMints /\ rec.blob \in Nat /\ MaxMints \in Nat
  BY <1>1, RefreshConstants DEF Reconnect, RefreshInv, RfTables, RfGo, At
<1>3. n \in 1 .. MaxMints /\ n \in 0 .. MaxMints /\ n > prov.mints /\ n \in Int
  BY <1>2
<1> HIDE DEF n
<1>4. /\ prov' \in [mints : 1 .. MaxMints, rt : 0 .. MaxMints, alive : SUBSET (1 .. MaxMints)]
      /\ rec' \in [at : 1 .. MaxMints, rt : 1 .. MaxMints, health : Health, fresh : BOOLEAN, blob : Nat]
      /\ prov'.mints = n /\ prov'.alive = {n} /\ rec'.at = n /\ rec'.rt = n /\ rec'.health = "healthy" /\ rec'.blob = rec.blob + 1
  BY <1>2, <1>3 DEF Health
<1>5. RfTables'
  BY <1>2, <1>3, <1>4 DEF RefreshInv, RfTables
<1>6. ASSUME NEW s \in Replicas, NEW k, CallFits(k), k.token = call[s].token, k.got = call[s].got, k.blob = call[s].blob
      PROVE  CallSound(k)'
  <2>1. /\ k.token \in 0 .. prov.mints /\ k.got \in 0 .. prov.mints /\ k.blob \in Nat /\ k.blob <= rec.blob
    BY <1>6, CallFacts DEF CallSound
  <2>2. k.token <= n /\ k.got <= n /\ k.token # n
    BY <1>2, <1>3, <2>1
  <2>3. k.blob <= rec.blob + 1 /\ k.blob # rec.blob + 1
    BY <1>2, <2>1
  <2>4. CallFits(k)'
    BY <1>6 DEF CallFits
  <2> QED
    BY <1>2, <1>4, <2>2, <2>3, <2>4 DEF CallSound
<1>7. call'[r] = v /\ \A s \in Replicas \ {r} : call'[s] = call[s]
  BY <1>2 DEF RefreshInv, RfTables
<1>8. /\ v \in RfCall /\ v.pc = "reclear" /\ v.force = call[r].force /\ v.token = call[r].token /\ v.blob = call[r].blob
      /\ v.rt = call[r].rt /\ v.got = call[r].got
  <2>1. "reclear" \in RfSteps
    BY DEF RfSteps
  <2> QED
    BY <1>1, <2>1, CallAt
<1>9. CallFits(v)
  BY <1>2, <1>8, CallFacts DEF CallSound, CallFits, Refreshing
<1>10. ASSUME NEW s \in Replicas PROVE CallSound(call[s])'
  <2>1. PICK k : k = call'[s]
    OBVIOUS
  <2>2. CallFits(k) /\ k.token = call[s].token /\ k.got = call[s].got /\ k.blob = call[s].blob
    BY <1>7, <1>8, <1>9, <2>1 DEF RefreshInv, CallSound
  <2>3. CallSound(k)'
    BY <1>6, <2>2
  <2> QED
    BY <2>1, <2>3 DEF CallSound, CallFits
<1>11. stalled \/ (Verdicts' /\ \A s \in Replicas : CallSafe(s, call[s])')
  <2>1. stalled \/ \A s \in Replicas : call[s].pc \notin Body
    BY <1>2, RefreshConstants DEF RefreshInv, CallSafe
  <2>2. Verdicts'
    BY <1>4, <1>7, <1>8 DEF Verdicts, Repairs
  <2>3. CallSafe(r, v)'
    BY <1>2, <1>8 DEF CallSafe, Body, Refreshing
  <2>4. ASSUME ~stalled, NEW s \in Replicas \ {r} PROVE CallSafe(s, call[s])'
    BY <1>7, <2>1, <2>4 DEF CallSafe, Body, Refreshing
  <2>5. CallSafe(r, call[r])'
    BY <1>7, <2>3 DEF CallSafe
  <2> QED
    BY <2>2, <2>4, <2>5
<1> QED
  BY <1>2, <1>5, <1>10, <1>11 DEF RefreshInv

----------------------------------------------------------------------------
(* The specification. *)

LEMMA RefreshStep == RefreshInv /\ [RfNext]_rfVars => RefreshInv'
<1> SUFFICES ASSUME RefreshInv, [RfNext]_rfVars PROVE RefreshInv'
  OBVIOUS
<1>1. CASE UNCHANGED rfVars
  BY <1>1 DEF rfVars, RefreshInv, RfTables, Verdicts, CallSound, CallFits, CallSafe
<1>2. ASSUME NEW r \in Replicas, RfBegin(r) \/ RfStep(r) \/ GiveUpLock(r) \/ RefreshTransient(r) \/ Disconnected(r) \/ Crash(r) \/ Reconnect(r)
      PROVE  RefreshInv'
  BY <1>2, BeginOK, ResolveOK, CooldownOK, AcquireOK, ReloadOK, ProbeOK, RefreshOkOK, RefusedOK, StoreTokensOK, StoreDeadOK, StoreFailingOK,
     ClearBreakerOK, OpenBreakerOK, ServePeerOK, DispatchOK, ReclearOK, TransientOK, DisconnectedOK, CrashOK, ReconnectOK DEF RfStep
<1> QED
  BY <1>1, <1>2, LockExpiresOK, BreakerExpiresOK, AgeOK, RefuseOK DEF RfNext

\* The record, the provider's grants, the lock, the breaker and the calls agree in every state that
\* the code reaches.
THEOREM RefreshInvariance == RfSpec => []RefreshInv
BY RefreshInitially, RefreshStep, PTL DEF RfSpec

LEMMA VerdictsAre == RefreshInv => VerdictsReal
<1> SUFFICES ASSUME RefreshInv PROVE VerdictsReal
  OBVIOUS
<1>1. RfTypeOK
  <2>1. ASSUME NEW r \in Replicas
        PROVE  /\ call[r].pc \in RfSteps /\ call[r].tries \in 0 .. Budget
               /\ call[r].pc \in {"probe", "refresh", "store", "dead", "failing"} => call[r].rt \in 1 .. MaxMints
               /\ call[r].pc = "sent" \/ (call[r].force /\ call[r].pc \in {"lock", "locked"}) => call[r].token \in 1 .. MaxMints
               /\ call[r].pc = "store" <=> call[r].got # 0
    <3>1. CallFits(call[r]) /\ call[r].token \in 0 .. MaxMints /\ call[r].rt \in 0 .. MaxMints /\ call[r] \in RfCall
      BY CallFacts DEF CallSound
    <3>2. call[r].pc \in RfSteps /\ call[r].tries \in 0 .. Budget
      BY <3>1 DEF RfCall
    <3> QED
      BY <3>1, <3>2 DEF CallFits, Refreshing
  <2>2. prov.mints \in 1 .. MaxMints /\ prov.rt \in 0 .. MaxMints /\ prov.alive \subseteq 1 .. MaxMints
    BY DEF RefreshInv, RfTables
  <2> QED
    BY <2>1, <2>2 DEF RfTypeOK, RefreshInv, RfTables
<1>2. ReconnectIsReal
  BY DEF RefreshInv, ReconnectIsReal, Verdicts, CallSafe, At, Refreshing
<1>3. BreakerMatchesRecord
  BY DEF RefreshInv, BreakerMatchesRecord, Verdicts, Repairing, Repairs, At
<1> QED
  BY <1>1, <1>2, <1>3 DEF VerdictsReal

\* Only StoreTokens and Reconnect replace tokens, with newer ones.
LEMMA TokensGrow == RefreshInv /\ [RfNext]_rfVars => [rec'.at >= rec.at /\ rec'.rt >= rec.rt]_rfVars
<1> SUFFICES ASSUME RefreshInv, RfNext PROVE rec'.at >= rec.at /\ rec'.rt >= rec.rt
  BY DEF rfVars
<1>1. /\ rec \in [at : 1 .. MaxMints, rt : 1 .. MaxMints, health : Health, fresh : BOOLEAN, blob : Nat]
      /\ rec.at \in Int /\ rec.rt \in Int /\ prov.mints \in Int /\ rec.at <= prov.mints /\ rec.rt <= prov.mints
  BY RefreshConstants DEF RefreshInv, RfTables
<1>2. CASE rec'.at = rec.at /\ rec'.rt = rec.rt
  BY <1>1, <1>2
<1>3. ASSUME NEW r \in Replicas, Reconnect(r) PROVE rec'.at >= rec.at /\ rec'.rt >= rec.rt
  BY <1>1, <1>3 DEF Reconnect
<1>4. ASSUME NEW r \in Replicas, StoreTokens(r) PROVE rec'.at >= rec.at /\ rec'.rt >= rec.rt
  <2>1. CASE ~Current(r)
    BY <1>1, <1>4, <2>1 DEF StoreTokens
  <2>2. CASE Current(r)
    <3>1. call[r].got > rec.at /\ call[r].got > rec.rt /\ call[r].got \in Int
      BY <1>4, <2>2, CallFacts DEF StoreTokens, At, Current, CallSound
    <3>2. rec'.at = call[r].got /\ rec'.rt \in {call[r].got, rec.rt}
      BY <1>1, <1>4, <2>2 DEF StoreTokens, Stored
    <3> QED
      BY <1>1, <3>1, <3>2
  <2> QED
    BY <2>1, <2>2
<1>5. ASSUME NEW r \in Replicas, StoreDead(r) \/ StoreFailing(r) PROVE rec'.at = rec.at /\ rec'.rt = rec.rt
  BY <1>1, <1>5 DEF StoreDead, StoreFailing, Stored, Misses
<1>6. CASE Age
  BY <1>1, <1>6 DEF Age
<1>7. CASE UNCHANGED rec
  BY <1>1, <1>7
<1>8. \/ UNCHANGED rec \/ Age \/ \E r \in Replicas : Reconnect(r) \/ StoreTokens(r) \/ StoreDead(r) \/ StoreFailing(r)
  BY DEF RfNext, RfStep, RfBegin, Resolve, Cooldown, Probe, Reclear, Acquire, RfReload, RefreshOk, RefreshRefused, ClearBreaker, OpenBreaker, ServePeer,
     Dispatch, GiveUpLock, RefreshTransient, Disconnected, Crash, LockExpires, BreakerExpires, Refuse
<1> QED
  BY <1>2, <1>3, <1>4, <1>5, <1>6, <1>7, <1>8

\* A refresh under the lock began on a record that needed one.
LEMMA HealthyLeft ==
  RefreshInv => \A r \in Replicas : At(r, "refresh") /\ ~stalled => ~(rec.health = "healthy" /\ rec.fresh /\ rec.at \in prov.alive)
BY DEF RefreshInv, CallSafe, At

\* Whatever the order of concurrent calls, refusals, lapsed locks, lost answers and crashes: a record
\* marked for reconnection is dead, an open breaker stands on no healthy one once its repair cleared it; no write-back puts an
\* older token back; and no refresh under the lock replaces a token that is fresh and accepted
\* (resolver.py's fences under the lock and its compare-and-set of the ciphertext).
THEOREM TokensStayHeld == RfSpec => TokensHeld
<1>1. RefreshInv /\ [RfNext]_rfVars =>
        [\A r \in Replicas : At(r, "refresh") /\ prov'.mints # prov.mints /\ call'[r] # call[r] /\ ~stalled =>
            ~(rec.health = "healthy" /\ rec.fresh /\ rec.at \in prov.alive)]_rfVars
  BY HealthyLeft
<1> QED
  BY <1>1, RefreshInvariance, VerdictsAre, TokensGrow, PTL DEF RfSpec, TokensHeld, NeverRegresses, HealthyTokenKept

----------------------------------------------------------------------------
(* The connector catalog. *)

Native == DOMAIN ctCats \ ctForeign
Creating(w) == ctJob[w].step = "commit" /\ ctJob[w].new

\* What a job carries.
CtJobOK(j) ==
    /\ j.step = "export" => OrdersOK(j.cats)
    /\ j.step = "verify" => DOMAIN j = {"step", "cat", "row", "new"} /\ j.new \in BOOLEAN
    /\ j.step = "commit" => j.new \in BOOLEAN /\ (j.new => j.order \in Int)
CtTypes ==
    /\ DOMAIN ctJob = CtWorkers /\ \A w \in CtWorkers : CtJobOK(ctJob[w])
    /\ DOMAIN ctCache = CtWorkers /\ DOMAIN ctPending = CtWorkers /\ DOMAIN ctRefresh = CtWorkers \X CtKinds
    /\ OrdersOK(ctCats) /\ OrdersOK(ctDoc.cats) /\ Other \in DOMAIN ctCats

\* A provider on its way in names a category that is stored, or brings it.
CategoryStands == \A w \in CtWorkers : ctJob[w].step \in {"verify", "commit"} /\ ~ctJob[w].new => ctJob[w].cat \in DOMAIN ctCats

\* A create between its insert and its commit holds the lock, and its order is free and fits.
OrderFree(n) == n < CtLast /\ \A d \in Native \ {Other} : ctCats[d] < n
Inserting == \A w \in CtWorkers : Creating(w) => ctLock = w /\ OrderFree(ctJob[w].order)
OtherLast == \A c \in Native : IF c = Other THEN ctCats[c] = CtLast ELSE ctCats[c] < CtLast

\* An added provider is stored enabled.  A worker that does not serve it has a reload ahead, running
\* or failed, or one is about to be announced to it, or it missed it; and a refresh that has read, and
\* that nothing has overtaken, read every added provider or ends with one of those ahead.
AddedShown == ctAdded \subseteq Shown(ctRows)
Ahead(w) == ctPending[w] \/ \E v \in CtWorkers : ctJob[v].step = "reload" \/ (ctJob[v].step = "announce" /\ v # w)
Reloading(w) == ctRefresh[<<w, "reload">>] # NoRefresh
Coming(w) == Ahead(w) \/ Reloading(w) \/ w \in ctFailed \/ w \in ctMissed
ReadAll(w, k) ==
    ctRefresh[<<w, k>>].step = "publish" /\ <<w, k>> \notin ctLate =>
        \A x \in ctAdded : x \in Shown(ctRefresh[<<w, k>>].rows) \/ Ahead(w) \/ (k = "import" /\ Reloading(w))
AddedComing(w) == \A x \in ctAdded : x \in ctCache[w] \/ Coming(w)
Serves(w) == AddedComing(w) /\ ReadAll(w, "reload") /\ ReadAll(w, "import")
AllServe == \A w \in CtWorkers : Serves(w)

CtInv == CtTypes /\ CategoryStands /\ CatalogGated /\ Inserting /\ OtherLast /\ CategoriesOrdered /\ AddedShown /\ AllServe

----------------------------------------------------------------------------
(* The largest of finitely many numbers. *)

Less == {ss \in Nat \X Nat : ss[1] < ss[2]}
LEMMA LeastNumber ==
  ASSUME NEW S \in SUBSET Nat, S # {}
  PROVE  \E x \in S : \A y \in S : x <= y
<1>1. IsWellFoundedOn(Less, Nat)
  <2>1. OpToRel(<, Nat) = Less
    BY DEF OpToRel, Less
  <2>2. IsWellFoundedOn(OpToRel(<, Nat), Nat)
    BY NatLessThanWellFounded
  <2> QED
    BY <2>1, <2>2, Zenon
<1>2. S \subseteq Nat
  OBVIOUS
<1>3. PICK x \in S : \A y \in S : ~(<<y, x>> \in Less)
  BY <1>1, <1>2, WFMin, Zenon
<1>4. ASSUME NEW y \in S PROVE x <= y
  <2>1. x \in Nat /\ y \in Nat
    OBVIOUS
  <2>2. ~(y < x)
    BY <2>1, <1>3 DEF Less
  <2> QED
    BY <2>1, <2>2
<1> QED
  BY <1>4

\* A set that has no largest element, smallest in size, would have an element less than that.
Tops(S) == {x \in S : \A y \in S : x >= y}
Topless == {T \in SUBSET Int : T # {} /\ IsFiniteSet(T) /\ Tops(T) = {}}
LEMMA TopsExist ==
  ASSUME NEW S \in SUBSET Int, S # {}, IsFiniteSet(S)
  PROVE  Tops(S) # {}
<1> SUFFICES ASSUME S \in Topless PROVE FALSE
  BY DEF Topless
<1> DEFINE sizes == {Cardinality(T) : T \in Topless}
<1>1. sizes \in SUBSET Nat
  BY FS_CardinalityType DEF Topless
<1>2. sizes # {}
  OBVIOUS
<1>3. PICK n \in sizes : \A m \in sizes : n <= m
  BY <1>1, <1>2, LeastNumber
<1>4. PICK T \in Topless : n = Cardinality(T)
  BY <1>3
<1>5. PICK x \in T : TRUE
  BY <1>4 DEF Topless
<1> DEFINE R == T \ {x}
<1>6. IsFiniteSet(T) /\ T \in SUBSET Int /\ n \in Nat
  BY <1>4, FS_CardinalityType DEF Topless
<1>7. IsFiniteSet(R) /\ Cardinality(R) = n - 1 /\ R \in SUBSET Int
  BY <1>4, <1>5, <1>6, FS_RemoveElement
<1>8. R \notin Topless
  BY <1>3, <1>6, <1>7
<1>9. PICK y \in Int : y \in T /\ \A z \in R : y >= z
  <2>1. CASE R = {}
    BY <2>1, <1>5, <1>6
  <2>2. CASE R # {}
    BY <2>2, <1>7, <1>8 DEF Topless, Tops
  <2> QED
    BY <2>1, <2>2
<1>10. x \in Int
  BY <1>5, <1>6
<1>11. CASE x >= y
  <2>1. \A z \in T : x >= z
    BY <1>6, <1>9, <1>10, <1>11
  <2> QED
    BY <2>1, <1>4, <1>5 DEF Topless, Tops
<1>12. CASE y > x
  <2>1. \A z \in T : y >= z
    BY <1>6, <1>9, <1>10, <1>12
  <2> QED
    BY <2>1, <1>4, <1>9 DEF Topless, Tops
<1> QED
  BY <1>9, <1>10, <1>11, <1>12

LEMMA MaxIs ==
  ASSUME NEW S \in SUBSET Int, S # {}, IsFiniteSet(S)
  PROVE  Max(S) \in S /\ \A y \in S : Max(S) >= y
BY TopsExist DEF Max, Tops

----------------------------------------------------------------------------
(* Tables of orders. *)

LEMMA SeedOrders ==
  /\ OrdersOK([c \in {"seed", Other} |-> IF c = Other THEN CtLast ELSE 1])
  /\ Other # "seed"
<1>1. IsFiniteSet({"seed", Other})
  <2>1. {"seed", Other} = {"seed"} \cup {Other} /\ IsFiniteSet({"seed"})
    BY FS_Singleton
  <2> QED
    BY <2>1, FS_AddElement
<1> QED
  BY <1>1, CtConstants DEF OrdersOK, Other

----------------------------------------------------------------------------
(* The steps. *)

LEMMA CatalogInitially == CtInit => CtInv
<1> SUFFICES ASSUME CtInit PROVE CtInv
  OBVIOUS
<1>1. \A w \in CtWorkers : ctJob[w].step = "idle"
  BY DEF CtInit, CtIdle
<1>2. CtTypes
  BY <1>1, SeedOrders DEF CtInit, CtTypes, CtJobOK
<1>3. CategoryStands /\ Inserting
  BY <1>1 DEF CategoryStands, Inserting, Creating
<1>4. CatalogGated /\ AddedShown
  BY DEF CtInit, CatalogGated, Shown, AddedShown
<1>6. AllServe
  BY DEF CtInit, AllServe, Serves, AddedComing, ReadAll
<1>5. OtherLast /\ CategoriesOrdered
  BY CtConstants, SeedOrders DEF CtInit, OtherLast, Native, CategoriesOrdered
<1> QED
  BY <1>2, <1>3, <1>4, <1>5, <1>6 DEF CtInv

\* A worker whose cache and refreshes stay: what is ahead of it stays ahead, or it has missed it.
LEMMA StillServes ==
  ASSUME CtInv, NEW v \in CtWorkers, ctAdded' \subseteq ctAdded,
         ctCache'[v] = ctCache[v], \A k \in CtKinds : ctRefresh'[<<v, k>>] = ctRefresh[<<v, k>>],
         v \in ctMissed => v \in ctMissed', v \in ctFailed => v \in ctFailed',
         \A k \in CtKinds : <<v, k>> \in ctLate => <<v, k>> \in ctLate',
         Ahead(v) => Ahead(v)' \/ (v \in ctMissed' /\ \A k \in CtKinds : <<v, k>> \in ctLate')
  PROVE  Serves(v)'
<1>1. Serves(v) /\ {"reload", "import"} = CtKinds
  BY DEF CtInv, AllServe, CtKinds
<1>2. /\ ctRefresh'[<<v, "reload">>] = ctRefresh[<<v, "reload">>] /\ ctRefresh'[<<v, "import">>] = ctRefresh[<<v, "import">>]
      /\ <<v, "reload">> \in ctLate => <<v, "reload">> \in ctLate'
      /\ <<v, "import">> \in ctLate => <<v, "import">> \in ctLate'
      /\ Ahead(v) => Ahead(v)' \/ (v \in ctMissed' /\ <<v, "reload">> \in ctLate' /\ <<v, "import">> \in ctLate')
  BY <1>1
<1>3. AddedComing(v)'
  BY <1>1, <1>2 DEF Serves, AddedComing, Coming, Reloading
<1>4. ReadAll(v, "reload")'
  BY <1>1, <1>2 DEF Serves, ReadAll, Reloading
<1>5. ReadAll(v, "import")'
  BY <1>1, <1>2 DEF Serves, ReadAll, Reloading
<1> QED
  BY <1>3, <1>4, <1>5 DEF Serves

\* A worker that everything is ahead of, or that missed it.
LEMMA ServesAhead ==
  ASSUME NEW v \in CtWorkers,
         Ahead(v)' \/ (v \in ctMissed' /\ \A k \in CtKinds : <<v, k>> \in ctLate')
  PROVE  Serves(v)'
<1>1. {"reload", "import"} = CtKinds
  BY DEF CtKinds
<1>2. Ahead(v)' \/ (v \in ctMissed' /\ <<v, "reload">> \in ctLate' /\ <<v, "import">> \in ctLate')
  BY <1>1
<1> QED
  BY <1>2 DEF Serves, AddedComing, Coming, ReadAll

LEMMA TablesStand ==
  ASSUME CtInv, UNCHANGED ctTables
  PROVE  CatalogGated' /\ OtherLast' /\ CategoriesOrdered' /\ AddedShown'
BY DEF CtInv, ctTables, CatalogGated, OtherLast, Native, CategoriesOrdered, AddedShown

LEMMA JobIs ==
  ASSUME CtInv, NEW w \in CtWorkers, NEW j, CtJob(w, j)
  PROVE  /\ DOMAIN ctJob' = CtWorkers /\ ctJob'[w] = j
         /\ \A v \in CtWorkers \ {w} : ctJob'[v] = ctJob[v]
BY DEF CtInv, CtTypes, CtJob

\* A worker that is not about to reload or to announce goes on with its job, the tables as they are.
LEMMA JobMoves ==
  ASSUME CtInv, NEW w \in CtWorkers, NEW j, CtJob(w, j), UNCHANGED <<ctTables, ctCache, ctPending, ctRefresh, ctFailed, CtServed>>,
         ctJob[w].step \notin {"reload", "announce"}, CtJobOK(j), OrdersOK(ctDoc'.cats),
         j.step \in {"verify", "commit"} /\ ~j.new => j.cat \in DOMAIN ctCats,
         j.step = "commit" /\ j.new => ctLock' = w /\ OrderFree(j.order),
         \A v \in CtWorkers \ {w} : ctLock = v => ctLock' = v
  PROVE  CtInv'
<1>1. /\ DOMAIN ctJob' = CtWorkers /\ ctJob'[w] = j
      /\ \A v \in CtWorkers \ {w} : ctJob'[v] = ctJob[v]
  BY JobIs
<1>2. CtTypes'
  BY <1>1 DEF CtInv, CtTypes, ctTables
<1>3. CategoryStands'
  BY <1>1 DEF CtInv, CategoryStands, ctTables
<1>4. Inserting'
  <2>1. \A n : OrderFree(n)' <=> OrderFree(n)
    BY DEF OrderFree, Native, ctTables
  <2> QED
    BY <1>1, <2>1 DEF CtInv, Inserting, Creating
<1>5. ASSUME NEW v \in CtWorkers PROVE Serves(v)'
  <2>1. Ahead(v) => Ahead(v)'
    BY <1>1 DEF Ahead
  <2> QED
    BY <2>1, StillServes DEF ctTables, CtServed
<1> QED
  BY <1>2, <1>3, <1>4, <1>5, TablesStand DEF CtInv, AllServe

LEMMA IdleOK == CtJobOK(CtIdle) /\ CtIdle.step = "idle"
BY DEF CtJobOK, CtIdle

LEMMA CatalogBegins ==
  ASSUME CtInv, NEW w \in CtWorkers,
         \/ \E c \in CtNew : CreateCategory(w, c)
         \/ \E x \in CtProviders, c \in CtNew \cup {"seed"}, new \in BOOLEAN : AddProvider(w, x, c, new)
         \/ ExportCategories(w)
  PROVE  CtInv'
<1>0. ctJob[w].step = "idle" /\ OrdersOK(ctCats) /\ OrdersOK(ctDoc.cats)
  <2>1. CtBegins(w)
    BY DEF CreateCategory, AddProvider, ExportCategories
  <2> QED
    BY <2>1 DEF CtBegins, CtIdle, CtInv, CtTypes
<1>1. ASSUME NEW c, CreateCategory(w, c)
      PROVE  CtInv'
  <2> DEFINE j == [step |-> "lock", cat |-> c, row |-> CtNobody]
  <2>1. CtJob(w, j) /\ UNCHANGED <<ctTables, ctLock, ctCache, ctPending, ctRefresh, ctFailed, CtServed, ctDoc>>
    BY <1>1 DEF CreateCategory
  <2>2. CtJobOK(j) /\ j.step = "lock"
    BY DEF CtJobOK
  <2> HIDE DEF j
  <2> QED
    BY <1>0, <2>1, <2>2, JobMoves
<1>2. ASSUME NEW x, NEW c, NEW new \in BOOLEAN, AddProvider(w, x, c, new)
      PROVE  CtInv'
  <2> DEFINE j == [step |-> "verify", cat |-> c, row |-> x, new |-> new]
  <2>1. CtJob(w, j) /\ UNCHANGED <<ctTables, ctLock, ctCache, ctPending, ctRefresh, ctFailed, CtServed, ctDoc>>
    BY <1>2 DEF AddProvider
  <2>2. CtJobOK(j) /\ j.step = "verify" /\ j.cat = c /\ j.new = new /\ (~new => c \in DOMAIN ctCats)
    BY <1>2 DEF CtJobOK, AddProvider
  <2> HIDE DEF j
  <2> QED
    BY <1>0, <2>1, <2>2, JobMoves
<1>3. ASSUME ExportCategories(w)
      PROVE  CtInv'
  <2> DEFINE j == [step |-> "export", cats |-> ctCats]
  <2>1. CtJob(w, j) /\ UNCHANGED <<ctTables, ctLock, ctCache, ctPending, ctRefresh, ctFailed, CtServed, ctDoc>>
    BY <1>3 DEF ExportCategories
  <2>2. CtJobOK(j) /\ j.step = "export"
    BY <1>0 DEF CtJobOK
  <2> HIDE DEF j
  <2> QED
    BY <1>0, <2>1, <2>2, JobMoves
<1> QED
  BY <1>1, <1>2, <1>3

LEMMA CatalogVerified ==
  ASSUME CtInv, NEW w \in CtWorkers, NEW ok, Verified(w, ok)
  PROVE  CtInv'
<1> DEFINE o == ctJob[w]
           j == IF ~ok THEN CtIdle ELSE [o EXCEPT !.step = IF o.new THEN "lock" ELSE "commit"]
<1>1. /\ o.step = "verify" /\ CtJob(w, j)
      /\ UNCHANGED <<ctTables, ctLock, ctCache, ctPending, ctRefresh, ctFailed, CtServed, ctDoc>>
  BY DEF Verified, CtAt
<1>2. CtJobOK(o) /\ (~o.new => o.cat \in DOMAIN ctCats)
  BY <1>1 DEF CtInv, CtTypes, CategoryStands
<1>3. DOMAIN o = {"step", "cat", "row", "new"} /\ o.new \in BOOLEAN
  BY <1>1, <1>2 DEF CtJobOK
<1>4. \/ j = CtIdle
      \/ j.step = (IF o.new THEN "lock" ELSE "commit") /\ j.new = o.new /\ j.cat = o.cat
  BY <1>3
<1> HIDE DEF j
<1>5. /\ CtJobOK(j) /\ ~(j.step = "commit" /\ j.new)
      /\ j.step \in {"verify", "commit"} => j.cat \in DOMAIN ctCats
  BY <1>2, <1>3, <1>4, IdleOK DEF CtJobOK
<1>6. OrdersOK(ctDoc'.cats)
  BY <1>1 DEF CtInv, CtTypes
<1> QED
  BY <1>1, <1>5, <1>6, JobMoves

\* Under the lock the next order is above every category but the last.
LEMMA CatalogInserts ==
  ASSUME CtInv, NEW w \in CtWorkers, InsertCategory(w)
  PROVE  CtInv'
<1> DEFINE orders == {0} \cup {ctCats[d] : d \in DOMAIN ctCats \ {Other}}
           order == 1 + Max(orders)
           j == [step |-> "commit", cat |-> ctJob[w].cat, row |-> ctJob[w].row, new |-> TRUE, order |-> order]
<1>1. /\ ctJob[w].step = "lock" /\ ctLock = CtNobody
      /\ UNCHANGED <<ctTables, ctCache, ctPending, ctRefresh, ctFailed, CtServed, ctDoc>>
      /\ \/ order < CtLast /\ ctLock' = w /\ CtJob(w, j)
         \/ CtJob(w, CtIdle) /\ UNCHANGED ctLock
  BY DEF InsertCategory, CtAt, MayCreate
<1>2. order \in Int /\ \A d \in DOMAIN ctCats \ {Other} : ctCats[d] < order
  <2>1. orders \in SUBSET Int /\ orders # {}
    BY DEF CtInv, CtTypes, OrdersOK
  <2>2. IsFiniteSet(orders)
    <3>1. IsFiniteSet(DOMAIN ctCats \ {Other})
      BY FS_RemoveElement, FS_Subset DEF CtInv, CtTypes, OrdersOK
    <3>2. IsFiniteSet({ctCats[d] : d \in DOMAIN ctCats \ {Other}})
      <4> DEFINE D == DOMAIN ctCats \ {Other}
                 f == [d \in D |-> ctCats[d]]
      <4>1. f \in Surjection(D, {ctCats[d] : d \in D})
        BY DEF Surjection
      <4> QED
        BY <3>1, <4>1, FS_Surjection
    <3> QED
      BY <3>2, FS_Singleton, FS_Union
  <2>3. Max(orders) \in orders /\ \A y \in orders : Max(orders) >= y
    BY <2>1, <2>2, MaxIs
  <2>4. ASSUME NEW d \in DOMAIN ctCats \ {Other} PROVE ctCats[d] \in orders /\ ctCats[d] \in Int
    BY <2>1
  <2> HIDE DEF orders
  <2>5. Max(orders) \in Int
    BY <2>1, <2>3
  <2> QED
    BY <2>3, <2>4, <2>5
<1>3. /\ CtJobOK(j) /\ j.step = "commit" /\ j.new /\ j.order = order
  BY <1>2 DEF CtJobOK
<1>4. OrdersOK(ctDoc'.cats) /\ \A v \in CtWorkers : ctLock # v
  BY <1>1, CtConstants DEF CtInv, CtTypes
<1>5. order < CtLast => OrderFree(order)
  BY <1>2 DEF OrderFree, Native
<1> HIDE DEF j, order
<1>6. CASE order < CtLast /\ ctLock' = w /\ CtJob(w, j)
  BY <1>1, <1>3, <1>4, <1>5, <1>6, JobMoves
<1>7. CASE CtJob(w, CtIdle)
  BY <1>1, <1>4, <1>7, IdleOK, JobMoves
<1> QED
  BY <1>1, <1>6, <1>7

LEMMA CatalogExports ==
  ASSUME CtInv, NEW w \in CtWorkers, ExportRows(w) \/ ImportEnds(w)
  PROVE  CtInv'
<1>1. /\ CtJob(w, CtIdle) /\ ctJob[w].step \in {"export", "import"}
      /\ UNCHANGED <<ctTables, ctLock, ctCache, ctPending, ctRefresh, ctFailed, CtServed>>
  BY DEF ExportRows, ImportEnds, CtAt
<1>2. CtJobOK(ctJob[w]) /\ OrdersOK(ctDoc.cats)
  BY DEF CtInv, CtTypes
<1>3. OrdersOK(ctDoc'.cats)
  BY <1>2 DEF ExportRows, ImportEnds, CtAt, CtJobOK
<1> QED
  BY <1>1, <1>3, IdleOK, JobMoves

LEMMA ShownWith ==
  ASSUME NEW rows, NEW x, NEW r
  PROVE  /\ Shown(CtWith(rows, x, r)) \subseteq Shown(rows) \cup {x}
         /\ r.enabled => x \in Shown(CtWith(rows, x, r))
         /\ \A y \in Shown(rows) : y # x => y \in Shown(CtWith(rows, x, r))
         /\ CtWith(rows, x, r)[x] = r /\ \A y \in DOMAIN rows : y # x => CtWith(rows, x, r)[y] = rows[y]
BY DEF Shown, CtWith

\* Both rows are committed, or neither.
LEMMA CatalogCommits ==
  ASSUME CtInv, NEW w \in CtWorkers, NEW heard \in BOOLEAN, CommitRows(w, heard)
  PROVE  CtInv'
<1> DEFINE o == ctJob[w]
           clash == (o.new /\ o.cat \in DOMAIN ctCats) \/ (o.row # CtNobody /\ o.row \in DOMAIN ctRows)
           stored == [cat |-> o.cat, enabled |-> TRUE, good |-> TRUE]
           j == IF o.row = CtNobody \/ ~heard THEN CtIdle ELSE [step |-> "reload"]
<1>1. /\ o.step = "commit" /\ ctLock' = (IF ctLock = w THEN CtNobody ELSE ctLock)
      /\ UNCHANGED <<ctCache, ctPending, ctRefresh, ctFailed, ctDoc>>
      /\ clash => CtJob(w, CtIdle) /\ UNCHANGED <<ctTables, CtServed>>
      /\ ~clash => /\ ctCats' = IF o.new THEN CtWith(ctCats, o.cat, o.order) ELSE ctCats
                   /\ ctRows' = IF o.row = CtNobody THEN ctRows ELSE CtWith(ctRows, o.row, stored)
                   /\ ctAdded' = ctAdded \cup ({o.row} \ {CtNobody}) /\ UNCHANGED ctForeign
                   /\ CtJob(w, j) /\ Miss(IF o.row = CtNobody \/ heard THEN {} ELSE CtWorkers)
  BY DEF CommitRows, CtAt
<1>2. /\ OrdersOK(ctDoc'.cats) /\ OrdersOK(ctCats) /\ o.new \in BOOLEAN /\ (o.new => o.order \in Int)
      /\ ~o.new => o.cat \in DOMAIN ctCats
      /\ o.new => ctLock = w /\ OrderFree(o.order)
  BY <1>1 DEF CtInv, CtTypes, CtJobOK, CategoryStands, Inserting, Creating
<1>3. CtJobOK(j) /\ j.step \in {"idle", "reload"} /\ (o.row # CtNobody /\ heard => j.step = "reload")
  BY IdleOK DEF CtJobOK
<1>4. CASE clash
  BY <1>1, <1>2, <1>4, IdleOK, JobMoves
<1>5. CASE ~clash
  <2>1. /\ DOMAIN ctJob' = CtWorkers /\ ctJob'[w] = j
        /\ \A v \in CtWorkers \ {w} : ctJob'[v] = ctJob[v]
    BY <1>1, <1>5, JobIs
  <2>2. /\ OrdersOK(ctCats') /\ DOMAIN ctCats \subseteq DOMAIN ctCats' /\ o.cat \in DOMAIN ctCats'
        /\ \A d \in DOMAIN ctCats : ctCats'[d] = ctCats[d]
        /\ \A d \in DOMAIN ctCats' : d \notin DOMAIN ctCats => o.new /\ d = o.cat /\ ctCats'[d] = o.order
    <3>1. CASE o.new
      <4>1. o.cat \notin DOMAIN ctCats /\ ctCats' = CtWith(ctCats, o.cat, o.order) /\ o.order \in Int
        BY <3>1, <1>1, <1>2, <1>5
      <4> HIDE DEF o
      <4>2. /\ OrdersOK(CtWith(ctCats, o.cat, o.order)) /\ DOMAIN CtWith(ctCats, o.cat, o.order) = DOMAIN ctCats \cup {o.cat}
            /\ CtWith(ctCats, o.cat, o.order)[o.cat] = o.order
            /\ \A d \in DOMAIN ctCats : d # o.cat => CtWith(ctCats, o.cat, o.order)[d] = ctCats[d]
        <5>1. OrdersOK(ctCats)
          BY <1>2
        <5>3. o.order \in Int
          BY <4>1
        <5> DEFINE c == o.cat
                   n == o.order
        <5> HIDE DEF c, n
        <5>4. /\ OrdersOK(CtWith(ctCats, c, n)) /\ DOMAIN CtWith(ctCats, c, n) = DOMAIN ctCats \cup {c}
              /\ CtWith(ctCats, c, n)[c] = n
              /\ \A d \in DOMAIN ctCats : d # c => CtWith(ctCats, c, n)[d] = ctCats[d]
          <6>1. n \in Int
            BY <5>3 DEF n
          <6>2. IsFiniteSet(DOMAIN ctCats \cup {c})
            BY <5>1, FS_AddElement DEF OrdersOK
          <6> QED
            BY <5>1, <6>1, <6>2 DEF OrdersOK, CtWith
        <5> QED
          BY <5>4 DEF c, n
      <4> QED
        BY <3>1, <4>1, <4>2
    <3>2. CASE ~o.new
      BY <3>2, <1>1, <1>2, <1>5
    <3> QED
      BY <3>1, <3>2
  <2>3. /\ \A x \in Shown(ctRows') : ctRows'[x] = stored \/ (x \in Shown(ctRows) /\ ctRows'[x] = ctRows[x])
        /\ \A x \in Shown(ctRows) : x \in Shown(ctRows')
        /\ o.row # CtNobody => o.row \in Shown(ctRows')
    <3>1. CASE o.row = CtNobody
      BY <3>1, <1>1, <1>5
    <3>2. CASE o.row # CtNobody
      <4>1. o.row \notin DOMAIN ctRows /\ ctRows' = CtWith(ctRows, o.row, stored) /\ stored.enabled
        BY <3>2, <1>1, <1>5
      <4>2. Shown(ctRows) \subseteq DOMAIN ctRows
        BY DEF Shown
      <4> HIDE DEF o, stored
      <4> QED
        BY <3>2, <4>1, <4>2, ShownWith
    <3> QED
      BY <3>1, <3>2
  <2>4. stored.good /\ stored.cat = o.cat
    OBVIOUS
  <2>5. /\ ctForeign' = ctForeign /\ ctDoc' = ctDoc /\ ctCache' = ctCache /\ ctRefresh' = ctRefresh
        /\ ctPending' = ctPending /\ ctFailed' = ctFailed /\ ctAdded' = ctAdded \cup ({o.row} \ {CtNobody})
    BY <1>1, <1>5
  <2>0. Miss(IF o.row = CtNobody \/ heard THEN {} ELSE CtWorkers)
    BY <1>1, <1>5
  <2> HIDE DEF o, stored, j, clash
  <2>6. CtTypes'
    BY <1>2, <1>3, <2>1, <2>2, <2>5 DEF CtInv, CtTypes
  <2>7. CategoryStands'
    BY <1>3, <2>1, <2>2 DEF CtInv, CategoryStands
  <2>8. CatalogGated'
    <3> SUFFICES ASSUME NEW x \in Shown(ctRows') PROVE ctRows'[x].good /\ ctRows'[x].cat \in DOMAIN ctCats'
      BY DEF CatalogGated, RowLoads
    <3>1. CASE ctRows'[x] = stored
      BY <3>1, <2>2, <2>4
    <3>2. CASE x \in Shown(ctRows) /\ ctRows'[x] = ctRows[x]
      BY <3>2, <2>2 DEF CtInv, CatalogGated, RowLoads
    <3> QED
      BY <3>1, <3>2, <2>3
  <2>9. \A d \in Native' : \/ d \in Native /\ ctCats'[d] = ctCats[d]
                           \/ o.new /\ d = o.cat /\ d \notin DOMAIN ctCats /\ ctCats'[d] = o.order
    BY <2>2, <2>5 DEF Native
  <2>10. Inserting'
    <3> SUFFICES ASSUME NEW v \in CtWorkers, Creating(v)' 
                 PROVE  /\ ctLock' = v /\ ctJob'[v].order < CtLast
                        /\ \A d \in Native' \ {Other} : ctCats'[d] < ctJob'[v].order
      BY DEF Inserting, OrderFree
    <3>1. v # w /\ Creating(v) /\ ctJob'[v] = ctJob[v]
      BY <2>1, <1>3 DEF Creating
    <3>2. ctLock = v /\ OrderFree(ctJob[v].order)
      BY <3>1 DEF CtInv, Inserting
    <3>3. ~o.new /\ ctLock' = v
      BY <3>1, <3>2, <1>1, <1>2
    <3> QED
      BY <3>1, <3>2, <3>3, <2>9 DEF OrderFree
  <2>11. o.new => o.cat # Other \/ Other \notin DOMAIN ctCats
    BY <1>5 DEF clash
  <2>12. OtherLast'
    <3>1. Other \in DOMAIN ctCats
      BY DEF CtInv, CtTypes
    <3> QED
      BY <3>1, <2>9, <2>11, <1>2 DEF CtInv, OtherLast, OrderFree
  <2>13. CategoriesOrdered'
    BY <2>9, <2>12, <1>2 DEF CtInv, CategoriesOrdered, OtherLast, OrderFree, Native
  <2>14. AddedShown'
    BY <2>3, <2>5 DEF CtInv, AddedShown
  <2>15. ASSUME NEW v \in CtWorkers PROVE Serves(v)'
    <3>1. CASE o.row # CtNobody /\ heard
      BY <3>1, <1>3, <2>1, ServesAhead DEF Ahead
    <3>2. CASE o.row # CtNobody /\ ~heard
      <4>1. Miss(CtWorkers)
        BY <3>2, <1>1, <1>5 DEF clash
      <4> QED
        BY <4>1, ServesAhead DEF Miss
    <3>3. CASE o.row = CtNobody
      <4>1. ctAdded' = ctAdded /\ ctMissed' = ctMissed /\ ctLate' = ctLate
        BY <3>3, <2>5, <2>0 DEF Miss
      <4>2. Ahead(v) => Ahead(v)'
        BY <1>1, <2>1, <2>5 DEF Ahead, o
      <4> QED
        BY <4>1, <4>2, <2>5, StillServes
    <3> QED
      BY <3>1, <3>2, <3>3
  <2> QED
    BY <2>6, <2>7, <2>8, <2>10, <2>12, <2>13, <2>14, <2>15 DEF CtInv, AllServe
<1> QED
  BY <1>4, <1>5

----------------------------------------------------------------------------
(* The caches. *)

\* What does not touch a table, a lock or a document: only how the workers' caches come about changes.
LEMMA CatalogServes ==
  ASSUME CtInv, UNCHANGED <<ctTables, ctLock, ctDoc>>,
         DOMAIN ctCache' = CtWorkers, DOMAIN ctPending' = CtWorkers, DOMAIN ctRefresh' = CtWorkers \X CtKinds, DOMAIN ctJob' = CtWorkers,
         \A v \in CtWorkers : ctJob'[v] = ctJob[v] \/ ctJob'[v].step \in {"announce", "idle"},
         AllServe'
  PROVE  CtInv'
<1>1. CtTypes'
  BY DEF CtInv, CtTypes, CtJobOK, ctTables
<1>2. CategoryStands'
  BY DEF CtInv, CategoryStands, ctTables
<1>3. Inserting'
  <2> SUFFICES ASSUME NEW v \in CtWorkers, Creating(v)'
               PROVE  /\ ctLock' = v /\ ctJob'[v].order < CtLast
                      /\ \A d \in Native' \ {Other} : ctCats'[d] < ctJob'[v].order
    BY DEF Inserting, OrderFree
  <2>1. Creating(v) /\ ctJob'[v] = ctJob[v]
    BY DEF Creating
  <2> QED
    BY <2>1 DEF CtInv, Inserting, OrderFree, Native, ctTables
<1> QED
  BY <1>1, <1>2, <1>3, TablesStand DEF CtInv

\* A refresh starts on a worker; the others are as they were.
LEMMA RefreshStarts ==
  ASSUME CtInv, NEW w \in CtWorkers, NEW k \in CtKinds, NEW wiped \in BOOLEAN, StartRefresh(w, k, wiped)
  PROVE  /\ DOMAIN ctCache' = CtWorkers /\ DOMAIN ctRefresh' = CtWorkers \X CtKinds
         /\ ctRefresh'[<<w, k>>].step = "rows" /\ ctRefresh'[<<w, k>>] # NoRefresh
         /\ \A v \in CtWorkers, l \in CtKinds : <<v, l>> # <<w, k>> => ctRefresh'[<<v, l>>] = ctRefresh[<<v, l>>]
         /\ \A v \in CtWorkers : v # w \/ ~wiped => ctCache'[v] = ctCache[v]
<1>1. DOMAIN ctCache = CtWorkers /\ DOMAIN ctRefresh = CtWorkers \X CtKinds /\ <<w, k>> \in CtWorkers \X CtKinds
  BY DEF CtInv, CtTypes
<1>2. ctRefresh' = [ctRefresh EXCEPT ![<<w, k>>] = [step |-> "rows", cats |-> DOMAIN ctCats]]
  BY DEF StartRefresh
<1>3. ctRefresh'[<<w, k>>] = [step |-> "rows", cats |-> DOMAIN ctCats]
  BY <1>1, <1>2
<1>4. ctRefresh'[<<w, k>>].step = "rows"
  BY <1>3
<1>5. ctRefresh'[<<w, k>>] # NoRefresh
  BY <1>4 DEF NoRefresh
<1>6. \A v \in CtWorkers, l \in CtKinds : <<v, l>> # <<w, k>> => ctRefresh'[<<v, l>>] = ctRefresh[<<v, l>>]
  BY <1>1, <1>2
<1>7. DOMAIN ctRefresh' = CtWorkers \X CtKinds
  BY <1>1, <1>2
<1>8. DOMAIN ctCache' = CtWorkers /\ \A v \in CtWorkers : v # w \/ ~wiped => ctCache'[v] = ctCache[v]
  BY <1>1 DEF StartRefresh
<1> QED
  BY <1>4, <1>5, <1>6, <1>7, <1>8

\* A refresh ends on a worker, and what its other one has read is late.
LEMMA RefreshIsDone ==
  ASSUME CtInv, NEW w \in CtWorkers, NEW k \in CtKinds, RefreshDone(w, k)
  PROVE  /\ DOMAIN ctRefresh' = CtWorkers \X CtKinds
         /\ ctRefresh'[<<w, k>>] = NoRefresh
         /\ \A v \in CtWorkers, l \in CtKinds : <<v, l>> # <<w, k>> => ctRefresh'[<<v, l>>] = ctRefresh[<<v, l>>]
         /\ \A l \in CtKinds : l # k => <<w, l>> \in ctLate'
         /\ ctLate \subseteq ctLate'
<1>1. DOMAIN ctRefresh = CtWorkers \X CtKinds /\ <<w, k>> \in CtWorkers \X CtKinds
  BY DEF CtInv, CtTypes
<1>2. ctRefresh' = [ctRefresh EXCEPT ![<<w, k>>] = NoRefresh] /\ ctLate' = ctLate \cup {<<w, OtherKind(k)>>}
  BY DEF RefreshDone
<1>3. \A l \in CtKinds : l # k => l = OtherKind(k)
  BY DEF OtherKind, CtKinds
<1>4. \A v \in CtWorkers, l \in CtKinds : <<v, l>> # <<w, k>> => ctRefresh'[<<v, l>>] = ctRefresh[<<v, l>>]
  BY <1>1, <1>2
<1>5. DOMAIN ctRefresh' = CtWorkers \X CtKinds /\ ctRefresh'[<<w, k>>] = NoRefresh
  BY <1>1, <1>2
<1> QED
  BY <1>2, <1>3, <1>4, <1>5

LEMMA KindsAre == CtKinds = {"reload", "import"} /\ NoRefresh.step = "none"
BY DEF CtKinds, NoRefresh

\* A worker whose reload has just begun serves, once it has read, what was added until then.
LEMMA ServesReloading ==
  ASSUME NEW v \in CtWorkers, ctRefresh'[<<v, "reload">>].step = "rows"
  PROVE  Serves(v)'
<1>1. ctRefresh'[<<v, "reload">>] # NoRefresh
  BY KindsAre
<1> QED
  BY <1>1 DEF Serves, AddedComing, Coming, Reloading, ReadAll

LEMMA CatalogReloads ==
  ASSUME CtInv, NEW w \in CtWorkers, LocalReload(w)
  PROVE  CtInv'
<1> DEFINE j == [step |-> "announce"]
<1>1. /\ CtJob(w, j) /\ StartRefresh(w, "reload", TRUE)
      /\ UNCHANGED <<ctTables, ctLock, ctPending, ctFailed, CtServed, ctDoc>>
  BY DEF LocalReload
<1>2. j.step = "announce"
  OBVIOUS
<1> HIDE DEF j
<1>3. /\ DOMAIN ctJob' = CtWorkers /\ ctJob'[w] = j
      /\ \A v \in CtWorkers \ {w} : ctJob'[v] = ctJob[v]
  BY <1>1, JobIs
<1>4. /\ DOMAIN ctCache' = CtWorkers /\ DOMAIN ctRefresh' = CtWorkers \X CtKinds /\ ctRefresh'[<<w, "reload">>].step = "rows"
  BY <1>1, RefreshStarts, KindsAre
<1>5. AllServe'
  <2> SUFFICES ASSUME NEW v \in CtWorkers PROVE Serves(v)'
    BY DEF AllServe
  <2>1. CASE v = w
    BY <2>1, <1>4, ServesReloading
  <2>2. CASE v # w
    BY <2>2, <1>2, <1>3, ServesAhead DEF Ahead
  <2> QED
    BY <2>1, <2>2
<1>6. DOMAIN ctPending' = CtWorkers
  BY <1>1 DEF CtInv, CtTypes
<1>7. \A v \in CtWorkers : ctJob'[v] = ctJob[v] \/ ctJob'[v].step \in {"announce", "idle"}
  BY <1>2, <1>3
<1> QED
  BY <1>1, <1>3, <1>4, <1>5, <1>6, <1>7, CatalogServes

LEMMA CatalogFleetReloads ==
  ASSUME CtInv, NEW w \in CtWorkers, CtFleetReload(w)
  PROVE  CtInv'
<1>1. /\ StartRefresh(w, "reload", TRUE) /\ ctPending' = [ctPending EXCEPT ![w] = FALSE]
      /\ UNCHANGED <<ctTables, ctLock, ctJob, ctFailed, CtServed, ctDoc>>
  BY DEF CtFleetReload
<1>2. /\ DOMAIN ctCache' = CtWorkers /\ DOMAIN ctRefresh' = CtWorkers \X CtKinds /\ ctRefresh'[<<w, "reload">>].step = "rows"
      /\ \A v \in CtWorkers \ {w} : ctCache'[v] = ctCache[v] /\ \A l \in CtKinds : ctRefresh'[<<v, l>>] = ctRefresh[<<v, l>>]
  BY <1>1, RefreshStarts, KindsAre
<1>3. /\ DOMAIN ctPending' = CtWorkers /\ DOMAIN ctJob' = CtWorkers
      /\ \A v \in CtWorkers \ {w} : ctPending'[v] = ctPending[v]
  BY <1>1 DEF CtInv, CtTypes
<1>4. AllServe'
  <2> SUFFICES ASSUME NEW v \in CtWorkers PROVE Serves(v)'
    BY DEF AllServe
  <2>1. CASE v = w
    BY <2>1, <1>2, ServesReloading
  <2>2. CASE v # w
    <3>1. Ahead(v) => Ahead(v)'
      BY <2>2, <1>1, <1>3 DEF Ahead
    <3> QED
      BY <2>2, <3>1, <1>1, <1>2, StillServes DEF ctTables, CtServed
  <2> QED
    BY <2>1, <2>2
<1> QED
  BY <1>1, <1>2, <1>3, <1>4, CatalogServes

LEMMA CatalogReads ==
  ASSUME CtInv, NEW w \in CtWorkers, NEW k \in CtKinds, ReadRows(w, k)
  PROVE  CtInv'
<1> DEFINE r == [step |-> "publish", cats |-> ctRefresh[<<w, k>>].cats, rows |-> ctRows]
<1>1. /\ ctRefresh[<<w, k>>].step = "rows" /\ ctRefresh' = [ctRefresh EXCEPT ![<<w, k>>] = r]
      /\ ctLate' = ctLate \ {<<w, k>>}
      /\ UNCHANGED <<ctTables, ctLock, ctCache, ctPending, ctJob, ctFailed, ctMissed, ctDoc>>
  BY DEF ReadRows
<1>2. r.step = "publish" /\ r.rows = ctRows
  OBVIOUS
<1> HIDE DEF r
<1>3. DOMAIN ctRefresh = CtWorkers \X CtKinds /\ <<w, k>> \in CtWorkers \X CtKinds
  BY DEF CtInv, CtTypes
<1>4. /\ DOMAIN ctRefresh' = CtWorkers \X CtKinds /\ ctRefresh'[<<w, k>>] = r
      /\ \A v \in CtWorkers, l \in CtKinds : <<v, l>> # <<w, k>> => ctRefresh'[<<v, l>>] = ctRefresh[<<v, l>>]
  BY <1>1, <1>3
<1>5. AllServe'
  <2> SUFFICES ASSUME NEW v \in CtWorkers PROVE Serves(v)'
    BY DEF AllServe
  <2>1. Ahead(v)' <=> Ahead(v)
    BY <1>1 DEF Ahead
  <2>2. CASE v # w
    <3>1. /\ \A l \in CtKinds : ctRefresh'[<<v, l>>] = ctRefresh[<<v, l>>]
          /\ \A l \in CtKinds : <<v, l>> \in ctLate => <<v, l>> \in ctLate'
      BY <2>2, <1>1, <1>4
    <3> QED
      BY <2>1, <3>1, <1>1, StillServes DEF ctTables
  <2>3. CASE v = w
    <3>1. Serves(w)
      BY DEF CtInv, AllServe
    <3>2. r # NoRefresh /\ ctRefresh[<<w, k>>] # NoRefresh
      BY <1>1, <1>2, KindsAre
    <3>3. Reloading(w)' <=> Reloading(w)
      BY <3>2, <1>4, KindsAre DEF Reloading
    <3>4. AddedComing(w)'
      BY <2>1, <2>3, <3>1, <3>3, <1>1 DEF Serves, AddedComing, Coming, ctTables
    <3>5. ASSUME NEW l \in CtKinds PROVE ReadAll(w, l)'
      <4>1. CASE l = k
        BY <4>1, <1>1, <1>2, <1>4 DEF ReadAll, CtInv, AddedShown, ctTables
      <4>2. CASE l # k
        <5>1. ctRefresh'[<<w, l>>] = ctRefresh[<<w, l>>] /\ (<<w, l>> \in ctLate => <<w, l>> \in ctLate') /\ ReadAll(w, l)
          BY <4>2, <1>1, <1>4, <3>1, KindsAre DEF Serves
        <5> QED
          BY <5>1, <2>1, <2>3, <3>3, <1>1 DEF ReadAll, ctTables
      <4> QED
        BY <4>1, <4>2
    <3> QED
      BY <2>3, <3>4, <3>5, KindsAre DEF Serves
  <2> QED
    BY <2>2, <2>3
<1>6. DOMAIN ctCache' = CtWorkers /\ DOMAIN ctPending' = CtWorkers /\ DOMAIN ctJob' = CtWorkers
  BY <1>1 DEF CtInv, CtTypes
<1> QED
  BY <1>1, <1>4, <1>5, <1>6, CatalogServes

\* A refresh that goes through serves what it read, unless it was overtaken.
LEMMA CatalogRefreshEnds ==
  ASSUME CtInv, NEW w \in CtWorkers, NEW k \in CtKinds, RefreshEnds(w, k)
  PROVE  CtInv'
<1>1. /\ UNCHANGED <<ctTables, ctLock, ctPending, ctJob, ctDoc>> /\ RefreshDone(w, k)
      /\ ctRefresh[<<w, k>>].step = "publish"
      /\ ctCache' = [ctCache EXCEPT ![w] = Shown(ctRefresh[<<w, k>>].rows)]
      /\ ctFailed' = ctFailed \ {w}
      /\ ctMissed' = IF <<w, k>> \in ctLate THEN ctMissed \cup {w} ELSE ctMissed \ {w}
  BY DEF RefreshEnds
<1>2. /\ DOMAIN ctRefresh' = CtWorkers \X CtKinds /\ ctRefresh'[<<w, k>>] = NoRefresh
      /\ \A v \in CtWorkers, l \in CtKinds : <<v, l>> # <<w, k>> => ctRefresh'[<<v, l>>] = ctRefresh[<<v, l>>]
      /\ \A l \in CtKinds : l # k => <<w, l>> \in ctLate'
      /\ ctLate \subseteq ctLate'
  BY <1>1, RefreshIsDone
<1>3. /\ DOMAIN ctCache' = CtWorkers /\ DOMAIN ctPending' = CtWorkers /\ DOMAIN ctJob' = CtWorkers
      /\ \A v \in CtWorkers \ {w} : ctCache'[v] = ctCache[v]
      /\ ctCache'[w] = Shown(ctRefresh[<<w, k>>].rows)
  BY <1>1 DEF CtInv, CtTypes
<1>5. AllServe'
  <2> SUFFICES ASSUME NEW v \in CtWorkers PROVE Serves(v)'
    BY DEF AllServe
  <2>1. Ahead(v)' <=> Ahead(v)
    BY <1>1 DEF Ahead
  <2>2. CASE v # w
    <3>1. /\ \A l \in CtKinds : ctRefresh'[<<v, l>>] = ctRefresh[<<v, l>>]
          /\ \A l \in CtKinds : <<v, l>> \in ctLate => <<v, l>> \in ctLate'
          /\ v \in ctMissed => v \in ctMissed' /\ ctCache'[v] = ctCache[v]
          /\ v \in ctFailed => v \in ctFailed'
      BY <2>2, <1>1, <1>2, <1>3
    <3> QED
      BY <2>1, <2>2, <3>1, <1>1, <1>3, StillServes DEF ctTables
  <2>3. CASE v = w
    <3>1. ReadAll(w, k)
      BY KindsAre DEF CtInv, AllServe, Serves
    <3>2. AddedComing(w)'
      <4>1. CASE <<w, k>> \in ctLate
        BY <4>1, <1>1 DEF AddedComing, Coming
      <4>2. CASE <<w, k>> \notin ctLate
        <5>1. \A x \in ctAdded : x \in ctCache'[w] \/ Ahead(w) \/ (k = "import" /\ Reloading(w))
          BY <4>2, <3>1, <1>1, <1>3 DEF ReadAll
        <5>2. k = "import" /\ Reloading(w) => Reloading(w)'
          BY <1>2, KindsAre DEF Reloading
        <5> QED
          BY <5>1, <5>2, <2>1, <2>3, <1>1 DEF AddedComing, Coming, ctTables
      <4> QED
        BY <4>1, <4>2
    <3>3. ASSUME NEW l \in CtKinds PROVE ReadAll(w, l)'
      BY <1>2, KindsAre DEF ReadAll
    <3> QED
      BY <2>3, <3>2, <3>3, KindsAre DEF Serves
  <2> QED
    BY <2>2, <2>3
<1> QED
  BY <1>1, <1>2, <1>3, <1>5, CatalogServes

LEMMA CatalogRefreshRaises ==
  ASSUME CtInv, NEW w \in CtWorkers, NEW k \in CtKinds, RefreshRaises(w, k)
  PROVE  CtInv'
<1>1. /\ UNCHANGED <<ctTables, ctLock, ctCache, ctPending, ctJob, ctMissed, ctDoc>> /\ RefreshDone(w, k)
      /\ ctFailed' = IF k = "reload" THEN ctFailed \cup {w} ELSE ctFailed
  BY DEF RefreshRaises
<1>2. /\ DOMAIN ctRefresh' = CtWorkers \X CtKinds /\ ctRefresh'[<<w, k>>] = NoRefresh
      /\ \A v \in CtWorkers, l \in CtKinds : <<v, l>> # <<w, k>> => ctRefresh'[<<v, l>>] = ctRefresh[<<v, l>>]
      /\ \A l \in CtKinds : l # k => <<w, l>> \in ctLate'
      /\ ctLate \subseteq ctLate'
  BY <1>1, RefreshIsDone
<1>3. DOMAIN ctCache' = CtWorkers /\ DOMAIN ctPending' = CtWorkers /\ DOMAIN ctJob' = CtWorkers
  BY <1>1 DEF CtInv, CtTypes
<1>5. AllServe'
  <2> SUFFICES ASSUME NEW v \in CtWorkers PROVE Serves(v)'
    BY DEF AllServe
  <2>1. Ahead(v)' <=> Ahead(v)
    BY <1>1 DEF Ahead
  <2>2. CASE v # w
    <3>1. /\ \A l \in CtKinds : ctRefresh'[<<v, l>>] = ctRefresh[<<v, l>>]
          /\ \A l \in CtKinds : <<v, l>> \in ctLate => <<v, l>> \in ctLate'
          /\ v \in ctFailed => v \in ctFailed'
      BY <2>2, <1>1, <1>2
    <3> QED
      BY <2>1, <2>2, <3>1, <1>1, StillServes DEF ctTables
  <2>3. CASE v = w
    <3>1. AddedComing(w)'
      <4>1. CASE k = "reload"
        BY <4>1, <1>1 DEF AddedComing, Coming
      <4>2. CASE k # "reload"
        <5>1. Reloading(w) => Reloading(w)'
          BY <4>2, <1>2, KindsAre DEF Reloading
        <5>2. AddedComing(w)
          BY DEF CtInv, AllServe, Serves
        <5> QED
          BY <4>2, <5>1, <5>2, <2>1, <2>3, <1>1 DEF AddedComing, Coming, ctTables
      <4> QED
        BY <4>1, <4>2
    <3>2. ASSUME NEW l \in CtKinds PROVE ReadAll(w, l)'
      BY <1>2, KindsAre DEF ReadAll
    <3> QED
      BY <2>3, <3>1, <3>2, KindsAre DEF Serves
  <2> QED
    BY <2>2, <2>3
<1> QED
  BY <1>1, <1>2, <1>3, <1>5, CatalogServes

\* The fleet is told, or misses it.
LEMMA CatalogBroadcasts ==
  ASSUME CtInv, NEW w \in CtWorkers, NEW told \in SUBSET (CtWorkers \ {w}), Broadcast(w, told)
  PROVE  CtInv'
<1>1. /\ ctJob[w].step = "announce" /\ ctPending' = Announced(told) /\ CtJob(w, CtIdle)
      /\ Miss(CtWorkers \ (told \cup {w}))
      /\ UNCHANGED <<ctTables, ctLock, ctCache, ctRefresh, ctFailed, ctDoc>>
  BY DEF Broadcast, CtAt
<1>2. /\ DOMAIN ctJob' = CtWorkers /\ ctJob'[w] = CtIdle
      /\ \A v \in CtWorkers \ {w} : ctJob'[v] = ctJob[v]
  BY <1>1, JobIs
<1>3. /\ DOMAIN ctPending' = CtWorkers /\ DOMAIN ctCache' = CtWorkers /\ DOMAIN ctRefresh' = CtWorkers \X CtKinds
      /\ \A v \in CtWorkers : ctPending'[v] <=> (ctPending[v] \/ v \in told)
  BY <1>1 DEF CtInv, CtTypes, Announced
<1>4. AllServe'
  <2> SUFFICES ASSUME NEW v \in CtWorkers PROVE Serves(v)'
    BY DEF AllServe
  <2>1. CASE v \in told
    BY <2>1, <1>3, ServesAhead DEF Ahead
  <2>2. CASE v \notin told /\ v # w
    BY <2>2, <1>1, ServesAhead DEF Miss
  <2>3. CASE v = w
    <3>1. Ahead(w) => Ahead(w)'
      BY <1>1, <1>2, <1>3 DEF Ahead
    <3> QED
      BY <2>3, <3>1, <1>1, StillServes DEF ctTables, Miss
  <2> QED
    BY <2>1, <2>2, <2>3
<1>5. \A v \in CtWorkers : ctJob'[v] = ctJob[v] \/ ctJob'[v].step \in {"announce", "idle"}
  BY <1>2, IdleOK
<1>6. UNCHANGED <<ctTables, ctLock, ctDoc>>
  BY <1>1
<1> QED
  BY <1>2, <1>3, <1>4, <1>5, <1>6, CatalogServes

\* A worker that boots again reads the catalog; what it was about to announce, the others miss.
LEMMA CatalogCrashes ==
  ASSUME CtInv, NEW w \in CtWorkers, CtCrash(w)
  PROVE  CtInv'
<1> DEFINE r == [step |-> "rows", cats |-> DOMAIN ctCats]
<1>1. /\ CtJob(w, CtIdle) /\ ctLock' = (IF ctLock = w THEN CtNobody ELSE ctLock)
      /\ ctRefresh' = [ctRefresh EXCEPT ![<<w, "reload">>] = r, ![<<w, "import">>] = NoRefresh]
      /\ ctCache' = [ctCache EXCEPT ![w] = {}] /\ ctPending' = [ctPending EXCEPT ![w] = FALSE]
      /\ Miss(IF ctJob[w].step \in {"reload", "announce"} THEN CtWorkers \ {w} ELSE {})
      /\ UNCHANGED <<ctTables, ctFailed, ctDoc>>
  BY DEF CtCrash
<1>2. r.step = "rows"
  OBVIOUS
<1> HIDE DEF r
<1>3. /\ DOMAIN ctJob' = CtWorkers /\ ctJob'[w] = CtIdle
      /\ \A v \in CtWorkers \ {w} : ctJob'[v] = ctJob[v]
  BY <1>1, JobIs
<1>4. DOMAIN ctRefresh = CtWorkers \X CtKinds /\ <<w, "reload">> \in CtWorkers \X CtKinds /\ <<w, "import">> \in CtWorkers \X CtKinds
  BY KindsAre DEF CtInv, CtTypes
<1>5. /\ DOMAIN ctRefresh' = CtWorkers \X CtKinds /\ ctRefresh'[<<w, "reload">>] = r
      /\ \A v \in CtWorkers \ {w}, l \in CtKinds : ctRefresh'[<<v, l>>] = ctRefresh[<<v, l>>]
  BY <1>1, <1>4
<1>6. /\ DOMAIN ctPending' = CtWorkers /\ DOMAIN ctCache' = CtWorkers
      /\ \A v \in CtWorkers \ {w} : ctPending'[v] = ctPending[v] /\ ctCache'[v] = ctCache[v]
  BY <1>1 DEF CtInv, CtTypes
<1>7. ASSUME NEW v \in CtWorkers PROVE Serves(v)'
  <2>1. CASE v = w
    BY <2>1, <1>2, <1>5, ServesReloading
  <2>2. CASE v # w /\ ctJob[w].step \in {"reload", "announce"}
    BY <2>2, <1>1, ServesAhead DEF Miss
  <2>3. CASE v # w /\ ctJob[w].step \notin {"reload", "announce"}
    <3>1. Ahead(v) => Ahead(v)'
      BY <2>3, <1>3, <1>6 DEF Ahead
    <3>2. ctMissed' = ctMissed /\ ctLate' = ctLate
      BY <2>3, <1>1 DEF Miss
    <3> QED
      BY <2>3, <3>1, <3>2, <1>1, <1>5, <1>6, StillServes DEF ctTables
  <2> QED
    BY <2>1, <2>2, <2>3
<1>8. CtTypes'
  BY <1>1, <1>3, <1>5, <1>6, IdleOK DEF CtInv, CtTypes, ctTables
<1>9. CategoryStands'
  BY <1>1, <1>3, IdleOK DEF CtInv, CategoryStands, ctTables
<1>10. Inserting'
  <2> SUFFICES ASSUME NEW v \in CtWorkers, Creating(v)'
               PROVE  /\ ctLock' = v /\ ctJob'[v].order < CtLast
                      /\ \A d \in Native' \ {Other} : ctCats'[d] < ctJob'[v].order
    BY DEF Inserting, OrderFree
  <2>1. v # w /\ Creating(v) /\ ctJob'[v] = ctJob[v]
    BY <1>3, IdleOK DEF Creating
  <2>2. ctLock = v /\ OrderFree(ctJob[v].order)
    BY <2>1 DEF CtInv, Inserting
  <2> QED
    BY <2>1, <2>2, <1>1 DEF OrderFree, Native, ctTables
<1> QED
  BY <1>1, <1>7, <1>8, <1>9, <1>10, TablesStand DEF CtInv, AllServe

----------------------------------------------------------------------------
(* The import. *)

LEMMA CatalogImports ==
  ASSUME CtInv, NEW w \in CtWorkers, NEW doc \in CtDocs \cup {ctDoc}, NEW heard \in BOOLEAN, ImportCatalog(w, doc, heard)
  PROVE  CtInv'
<1>0. OrdersOK(doc.cats) /\ OrdersOK(ctCats) /\ ctJob[w].step = "idle" /\ UNCHANGED <<ctLock, ctPending, ctFailed, CtServed, ctDoc>>
  BY CtConstants DEF CtInv, CtTypes, ImportCatalog, CtBegins, CtIdle
<1>2. CtInv'
  <2> DEFINE j == [step |-> "import"]
  <2>1. /\ \A x \in Shown(doc.rows) : RowValid(doc, x)
        /\ ctCats' = Overlaid(ctCats, doc.cats) /\ ctRows' = Overlaid(ctRows, doc.rows)
        /\ ctAdded' = ctAdded \ (DOMAIN doc.rows \ Shown(doc.rows)) /\ ctForeign' = ctForeign \cup DOMAIN doc.cats
        /\ ctRefresh[<<w, "import">>] = NoRefresh
        /\ \/ StartRefresh(w, "import", FALSE) /\ CtJob(w, j)
           \/ UNCHANGED <<ctRefresh, ctCache, ctJob>>
    BY DEF ImportCatalog
  <2>2. j.step = "import" /\ CtJobOK(j)
    BY DEF CtJobOK
  <2> HIDE DEF j
  <2>3. /\ DOMAIN ctJob' = CtWorkers /\ (ctJob'[w] = j \/ ctJob'[w] = ctJob[w])
        /\ \A v \in CtWorkers \ {w} : ctJob'[v] = ctJob[v]
    BY <2>1, JobIs DEF CtInv, CtTypes
  <2>4. /\ DOMAIN ctCache' = CtWorkers /\ DOMAIN ctRefresh' = CtWorkers \X CtKinds
        /\ ctRefresh'[<<w, "import">>].step # "publish"
        /\ \A v \in CtWorkers : ctCache'[v] = ctCache[v] /\ ctRefresh'[<<v, "reload">>] = ctRefresh[<<v, "reload">>]
        /\ \A v \in CtWorkers \ {w} : ctRefresh'[<<v, "import">>] = ctRefresh[<<v, "import">>]
    <3>1. DOMAIN ctCache = CtWorkers /\ DOMAIN ctRefresh = CtWorkers \X CtKinds /\ ctRefresh[<<w, "import">>].step # "publish"
      BY <2>1, KindsAre DEF CtInv, CtTypes
    <3>2. CASE UNCHANGED <<ctRefresh, ctCache>>
      BY <3>1, <3>2
    <3>3. CASE StartRefresh(w, "import", FALSE)
      <4>1. /\ DOMAIN ctCache' = CtWorkers /\ DOMAIN ctRefresh' = CtWorkers \X CtKinds
            /\ ctRefresh'[<<w, "import">>].step = "rows"
            /\ \A v \in CtWorkers, l \in CtKinds : <<v, l>> # <<w, "import">> => ctRefresh'[<<v, l>>] = ctRefresh[<<v, l>>]
            /\ \A v \in CtWorkers : ctCache'[v] = ctCache[v]
        BY <3>3, RefreshStarts, KindsAre
      <4>2. \A v \in CtWorkers : <<v, "reload">> # <<w, "import">>
        OBVIOUS
      <4>3. \A v \in CtWorkers \ {w} : <<v, "import">> # <<w, "import">>
        OBVIOUS
      <4> QED
        BY <4>1, <4>2, <4>3, KindsAre
    <3> QED
      BY <2>1, <3>2, <3>3
  <2>5. /\ OrdersOK(ctCats') /\ DOMAIN ctCats' = DOMAIN ctCats \cup DOMAIN doc.cats
        /\ \A d \in Native' : d \in Native /\ ctCats'[d] = ctCats[d]
    <3>1. OrdersOK(ctCats) /\ OrdersOK(doc.cats)
      BY <1>0 DEF CtInv, CtTypes
    <3>2. /\ OrdersOK(Overlaid(ctCats, doc.cats)) /\ DOMAIN Overlaid(ctCats, doc.cats) = DOMAIN ctCats \cup DOMAIN doc.cats
          /\ \A d \in DOMAIN ctCats : d \notin DOMAIN doc.cats => Overlaid(ctCats, doc.cats)[d] = ctCats[d]
      <4>1. IsFiniteSet(DOMAIN ctCats \cup DOMAIN doc.cats)
        BY <3>1, FS_Union DEF OrdersOK
      <4> QED
        BY <3>1, <4>1 DEF OrdersOK, Overlaid
    <3> QED
      BY <2>1, <3>2 DEF Native
  <2>6. \A x \in Shown(ctRows') :
           \/ x \in Shown(doc.rows) /\ ctRows'[x] = doc.rows[x]
           \/ x \in Shown(ctRows) /\ ctRows'[x] = ctRows[x]
    BY <2>1 DEF Shown, Overlaid
  <2>7. \A x \in Shown(ctRows) : x \in Shown(ctRows') \/ x \in DOMAIN doc.rows \ Shown(doc.rows)
    BY <2>1 DEF Shown, Overlaid
  <2>8. CtTypes'
    BY <1>0, <2>2, <2>3, <2>4, <2>5 DEF CtInv, CtTypes
  <2>9. CategoryStands'
    BY <2>2, <2>3, <2>5 DEF CtInv, CategoryStands
  <2>10. CatalogGated'
    BY <2>1, <2>5, <2>6 DEF CtInv, CatalogGated, RowLoads, RowValid
  <2>11. Inserting'
    <3> SUFFICES ASSUME NEW v \in CtWorkers, Creating(v)'
                 PROVE  /\ ctLock' = v /\ ctJob'[v].order < CtLast
                        /\ \A d \in Native' \ {Other} : ctCats'[d] < ctJob'[v].order
      BY DEF Inserting, OrderFree
    <3>1. Creating(v) /\ ctJob'[v] = ctJob[v]
      BY <2>2, <2>3 DEF Creating
    <3> QED
      BY <3>1, <1>0, <2>5 DEF CtInv, Inserting, OrderFree
  <2>12. OtherLast' /\ CategoriesOrdered'
    BY <2>5 DEF CtInv, OtherLast, CategoriesOrdered, Native
  <2>13. AddedShown'
    BY <2>1, <2>7 DEF CtInv, AddedShown
  <2>14. ASSUME NEW v \in CtWorkers PROVE Serves(v)'
    <3>1. Ahead(v) => Ahead(v)'
      BY <1>0, <2>3 DEF Ahead
    <3>2. ctAdded' \subseteq ctAdded /\ ctMissed' = ctMissed /\ ctLate' = ctLate
      BY <1>0, <2>1 DEF CtServed
    <3>3. CASE v # w
      BY <3>1, <3>2, <3>3, <1>0, <2>4, KindsAre, StillServes
    <3>4. CASE v = w
      <4>1. Serves(w)
        BY DEF CtInv, AllServe
      <4> QED
        BY <3>1, <3>2, <3>4, <4>1, <1>0, <2>4 DEF Serves, AddedComing, Coming, Reloading, ReadAll
    <3> QED
      BY <3>3, <3>4
  <2> QED
    BY <2>8, <2>9, <2>10, <2>11, <2>12, <2>13, <2>14 DEF CtInv, AllServe
<1> QED
  BY <1>2

LEMMA CatalogWiped ==
  ASSUME CtInv, Wiped
  PROVE  CtInv'
<1>1. /\ \A w \in CtWorkers : ctJob[w].step = "idle"
      /\ ctCats' = [c \in {"seed", Other} |-> IF c = Other THEN CtLast ELSE 1]
      /\ ctRows' = [x \in {} |-> 0] /\ ctAdded' = {} /\ ctForeign' = {}
      /\ UNCHANGED <<ctLock, ctCache, ctPending, ctJob, ctRefresh, ctFailed, CtServed, ctDoc>>
  BY DEF Wiped, CtIdle
<1>2. CtTypes'
  BY <1>1, SeedOrders DEF CtInv, CtTypes
<1>3. CategoryStands' /\ Inserting'
  BY <1>1 DEF CategoryStands, Inserting, Creating
<1>4. CatalogGated' /\ AddedShown'
  BY <1>1 DEF CatalogGated, Shown, AddedShown
<1>6. AllServe'
  BY <1>1 DEF AllServe, Serves, AddedComing, ReadAll
<1>5. OtherLast' /\ CategoriesOrdered'
  BY <1>1, CtConstants, SeedOrders DEF OtherLast, Native, CategoriesOrdered
<1> QED
  BY <1>2, <1>3, <1>4, <1>5, <1>6 DEF CtInv

LEMMA CatalogStep ==
  ASSUME CtInv, [CtNext]_ctVars
  PROVE  CtInv'
<1>1. CASE UNCHANGED ctVars
  <2>1. AllServe'
    <3> SUFFICES ASSUME NEW v \in CtWorkers PROVE Serves(v)'
      BY DEF AllServe
    <3>1. Ahead(v) => Ahead(v)'
      BY <1>1 DEF Ahead, ctVars
    <3> QED
      BY <3>1, <1>1, StillServes DEF ctVars, ctTables
  <2> QED
    BY <2>1, <1>1, CatalogServes DEF ctVars, CtInv, CtTypes
<1>2. ASSUME NEW w \in CtWorkers,
             \/ \E c \in CtNew : CreateCategory(w, c)
             \/ \E x \in CtProviders, c \in CtNew \cup {"seed"}, new \in BOOLEAN : AddProvider(w, x, c, new)
             \/ ExportCategories(w)
      PROVE  CtInv'
  BY <1>2, CatalogBegins
<1>3. ASSUME NEW w \in CtWorkers, ExportRows(w) \/ ImportEnds(w)
      PROVE  CtInv'
  BY <1>3, CatalogExports
<1> QED
  BY <1>1, <1>2, <1>3, CatalogVerified, CatalogInserts, CatalogCommits, CatalogReloads, CatalogFleetReloads,
     CatalogReads, CatalogRefreshEnds, CatalogRefreshRaises, CatalogBroadcasts, CatalogCrashes, CatalogImports, CatalogWiped
     DEF CtNext

\* The catalog's tables, the jobs that write them and the caches of the workers agree in every state
\* that the code reaches.
THEOREM CatalogInvariance == CtSpec => []CtInv
BY CatalogInitially, CatalogStep, PTL DEF CtSpec

\* What is stored of the catalog loads on a worker that boots, sorts as it was created, and a provider
\* that was added is served by every worker that has no reload ahead, running or failed, unless it was
\* not told or an older read of its own overtook the reload (catalog_write.py's create lock,
\* store/backup.py's checks, the announcement after the local reload).
THEOREM CatalogStaysSound == CtSpec => []CatalogSound
<1>1. CtInv => AddedServed
  <2> SUFFICES ASSUME CtInv, NEW x \in ctAdded, NEW w \in CtWorkers, w \notin ctMissed, w \notin ctFailed,
                      \A v \in CtWorkers : ctJob[v].step \notin {"reload", "announce"},
                      ~ctPending[w] /\ ctRefresh[<<w, "reload">>] = NoRefresh
               PROVE  x \in ctCache[w]
    BY DEF AddedServed
  <2> QED
    BY DEF CtInv, AllServe, Serves, AddedComing, Coming, Ahead, Reloading
<1>2. CtInv => CatalogSound
  BY <1>1 DEF CtInv, CatalogSound
<1> QED
  BY <1>2, CatalogInvariance, PTL

----------------------------------------------------------------------------
----------------------------------------------------------------------------
(* The connection service. *)

BodyPcs == {"load", "persist", "revoke", "apply", "delete"}
CnKinds == {"idle", "none", "connect", "reconnect", "toggle", "patch", "disconnect"}
CnPcs == {"idle", "exchange", "lock", "load", "persist", "revoke", "apply", "delete", "fork"}
CnOps == [kind : CnKinds, pc : CnPcs, conn : CnIds \cup {None}, alias : Aliases \cup {None}, subs : SUBSET Subs, granted : SUBSET Subs,
          flow : Flows \cup {None}, blob : Nat, tok : Nat, add : SUBSET Subs, remove : SUBSET Subs, consent : SUBSET Subs]

\* The fields an operation has at each of its steps.
Shaped(o) ==
    /\ o \in CnOps /\ o.add \cap o.remove = {}
    /\ o.pc = "idle" <=> o.kind = "idle"
    /\ o.pc = "idle" => o.conn = None /\ o.flow = None
    /\ o.pc = "exchange" => o.kind \in {"connect", "reconnect", "toggle"} /\ o.add = {} /\ o.remove = {} /\ o.consent = {}
    /\ o.pc \in {"lock", "load"} => o.kind \in {"reconnect", "toggle", "patch", "disconnect"} /\ o.add = {} /\ o.remove = {} /\ o.consent = {}
    /\ o.pc = "persist" => o.kind # "disconnect" /\ o.alias \in Aliases
    /\ o.pc = "persist" /\ o.kind \in {"none", "connect"} => o.add = {} /\ o.remove = {} /\ o.consent = {}
    /\ o.pc \in {"revoke", "delete"} => o.kind = "disconnect"
    /\ o.kind = "disconnect" /\ o.pc \notin {"lock", "load"} => o.add = {} /\ o.remove = Subs
    /\ o.pc \in {"apply", "fork"} /\ o.kind # "disconnect" => o.alias \in Aliases
    /\ (o.pc = "fork" => o.consent # {}) /\ (o.consent # {} => o.kind = "patch")
    /\ o.pc \notin {"idle", "exchange"} => o.conn \in CnIds
    /\ o.pc = "exchange" => o.alias \in Aliases /\ (o.conn \in CnIds <=> o.kind # "connect")
    /\ o.kind \in {"connect", "reconnect", "toggle"} => o.flow \in Flows
    /\ o.kind \in {"none", "patch", "disconnect"} => o.flow = None

\* The stored data, and the locks.
CnData ==
    /\ cnRec \in [CnIds -> CnRecord \cup {None}]
    /\ manifest \in [Titles -> CnIds \cup {None}]
    /\ flows \in [Flows -> Flow \cup {None}]
    /\ \A f \in Flows : flows[f] # None => (flows[f].conn \in CnIds <=> flows[f].kind # "connect")
    /\ grant \in [CnIds -> {"none", "live", "again", "dead", "left"}]
    /\ cnWrites \in [Flows -> Nat] /\ mishap \in [stalled : BOOLEAN, cut : BOOLEAN]
CnLocks ==
    /\ lock \in [CnIds -> CnWorkers \cup {None}]
    /\ \A c \in CnIds : lock[c] # None => cnOp[lock[c]].conn = c /\ cnOp[lock[c]].pc \in BodyPcs
CnTypes == CnData /\ CnLocks /\ DOMAIN cnOp = CnWorkers /\ \A w \in CnWorkers : Shaped(cnOp[w])

\* A flow waits, or one operation has it, or it is over; its record is written at the persist.
OneUse ==
    /\ \A f \in Flows : cnWrites[f] <= 1 /\ (flows[f] # None => cnWrites[f] = 0)
    /\ \A w \in CnWorkers : cnOp[w].flow # None =>
          /\ flows[cnOp[w].flow] = None
          /\ cnOp[w].pc \in {"exchange", "lock", "load", "persist"} => cnWrites[cnOp[w].flow] = 0
          /\ \A v \in CnWorkers \ {w} : cnOp[v].flow # cnOp[w].flow

\* A connection about to be created is known to nobody else.
Creates(o) == o.kind \in {"none", "connect"} /\ o.pc = "persist"
Apart(w) ==
    LET c == cnOp[w].conn IN
    /\ cnRec[c] = None /\ grant[c] = IF cnOp[w].kind = "none" THEN "none" ELSE "live"
    /\ \A v \in CnWorkers \ {w} : cnOp[v].conn # c
    /\ \A f \in Flows : flows[f] # None => flows[f].conn # c
    /\ \A t \in Titles : manifest[t] # c
Unknown == \A w \in CnWorkers : Creates(cnOp[w]) => Apart(w)

\* What the consent behind a connection still is.
Leaves(o) == o.kind = "disconnect" /\ o.pc \in {"apply", "delete"}
ConsentOf(c) ==
    /\ grant[c] = "live" => cnRec[c] # None \/ \E w \in CnWorkers : Creates(cnOp[w]) /\ cnOp[w].conn = c
    /\ cnRec[c] # None /\ ~cnRec[c].oauth => grant[c] # "live"
    /\ grant[c] = "dead" /\ cnRec[c] # None /\ ~mishap.cut /\ ~mishap.stalled =>
          \E w \in CnWorkers : cnOp[w].conn = c /\ Leaves(cnOp[w])
    /\ \A w \in CnWorkers : cnOp[w].conn = c /\ Leaves(cnOp[w]) => grant[c] # "live"
Consents == \A c \in CnIds : ConsentOf(c)

\* What a change read of its record is not newer than the record, token by token.
Changes(o) == o.kind \in {"reconnect", "toggle", "patch"} /\ o.pc = "persist"
ReadBefore ==
    \A w \in CnWorkers : Changes(cnOp[w]) /\ cnRec[cnOp[w].conn] # None =>
        LET o == cnOp[w]
            r == cnRec[cnOp[w].conn] IN
        o.blob <= r.blob /\ (o.blob = r.blob => o.tok >= r.tok)

\* As long as no body outlives its lock, the connection is the body's own.
EnabledOf(c) == IF cnRec[c] = None THEN {} ELSE cnRec[c].enabled
Applies(o) == o.pc = "apply" /\ o.kind # "disconnect"
OwnBody(w, c) ==
    cnOp[w].conn = c /\ cnOp[w].pc \in BodyPcs =>
      /\ lock[c] = w
      /\ Changes(cnOp[w]) \/ Applies(cnOp[w]) => cnRec[c] # None
      /\ cnOp[w].pc = "delete" => Wired(c) = {}
Exclusive == \A c \in CnIds : (Wired(c) # {} => cnRec[c] # None) /\ \A w \in CnWorkers : OwnBody(w, c)

\* As long as none was cut short either, the manifest is where the body's next step finds it.
OnCourse(w, c) ==
    cnOp[w].conn = c =>
      /\ Changes(cnOp[w]) => Wired(c) = EnabledOf(c) /\ cnOp[w].subs = (Wired(c) \ cnOp[w].remove) \cup cnOp[w].add
      /\ Applies(cnOp[w]) => EnabledOf(c) = (Wired(c) \ cnOp[w].remove) \cup cnOp[w].add
InStep == \A c \in CnIds : (~InHand(c) => Wired(c) = EnabledOf(c)) /\ \A w \in CnWorkers : OnCourse(w, c)

CnInv ==
    /\ CnTypes /\ OneUse /\ Unknown /\ Consents /\ ReadBefore
    /\ ~mishap.stalled => Exclusive
    /\ ~mishap.stalled /\ ~mishap.cut => InStep

----------------------------------------------------------------------------
(* What a step leaves alone: worker w turns to operation p and touches connection c. A step of *)
(* nobody's is one of a w that is no worker; a step that touches no connection has None for c. *)

Becomes(w, p) ==
    /\ DOMAIN cnOp' = CnWorkers /\ (w \in CnWorkers => cnOp'[w] = p)
    /\ \A v \in CnWorkers \ {w} : cnOp'[v] = cnOp[v]
CnElse(c) == \A d \in CnIds \ {c} : cnRec'[d] = cnRec[d] /\ \A t \in Titles : manifest'[t] = d <=> manifest[t] = d
GrantElse(c) == \A d \in CnIds \ {c} : grant'[d] = grant[d]
FlowsOf(c) == \A f \in Flows : flows'[f] # None => flows'[f].conn = c \/ (flows[f] # None /\ flows[f].conn = flows'[f].conn)
LockMoves(w, p) ==
    /\ lock' \in [CnIds -> CnWorkers \cup {None}]
    /\ \A c \in CnIds : lock'[c] # None =>
         (w \in CnWorkers /\ lock'[c] = w /\ p.conn = c /\ p.pc \in BodyPcs) \/ (lock'[c] = lock[c] /\ lock[c] # w)
LockElse(w, c) == \A d \in CnIds \ {c} : lock'[d] = lock[d] \/ lock[d] = w
MishapGrows == (mishap.cut => mishap'.cut) /\ (mishap.stalled => mishap'.stalled)

LEMMA BecomesOp ==
  ASSUME CnTypes, NEW w \in CnWorkers, NEW p, cnOp' = [cnOp EXCEPT ![w] = p]
  PROVE  Becomes(w, p)
BY DEF Becomes, CnTypes

LEMMA CnTypesKept ==
  ASSUME CnTypes, NEW w, NEW p, Becomes(w, p), w \in CnWorkers => Shaped(p), CnData', LockMoves(w, p)
  PROVE  CnTypes'
<1>1. \A v \in CnWorkers : Shaped(cnOp'[v])
  BY DEF CnTypes, Becomes
<1>2. ASSUME NEW c \in CnIds, lock'[c] # None PROVE cnOp'[lock'[c]].conn = c /\ cnOp'[lock'[c]].pc \in BodyPcs
  <2>1. CASE w \in CnWorkers /\ lock'[c] = w /\ p.conn = c /\ p.pc \in BodyPcs
    BY <2>1 DEF Becomes
  <2>2. CASE lock'[c] = lock[c] /\ lock[c] # w
    <3>1. lock[c] \in CnWorkers \ {w} /\ cnOp[lock[c]].conn = c /\ cnOp[lock[c]].pc \in BodyPcs
      BY <1>2, <2>2 DEF CnTypes, CnLocks
    <3> QED BY <2>2, <3>1 DEF Becomes
  <2> QED BY <1>2, <2>1, <2>2 DEF LockMoves
<1> QED BY <1>1, <1>2 DEF CnTypes, CnLocks, Becomes, LockMoves, BodyPcs, Shaped, CnOps

LEMMA LockStays ==
  ASSUME CnTypes, NEW w, NEW p, UNCHANGED lock,
         w \in CnWorkers => cnOp[w].pc \notin BodyPcs \/ (p.pc \in BodyPcs /\ p.conn = cnOp[w].conn)
  PROVE  LockMoves(w, p) /\ \A c : LockElse(w, c)
<1>1. ASSUME NEW c \in CnIds, lock[c] # None, lock[c] = w PROVE w \in CnWorkers /\ p.conn = c /\ p.pc \in BodyPcs
  BY <1>1 DEF CnTypes, CnLocks
<1> QED BY <1>1 DEF LockMoves, LockElse, CnTypes, CnLocks

LEMMA LockLeft ==
  ASSUME CnTypes, NEW w \in CnWorkers, CnRelease(w), NEW p
  PROVE  LockMoves(w, p) /\ \A c : LockElse(w, c)
BY DEF CnRelease, LockMoves, LockElse, CnTypes, CnLocks

LEMMA LockTaken ==
  ASSUME CnTypes, NEW w \in CnWorkers, cnOp[w].pc \notin BodyPcs, NEW c \in CnIds, lock' = [lock EXCEPT ![c] = w],
         NEW p, p.conn = c, p.pc \in BodyPcs
  PROVE  LockMoves(w, p) /\ LockElse(w, c) /\ lock'[c] = w
<1>1. lock' \in [CnIds -> CnWorkers \cup {None}] /\ lock'[c] = w /\ \A d \in CnIds \ {c} : lock'[d] = lock[d]
  BY DEF CnTypes, CnLocks
<1>2. \A d \in CnIds : lock[d] # None => lock[d] # w
  BY DEF CnTypes, CnLocks
<1> QED BY <1>1, <1>2 DEF LockMoves, LockElse

\* An operation has its flow to itself until it ends.
Early == {"exchange", "lock", "load", "persist"}

LEMMA OneUseOf ==
  ASSUME OneUse, NEW v \in CnWorkers, cnOp[v].flow # None, NEW f, f = cnOp[v].flow
  PROVE  flows[f] = None /\ (cnOp[v].pc \in Early => cnWrites[f] = 0) /\ \A u \in CnWorkers \ {v} : cnOp[u].flow # f
BY DEF OneUse, Early

LEMMA OneUseKept ==
  ASSUME CnTypes, OneUse, NEW w, NEW p, Becomes(w, p), UNCHANGED cnWrites,
         \A f \in Flows : flows'[f] # None => flows'[f] = flows[f] \/ (cnWrites[f] = 0 /\ \A v \in CnWorkers : cnOp[v].flow # f),
         w \in CnWorkers => p.flow \in {None, cnOp[w].flow},
         w \in CnWorkers /\ p.flow # None /\ p.pc \in Early => cnOp[w].pc \in Early
  PROVE  OneUse'
<1>1. ASSUME NEW v \in CnWorkers, cnOp'[v].flow # None
      PROVE  cnOp'[v].flow = cnOp[v].flow /\ cnOp[v].flow \in Flows /\ (cnOp'[v].pc \in Early => cnOp[v].pc \in Early)
  <2>1. cnOp'[v].flow = cnOp[v].flow /\ (cnOp'[v].pc \in Early => cnOp[v].pc \in Early)
    BY <1>1 DEF Becomes
  <2>2. cnOp[v].flow \in Flows
    BY <1>1, <2>1 DEF CnTypes, Shaped, CnOps
  <2> QED BY <2>1, <2>2
<1>2. \A f \in Flows : cnWrites'[f] <= 1 /\ (flows'[f] # None => cnWrites'[f] = 0)
  BY DEF OneUse
<1>3. ASSUME NEW v \in CnWorkers, cnOp'[v].flow # None
      PROVE /\ flows'[cnOp'[v].flow] = None /\ (cnOp'[v].pc \in Early => cnWrites'[cnOp'[v].flow] = 0)
            /\ \A u \in CnWorkers \ {v} : cnOp'[u].flow # cnOp'[v].flow
  <2>1. PICK f \in Flows : f = cnOp[v].flow /\ f = cnOp'[v].flow /\ f # None
    BY <1>1, <1>3
  <2>2. flows[f] = None /\ (cnOp[v].pc \in Early => cnWrites[f] = 0) /\ \A u \in CnWorkers \ {v} : cnOp[u].flow # f
    BY <2>1, OneUseOf
  <2>3. \A u \in CnWorkers \ {v} : cnOp'[u].flow \in {None, cnOp[u].flow}
    BY DEF Becomes
  <2>4. flows'[f] = None
    BY <2>1, <2>2
  <2> QED BY <1>1, <1>3, <2>1, <2>2, <2>3, <2>4
<1> QED BY <1>2, <1>3 DEF OneUse, Early

\* The flow of a persist is over, and the record it wrote its only one.
LEMMA OneUseWrote ==
  ASSUME CnTypes, OneUse, NEW w \in CnWorkers, NEW p, Becomes(w, p), Wrote(cnOp[w].flow), CnAt(w, "persist"), UNCHANGED flows,
         p.flow \in {None, cnOp[w].flow}, p.pc \notin Early
  PROVE  OneUse'
<1>1. ASSUME NEW f \in Flows PROVE cnWrites'[f] = (IF f = cnOp[w].flow THEN 1 ELSE cnWrites[f]) /\ (f = cnOp[w].flow => flows[f] = None)
  <2>1. CASE f = cnOp[w].flow
    <3>1. f # None /\ cnWrites[f] = 0 /\ flows[f] = None
      BY <2>1, ConnectionConstants DEF OneUse, CnAt
    <3> QED BY <2>1, <3>1 DEF Wrote, CnTypes, CnData
  <2>2. CASE f # cnOp[w].flow
    BY <2>2 DEF Wrote, CnTypes, CnData
  <2> QED BY <2>1, <2>2
<1>2. \A f \in Flows : cnWrites'[f] <= 1 /\ (flows'[f] # None => cnWrites'[f] = 0)
  BY <1>1 DEF OneUse
<1>3. \A v \in CnWorkers : cnOp'[v].flow \in {None, cnOp[v].flow}
  BY DEF Becomes
<1>4. ASSUME NEW v \in CnWorkers, cnOp'[v].flow # None
      PROVE /\ flows'[cnOp'[v].flow] = None /\ (cnOp'[v].pc \in Early => cnWrites'[cnOp'[v].flow] = 0)
            /\ \A u \in CnWorkers \ {v} : cnOp'[u].flow # cnOp'[v].flow
  <2>1. PICK f \in Flows : f = cnOp[v].flow /\ f = cnOp'[v].flow /\ f # None
    BY <1>3, <1>4 DEF CnTypes, Shaped, CnOps
  <2>2. flows[f] = None /\ (cnOp[v].pc \in Early => cnWrites[f] = 0) /\ \A u \in CnWorkers \ {v} : cnOp[u].flow # f
    BY <2>1, OneUseOf
  <2>3. cnOp'[v].pc \in Early => cnWrites'[f] = 0
    <3>1. CASE v = w
      BY <3>1 DEF Becomes
    <3>2. CASE v # w
      BY <1>1, <2>1, <2>2, <3>2 DEF Becomes
    <3> QED BY <3>1, <3>2
  <2> QED BY <1>3, <2>1, <2>2, <2>3
<1> QED BY <1>2, <1>4 DEF OneUse, Early

LEMMA NotCreated ==
  ASSUME Unknown
  PROVE  /\ \A w \in CnWorkers : \A v \in CnWorkers \ {w} : Creates(cnOp[v]) => cnOp[v].conn # cnOp[w].conn
         /\ \A c : cnRec[c] # None => \A v \in CnWorkers : Creates(cnOp[v]) => cnOp[v].conn # c
         /\ \A f \in Flows : flows[f] # None => \A v \in CnWorkers : Creates(cnOp[v]) => cnOp[v].conn # flows[f].conn
BY DEF Unknown, Apart

LEMMA CreatesConn == ASSUME CnTypes PROVE \A v \in CnWorkers : Creates(cnOp[v]) => cnOp[v].conn \in CnIds /\ cnOp[v].conn # None
BY ConnectionConstants DEF CnTypes, Shaped, Creates

LEMMA UnknownKept ==
  ASSUME CnTypes, Unknown, NEW w, NEW p, Becomes(w, p), NEW c, CnElse(c), GrantElse(c), FlowsOf(c),
         w \in CnWorkers => ~Creates(p) /\ p.conn \in {None, c},
         \A v \in CnWorkers \ {w} : Creates(cnOp[v]) => cnOp[v].conn # c
  PROVE  Unknown'
<1>2. ASSUME NEW v \in CnWorkers, Creates(cnOp'[v]) PROVE Apart(v)'
  <2>1. v # w /\ cnOp'[v] = cnOp[v] /\ Creates(cnOp[v]) /\ Apart(v)
    BY <1>2 DEF Unknown, Becomes
  <2>2. PICK d \in CnIds : d = cnOp[v].conn /\ d # c /\ d # None
    BY <2>1, CreatesConn
  <2>3. cnRec'[d] = cnRec[d] /\ grant'[d] = grant[d] /\ \A t \in Titles : manifest'[t] = d <=> manifest[t] = d
    BY <2>2 DEF CnElse, GrantElse
  <2>4. \A u \in CnWorkers \ {v} : cnOp'[u].conn # d
    BY <2>1, <2>2 DEF Apart, Becomes
  <2>5. \A f \in Flows : flows'[f] # None => flows'[f].conn # d
    BY <2>1, <2>2 DEF Apart, FlowsOf
  <2> QED BY <2>1, <2>2, <2>3, <2>4, <2>5 DEF Apart
<1> QED BY <1>2 DEF Unknown, Creates

\* A new connection is known to its operation only.
LEMMA UnknownMade ==
  ASSUME CnTypes, Unknown, NEW w \in CnWorkers, NEW p, Becomes(w, p), NEW c \in CnIds, FreshId(c), CnElse(c), GrantElse(c), Creates(p), p.conn = c,
         UNCHANGED <<cnRec, manifest, flows>>, grant'[c] = (IF p.kind = "none" THEN "none" ELSE "live")
  PROVE  Unknown'
<1>1. ASSUME NEW v \in CnWorkers, Creates(cnOp'[v]) PROVE Apart(v)'
  <2>1. CASE v = w
    <3>1. cnOp'[v] = p /\ \A u \in CnWorkers \ {w} : cnOp'[u].conn # c
      BY <2>1 DEF Becomes, FreshId
    <3>2. \A f \in Flows : flows'[f] # None => flows'[f].conn # c
      BY DEF FreshId
    <3>3. cnRec'[c] = None /\ \A t \in Titles : manifest'[t] # c
      BY DEF FreshId
    <3> QED BY <2>1, <3>1, <3>2, <3>3 DEF Apart
  <2>2. CASE v # w
    <3>1. cnOp'[v] = cnOp[v] /\ Creates(cnOp[v]) /\ Apart(v)
      BY <1>1, <2>2 DEF Unknown, Becomes
    <3>2. PICK d \in CnIds : d = cnOp[v].conn /\ d # c
      BY <3>1, CreatesConn DEF FreshId
    <3>3. \A u \in CnWorkers \ {v} : cnOp'[u].conn # d
      BY <3>1, <3>2 DEF Apart, Becomes
    <3>4. grant'[d] = grant[d]
      BY <3>2 DEF GrantElse
    <3> QED BY <3>1, <3>2, <3>3, <3>4 DEF Apart
  <2> QED BY <2>1, <2>2
<1> QED BY <1>1 DEF Unknown, Creates

\* A step that leaves records and consents alone.
LEMMA ConsentsKept ==
  ASSUME CnTypes, Consents, NEW w, NEW p, Becomes(w, p), UNCHANGED <<cnRec, grant>>, MishapGrows,
         w \in CnWorkers => ~Creates(cnOp[w]),
         w \in CnWorkers /\ Leaves(cnOp[w]) => mishap'.cut \/ (p.conn = cnOp[w].conn /\ Leaves(p)),
         w \in CnWorkers /\ Leaves(p) => grant[p.conn] # "live"
  PROVE  Consents'
<1>1. ASSUME NEW c \in CnIds PROVE ConsentOf(c)'
  <2>1. ASSUME grant[c] = "live", cnRec[c] = None PROVE \E v \in CnWorkers : Creates(cnOp'[v]) /\ cnOp'[v].conn = c
    <3>1. PICK v \in CnWorkers : Creates(cnOp[v]) /\ cnOp[v].conn = c
      BY <2>1 DEF Consents, ConsentOf
    <3> QED BY <3>1 DEF Becomes
  <2>2. ASSUME grant[c] = "dead", cnRec[c] # None, ~mishap'.cut, ~mishap'.stalled
        PROVE \E v \in CnWorkers : cnOp'[v].conn = c /\ Leaves(cnOp'[v])
    <3>1. PICK v \in CnWorkers : cnOp[v].conn = c /\ Leaves(cnOp[v])
      BY <2>2 DEF Consents, ConsentOf, MishapGrows
    <3> QED BY <2>2, <3>1 DEF Becomes
  <2>3. \A v \in CnWorkers : cnOp'[v].conn = c /\ Leaves(cnOp'[v]) => grant[c] # "live"
    BY DEF Consents, ConsentOf, Becomes
  <2>4. cnRec[c] # None /\ ~cnRec[c].oauth => grant[c] # "live"
    BY DEF Consents, ConsentOf
  <2> QED BY <2>1, <2>2, <2>3, <2>4 DEF ConsentOf, Creates, Leaves
<1> QED BY <1>1 DEF Consents

\* A step that changes one connection's record or consent.
LEMMA ConsentsMoved ==
  ASSUME CnTypes, Consents, NEW w, NEW p, Becomes(w, p), NEW c \in CnIds, CnElse(c), GrantElse(c), MishapGrows,
         w \in CnWorkers => p.conn \in {None, c} /\ (cnOp[w].conn = c \/ ~(Creates(cnOp[w]) \/ Leaves(cnOp[w]))), ConsentOf(c)'
  PROVE  Consents'
<1>1. ASSUME NEW d \in CnIds \ {c} PROVE ConsentOf(d)'
  <2>1. cnRec'[d] = cnRec[d] /\ grant'[d] = grant[d] /\ d # None
    BY ConnectionConstants DEF CnElse, GrantElse
  <2>2. ASSUME grant[d] = "live", cnRec[d] = None PROVE \E v \in CnWorkers : Creates(cnOp'[v]) /\ cnOp'[v].conn = d
    <3>1. PICK v \in CnWorkers : Creates(cnOp[v]) /\ cnOp[v].conn = d
      BY <2>2 DEF Consents, ConsentOf
    <3> QED BY <3>1 DEF Becomes
  <2>3. ASSUME grant[d] = "dead", cnRec[d] # None, ~mishap'.cut, ~mishap'.stalled
        PROVE \E v \in CnWorkers : cnOp'[v].conn = d /\ Leaves(cnOp'[v])
    <3>1. PICK v \in CnWorkers : cnOp[v].conn = d /\ Leaves(cnOp[v])
      BY <2>3 DEF Consents, ConsentOf, MishapGrows
    <3> QED BY <3>1 DEF Becomes
  <2>4. \A v \in CnWorkers : cnOp'[v].conn = d /\ Leaves(cnOp'[v]) => grant[d] # "live"
    BY <2>1 DEF Consents, ConsentOf, Becomes
  <2>5. cnRec[d] # None /\ ~cnRec[d].oauth => grant[d] # "live"
    BY DEF Consents, ConsentOf
  <2> QED BY <2>1, <2>2, <2>3, <2>4, <2>5 DEF ConsentOf, Creates, Leaves
<1> QED BY <1>1 DEF Consents

LEMMA ReadKept ==
  ASSUME CnTypes, ReadBefore, NEW w, NEW p, Becomes(w, p), CnData',
         \A c \in CnIds : cnRec'[c] # None /\ cnRec'[c] # cnRec[c] =>
            /\ cnRec[c] # None => cnRec'[c].blob > cnRec[c].blob
            /\ cnRec[c] = None => \A v \in CnWorkers \ {w} : Changes(cnOp[v]) => cnOp[v].conn # c,
         w \in CnWorkers /\ Changes(p) =>
            \A c \in CnIds : p.conn = c /\ cnRec'[c] # None => p.blob <= cnRec'[c].blob /\ (p.blob = cnRec'[c].blob => p.tok >= cnRec'[c].tok),
         w \in CnWorkers => Shaped(p)
  PROVE  ReadBefore'
<1>1. ASSUME NEW v \in CnWorkers \ {w}, Changes(cnOp[v]), NEW c \in CnIds, c = cnOp[v].conn, cnRec'[c] # None
      PROVE cnOp[v].blob <= cnRec'[c].blob /\ (cnOp[v].blob = cnRec'[c].blob => cnOp[v].tok >= cnRec'[c].tok)
  <2>1. cnOp[v].blob \in Nat /\ cnOp[v].tok \in Nat
    BY DEF CnTypes, Shaped, CnOps
  <2>2. cnRec[c] # None
    BY <1>1
  <2>3. cnOp[v].blob <= cnRec[c].blob /\ (cnOp[v].blob = cnRec[c].blob => cnOp[v].tok >= cnRec[c].tok)
    BY <1>1, <2>2 DEF ReadBefore
  <2>4. cnRec[c].blob \in Nat /\ cnRec'[c].blob \in Nat
    BY <1>1, <2>2 DEF CnTypes, CnData, CnRecord
  <2>5. CASE cnRec'[c] = cnRec[c]
    BY <2>3, <2>5
  <2>6. CASE cnRec'[c] # cnRec[c]
    <3>1. cnRec'[c].blob > cnRec[c].blob
      BY <1>1, <2>2, <2>6
    <3> QED BY <2>1, <2>3, <2>4, <3>1
  <2> QED BY <2>5, <2>6
<1>2. ASSUME NEW v \in CnWorkers, Changes(cnOp'[v]), cnRec'[cnOp'[v].conn] # None
      PROVE cnOp'[v].blob <= cnRec'[cnOp'[v].conn].blob /\ (cnOp'[v].blob = cnRec'[cnOp'[v].conn].blob => cnOp'[v].tok >= cnRec'[cnOp'[v].conn].tok)
  <2>1. CASE v = w
    <3>1. cnOp'[v] = p /\ p.conn \in CnIds
      BY <1>2, <2>1 DEF Becomes, Shaped, Changes
    <3> QED BY <1>2, <2>1, <3>1
  <2>2. CASE v # w
    <3>1. cnOp'[v] = cnOp[v] /\ cnOp[v].conn \in CnIds
      BY <1>2, <2>2 DEF Becomes, Shaped, Changes, CnTypes
    <3> QED BY <1>1, <1>2, <2>2, <3>1
  <2> QED BY <2>1, <2>2
<1> QED BY <1>2 DEF ReadBefore, Changes

LEMMA WiredSame == ASSUME UNCHANGED manifest PROVE \A c : Wired(c)' = Wired(c)
BY DEF Wired

LEMMA WiredElse == ASSUME NEW c, CnElse(c), NEW d \in CnIds \ {c} PROVE Wired(d)' = Wired(d) /\ EnabledOf(d)' = EnabledOf(d)
<1>1. {t \in Titles : manifest'[t] = d} = {t \in Titles : manifest[t] = d}
  BY DEF CnElse
<1> QED BY <1>1 DEF CnElse, Wired, EnabledOf

\* Nobody else is in a body on c.
Alone(w, c) == \A v \in CnWorkers \ {w} : cnOp[v].pc \in BodyPcs => cnOp[v].conn # c

LEMMA BodyAlone ==
  ASSUME Exclusive, NEW c \in CnIds
  PROVE  (\A w \in CnWorkers : cnOp[w].pc \in BodyPcs /\ cnOp[w].conn = c => Alone(w, c)) /\ (lock[c] = None => \A w : Alone(w, c))
<1>1. \A v \in CnWorkers : cnOp[v].pc \in BodyPcs /\ cnOp[v].conn = c => lock[c] = v
  BY DEF Exclusive, OwnBody
<1>2. \A v \in CnWorkers : v # None
  BY ConnectionConstants
<1> QED BY <1>1, <1>2 DEF Alone

LEMMA ExclusiveKept ==
  ASSUME CnTypes, Exclusive, NEW w, NEW p, Becomes(w, p), NEW c, CnElse(c), LockElse(w, c),
         w \in CnWorkers /\ p.pc \in BodyPcs => p.conn = c,
         c \in CnIds => /\ Alone(w, c)
                        /\ Wired(c)' # {} => cnRec'[c] # None
                        /\ w \in CnWorkers /\ p.pc \in BodyPcs => lock'[c] = w
                        /\ w \in CnWorkers /\ (Changes(p) \/ Applies(p)) => cnRec'[c] # None
                        /\ w \in CnWorkers /\ p.pc = "delete" => Wired(c)' = {}
  PROVE  Exclusive'
<1>1. ASSUME NEW d \in CnIds, Wired(d)' # {} PROVE cnRec'[d] # None
  <2>1. CASE d = c
    BY <1>1, <2>1
  <2>2. CASE d # c
    <3>1. Wired(d)' = Wired(d)
      BY <2>2, WiredElse
    <3>2. cnRec'[d] = cnRec[d]
      BY <2>2 DEF CnElse
    <3> QED BY <1>1, <3>1, <3>2 DEF Exclusive
  <2> QED BY <2>1, <2>2
<1>2. ASSUME NEW d \in CnIds, NEW v \in CnWorkers, cnOp'[v].conn = d, cnOp'[v].pc \in BodyPcs
      PROVE /\ lock'[d] = v /\ (Changes(cnOp'[v]) \/ Applies(cnOp'[v]) => cnRec'[d] # None)
            /\ cnOp'[v].pc = "delete" => Wired(d)' = {}
  <2>1. CASE v = w
    <3>1. cnOp'[v] = p /\ d = c
      BY <1>2, <2>1 DEF Becomes
    <3> QED BY <1>2, <2>1, <3>1
  <2>2. CASE v # w
    <3>1. cnOp'[v] = cnOp[v] /\ d # c
      BY <1>2, <2>2 DEF Becomes, Alone
    <3>2. lock[d] = v /\ (Changes(cnOp[v]) \/ Applies(cnOp[v]) => cnRec[d] # None) /\ (cnOp[v].pc = "delete" => Wired(d) = {})
      BY <1>2, <3>1 DEF Exclusive, OwnBody
    <3>3. Wired(d)' = Wired(d)
      BY <3>1, WiredElse
    <3>4. cnRec'[d] = cnRec[d] /\ lock'[d] = lock[d]
      BY <2>2, <3>1, <3>2 DEF CnElse, LockElse
    <3> QED BY <3>1, <3>2, <3>3, <3>4
  <2> QED BY <2>1, <2>2
<1> QED BY <1>1, <1>2 DEF Exclusive, OwnBody, BodyPcs, Changes, Applies

HandPcs == {"persist", "revoke", "apply", "delete"}

LEMMA InStepKept ==
  ASSUME CnTypes, InStep, NEW w, NEW p, Becomes(w, p), NEW c, CnElse(c),
         w \in CnWorkers => (p.pc \in HandPcs => p.conn = c) /\ (cnOp[w].pc \in HandPcs => cnOp[w].conn = c),
         c \in CnIds => /\ Alone(w, c)
                        /\ ~(w \in CnWorkers /\ p.pc \in HandPcs) => Wired(c)' = EnabledOf(c)'
                        /\ w \in CnWorkers /\ Changes(p) => Wired(c)' = EnabledOf(c)' /\ p.subs = (Wired(c)' \ p.remove) \cup p.add
                        /\ w \in CnWorkers /\ Applies(p) => EnabledOf(c)' = (Wired(c)' \ p.remove) \cup p.add
  PROVE  InStep'
<1>1. ASSUME NEW d \in CnIds, ~InHand(d)' PROVE Wired(d)' = EnabledOf(d)'
  <2>1. CASE d = c
    <3>1. ~(w \in CnWorkers /\ p.pc \in HandPcs)
      BY <1>1, <2>1 DEF Becomes, InHand, HandPcs
    <3> QED BY <2>1, <3>1
  <2>2. CASE d # c
    <3>1. ~InHand(d)
      <4>1. ASSUME NEW v \in CnWorkers, cnOp[v].conn = d, cnOp[v].pc \in HandPcs PROVE FALSE
        <5>1. v # w
          BY <2>2, <4>1
        <5> QED BY <1>1, <4>1, <5>1 DEF InHand, HandPcs, Becomes
      <4> QED BY <4>1 DEF InHand, HandPcs
    <3> QED BY <2>2, <3>1, WiredElse DEF InStep
  <2> QED BY <2>1, <2>2
<1>2. ASSUME NEW d \in CnIds, NEW v \in CnWorkers, cnOp'[v].conn = d
      PROVE /\ Changes(cnOp'[v]) => Wired(d)' = EnabledOf(d)' /\ cnOp'[v].subs = (Wired(d)' \ cnOp'[v].remove) \cup cnOp'[v].add
            /\ Applies(cnOp'[v]) => EnabledOf(d)' = (Wired(d)' \ cnOp'[v].remove) \cup cnOp'[v].add
  <2>0. Changes(cnOp'[v]) \/ Applies(cnOp'[v]) => cnOp'[v].pc \in HandPcs
    BY DEF Changes, Applies, HandPcs
  <2>1. CASE v = w
    <3>1. cnOp'[v] = p /\ (p.pc \in HandPcs => d = c)
      BY <1>2, <2>1 DEF Becomes
    <3> QED BY <1>2, <2>0, <2>1, <3>1
  <2>2. CASE v # w
    <3>1. cnOp'[v] = cnOp[v] /\ (cnOp[v].pc \in HandPcs => d # c)
      BY <1>2, <2>2 DEF Becomes, Alone, HandPcs, BodyPcs
    <3>2. /\ Changes(cnOp[v]) => Wired(d) = EnabledOf(d) /\ cnOp[v].subs = (Wired(d) \ cnOp[v].remove) \cup cnOp[v].add
          /\ Applies(cnOp[v]) => EnabledOf(d) = (Wired(d) \ cnOp[v].remove) \cup cnOp[v].add
      BY <1>2, <3>1 DEF InStep, OnCourse
    <3>3. d # c => Wired(d)' = Wired(d) /\ EnabledOf(d)' = EnabledOf(d)
      BY WiredElse
    <3> QED BY <2>0, <3>1, <3>2, <3>3
  <2> QED BY <2>1, <2>2
<1> QED BY <1>1, <1>2 DEF InStep, OnCourse, Changes, Applies

----------------------------------------------------------------------------
(* The steps that leave records, consents and entries alone. *)

LEMMA CnIdleIs ==
  /\ Shaped(CnIdle) /\ CnIdle.conn = None /\ CnIdle.flow = None /\ CnIdle.pc = "idle"
  /\ ~Creates(CnIdle) /\ ~Changes(CnIdle) /\ ~Leaves(CnIdle) /\ ~Applies(CnIdle)
BY DEF CnIdle, Shaped, CnOps, CnKinds, CnPcs, Creates, Changes, Leaves, Applies

LEMMA CnInvIs ==
  ASSUME CnTypes', OneUse', Unknown', Consents', ReadBefore', ~mishap'.stalled => Exclusive', ~mishap'.stalled /\ ~mishap'.cut => InStep'
  PROVE  CnInv'
BY DEF CnInv

LEMMA QuietParts ==
  ASSUME CnInv, NEW w, NEW p, Becomes(w, p), NEW c, UNCHANGED <<cnRec, grant, manifest>>, CnData', FlowsOf(c), MishapGrows,
         w \in CnWorkers => Shaped(p) /\ ~Creates(p) /\ ~Creates(cnOp[w]) /\ p.conn \in {None, c},
         w \in CnWorkers /\ Leaves(cnOp[w]) => mishap'.cut \/ (p.conn = cnOp[w].conn /\ Leaves(p)),
         w \in CnWorkers /\ Leaves(p) => grant[p.conn] # "live",
         \A v \in CnWorkers \ {w} : Creates(cnOp[v]) => cnOp[v].conn # c,
         w \in CnWorkers /\ Changes(p) =>
            \A d \in CnIds : p.conn = d /\ cnRec[d] # None => p.blob <= cnRec[d].blob /\ (p.blob = cnRec[d].blob => p.tok >= cnRec[d].tok)
  PROVE  Unknown' /\ Consents' /\ ReadBefore'
<1>1. CnElse(c) /\ GrantElse(c)
  BY DEF CnElse, GrantElse
<1>2. CnTypes /\ Unknown /\ Consents /\ ReadBefore
  BY DEF CnInv
<1>3. Unknown'
  BY <1>1, <1>2, UnknownKept
<1>4. Consents'
  BY <1>2, ConsentsKept
<1>5. ReadBefore'
  <2>1. \A d \in CnIds : cnRec'[d] # None /\ cnRec'[d] # cnRec[d] =>
            /\ cnRec[d] # None => cnRec'[d].blob > cnRec[d].blob
            /\ cnRec[d] = None => \A v \in CnWorkers \ {w} : Changes(cnOp[v]) => cnOp[v].conn # d
    OBVIOUS
  <2>2. w \in CnWorkers /\ Changes(p) =>
            \A d \in CnIds : p.conn = d /\ cnRec'[d] # None => p.blob <= cnRec'[d].blob /\ (p.blob = cnRec'[d].blob => p.tok >= cnRec'[d].tok)
    OBVIOUS
  <2> QED BY <1>2, <2>1, <2>2, ReadKept
<1> QED BY <1>3, <1>4, <1>5

LEMMA NoneElse ==
  ASSUME UNCHANGED <<cnRec, manifest>>
  PROVE  \A c : CnElse(c) /\ Wired(c)' = Wired(c) /\ EnabledOf(c)' = EnabledOf(c)
BY DEF CnElse, Wired, EnabledOf

\* A step of nobody's: a flow is started or dropped, or a lock expires.
LEMMA NobodyKeeps ==
  ASSUME CnInv, UNCHANGED <<cnRec, grant, manifest, cnOp, cnWrites>>, CnData', MishapGrows, NEW c, FlowsOf(c),
         \A v \in CnWorkers : Creates(cnOp[v]) => cnOp[v].conn # c,
         \A f \in Flows : flows'[f] # None => flows'[f] = flows[f] \/ (cnWrites[f] = 0 /\ \A v \in CnWorkers : cnOp[v].flow # f),
         UNCHANGED lock \/ (mishap'.stalled /\ LockMoves(None, CnIdle))
  PROVE  CnInv'
<1>0. CnTypes /\ OneUse /\ None \notin CnWorkers /\ None \notin CnIds
  BY ConnectionConstants DEF CnInv
<1>1. Becomes(None, CnIdle)
  BY <1>0 DEF Becomes, CnTypes
<1>2. LockMoves(None, CnIdle)
  BY <1>0, LockStays
<1>3. CnTypes'
  BY <1>0, <1>1, <1>2, CnTypesKept
<1>4. OneUse'
  BY <1>0, <1>1, OneUseKept
<1>5. Unknown' /\ Consents' /\ ReadBefore'
  BY <1>0, <1>1, QuietParts
<1>6. ASSUME ~mishap'.stalled PROVE Exclusive'
  <2>1. Exclusive /\ UNCHANGED lock
    BY <1>6 DEF CnInv, MishapGrows
  <2>2. CnElse(None) /\ LockElse(None, None)
    BY <2>1, NoneElse DEF LockElse
  <2> QED BY <1>0, <1>1, <2>1, <2>2, ExclusiveKept
<1>7. ASSUME ~mishap'.stalled, ~mishap'.cut PROVE InStep'
  <2>1. InStep
    BY <1>7 DEF CnInv, MishapGrows
  <2>2. CnElse(None)
    BY NoneElse
  <2> QED BY <1>0, <1>1, <2>1, <2>2, InStepKept
<1> QED BY <1>3, <1>4, <1>5, <1>6, <1>7, CnInvIs

\* An operation that ends and changes no record, consent or entry.
LEMMA EndKeeps ==
  ASSUME CnInv, NEW w \in CnWorkers, CnEnd(w), UNCHANGED <<cnRec, grant, manifest, cnWrites>>, CnData', MishapGrows, FlowsOf(cnOp[w].conn),
         \A f \in Flows : flows'[f] # None => flows'[f] = flows[f] \/ (cnWrites[f] = 0 /\ \A v \in CnWorkers : cnOp[v].flow # f),
         ~Creates(cnOp[w]), Leaves(cnOp[w]) => mishap'.cut,
         cnOp[w].pc \in HandPcs => Changes(cnOp[w]) \/ mishap'.cut
  PROVE  CnInv'
<1>0. CnTypes /\ OneUse /\ Unknown /\ None \notin CnIds
  BY ConnectionConstants DEF CnInv
<1>1. Becomes(w, CnIdle)
  BY <1>0, BecomesOp DEF CnEnd
<1>2. LockMoves(w, CnIdle) /\ \A c : LockElse(w, c)
  BY <1>0, LockLeft DEF CnEnd
<1>3. CnTypes'
  BY <1>0, <1>1, <1>2, CnIdleIs, CnTypesKept
<1>4. OneUse'
  BY <1>0, <1>1, CnIdleIs, OneUseKept
<1>5. Unknown' /\ Consents' /\ ReadBefore'
  <2>1. \A v \in CnWorkers \ {w} : Creates(cnOp[v]) => cnOp[v].conn # cnOp[w].conn
    BY <1>0, NotCreated
  <2> QED BY <1>0, <1>1, <2>1, CnIdleIs, QuietParts
<1>6. ASSUME ~mishap'.stalled PROVE Exclusive'
  <2>1. Exclusive
    BY <1>6 DEF CnInv, MishapGrows
  <2>2. CnElse(None)
    BY NoneElse
  <2>3. CnIdle.pc \notin BodyPcs
    BY CnIdleIs DEF BodyPcs
  <2> QED BY <1>0, <1>1, <1>2, <2>1, <2>2, <2>3, ExclusiveKept
<1>7. ASSUME ~mishap'.stalled, ~mishap'.cut PROVE InStep'
  <2>1. InStep /\ Exclusive
    BY <1>7 DEF CnInv, MishapGrows
  <2>2. CnIdle.pc \notin HandPcs
    BY CnIdleIs DEF HandPcs
  <2>3. CASE cnOp[w].pc \notin HandPcs
    <3>1. CnElse(None)
      BY NoneElse
    <3> QED BY <1>0, <1>1, <2>1, <2>2, <2>3, <3>1, InStepKept
  <2>4. CASE cnOp[w].pc \in HandPcs
    <3>1. Changes(cnOp[w])
      BY <1>7, <2>4
    <3>2. PICK c \in CnIds : c = cnOp[w].conn
      BY <1>0, <3>1 DEF CnTypes, Shaped, Changes
    <3>3. Wired(c) = EnabledOf(c)
      BY <2>1, <3>1, <3>2 DEF InStep, OnCourse
    <3>4. CnElse(c) /\ Wired(c)' = EnabledOf(c)'
      BY <3>3, NoneElse
    <3>5. Alone(w, c)
      BY <2>1, <2>4, <3>2, BodyAlone DEF HandPcs, BodyPcs
    <3> QED BY <1>0, <1>1, <2>1, <2>2, <3>2, <3>4, <3>5, CnIdleIs, InStepKept
  <2> QED BY <2>3, <2>4
<1> QED BY <1>3, <1>4, <1>5, <1>6, <1>7, CnInvIs

\* An operation that goes on and changes no record, consent or entry.
LEMMA MoveKeeps ==
  ASSUME CnInv, NEW w \in CnWorkers, NEW p, cnOp' = [cnOp EXCEPT ![w] = p], UNCHANGED <<cnRec, grant, manifest>>, CnData', MishapGrows,
         NEW c, c = p.conn, FlowsOf(c), OneUse', LockMoves(w, p), LockElse(w, c), Shaped(p), ~Creates(p), ~Applies(p), p.pc # "delete",
         ~Creates(cnOp[w]), ~Leaves(cnOp[w]), cnOp[w].pc \notin HandPcs, Leaves(p) => grant[c] # "live",
         \A v \in CnWorkers \ {w} : Creates(cnOp[v]) => cnOp[v].conn # c,
         Changes(p) => cnRec[c] # None /\ p.blob = cnRec[c].blob /\ p.tok >= cnRec[c].tok /\ p.subs = (cnRec[c].enabled \ p.remove) \cup p.add,
         ~mishap'.stalled => IF p.pc \in BodyPcs THEN lock'[c] = w /\ Alone(w, c) ELSE LockElse(w, None)
  PROVE  CnInv'
<1>0. CnTypes /\ OneUse /\ Unknown /\ None \notin CnIds
  BY ConnectionConstants DEF CnInv
<1>1. Becomes(w, p)
  BY <1>0, BecomesOp
<1>2. CnTypes'
  BY <1>0, <1>1, CnTypesKept
<1>3. Unknown' /\ Consents' /\ ReadBefore'
  <2>1. Changes(p) => \A d \in CnIds : p.conn = d /\ cnRec[d] # None => p.blob <= cnRec[d].blob /\ (p.blob = cnRec[d].blob => p.tok >= cnRec[d].tok)
    <3>1. ASSUME Changes(p), NEW d \in CnIds, p.conn = d, cnRec[d] # None PROVE p.blob <= cnRec[d].blob /\ (p.blob = cnRec[d].blob => p.tok >= cnRec[d].tok)
      <4>1. p.blob = cnRec[d].blob /\ p.tok >= cnRec[d].tok /\ cnRec[d].blob \in Nat
        BY <1>0, <3>1 DEF CnTypes, CnData, CnRecord
      <4> QED BY <4>1
    <3> QED BY <3>1
  <2> QED BY <1>0, <1>1, <2>1, QuietParts
<1>4. CASE p.pc \notin BodyPcs
  <2>1. p.pc \notin HandPcs /\ CnElse(None)
    BY <1>4, NoneElse DEF HandPcs, BodyPcs
  <2>2. ASSUME ~mishap'.stalled PROVE Exclusive'
    <3>1. Exclusive
      BY <2>2 DEF CnInv, MishapGrows
    <3>2. LockElse(w, None)
      BY <1>4, <2>2
    <3> QED BY <1>0, <1>1, <1>4, <2>1, <3>1, <3>2, ExclusiveKept
  <2>3. ASSUME ~mishap'.stalled, ~mishap'.cut PROVE InStep'
    <3>1. InStep
      BY <2>3 DEF CnInv, MishapGrows
    <3> QED BY <1>0, <1>1, <2>1, <3>1, InStepKept
  <2> QED BY <1>2, <1>3, <2>2, <2>3, CnInvIs
<1>5. CASE p.pc \in BodyPcs
  <2>1. c \in CnIds /\ CnElse(c) /\ Wired(c)' = Wired(c) /\ EnabledOf(c)' = EnabledOf(c)
    BY <1>5, NoneElse DEF Shaped, BodyPcs
  <2>2. ASSUME ~mishap'.stalled PROVE Exclusive'
    <3>1. Exclusive
      BY <2>2 DEF CnInv, MishapGrows
    <3>2. Wired(c)' # {} => cnRec'[c] # None
      BY <2>1, <3>1 DEF Exclusive
    <3>3. Changes(p) => cnRec'[c] # None
      OBVIOUS
    <3>4. lock'[c] = w /\ Alone(w, c)
      BY <1>5, <2>2
    <3> QED BY <1>0, <1>1, <1>5, <2>1, <3>1, <3>2, <3>3, <3>4, ExclusiveKept
  <2>3. ASSUME ~mishap'.stalled, ~mishap'.cut PROVE InStep'
    <3>1. InStep /\ Alone(w, c)
      BY <1>5, <2>3 DEF CnInv, MishapGrows
    <3>2. ~InHand(c)
      BY <3>1 DEF InHand, Alone, HandPcs, BodyPcs
    <3>3. Wired(c)' = EnabledOf(c)'
      BY <2>1, <3>1, <3>2 DEF InStep
    <3>4. Changes(p) => p.subs = (Wired(c)' \ p.remove) \cup p.add
      <4>1. Changes(p) => EnabledOf(c) = cnRec[c].enabled /\ p.subs = (cnRec[c].enabled \ p.remove) \cup p.add
        BY DEF EnabledOf
      <4>2. Changes(p) => Wired(c)' = cnRec[c].enabled
        BY <2>1, <3>3, <4>1
      <4> QED BY <4>1, <4>2
    <3> QED BY <1>0, <1>1, <2>1, <3>1, <3>3, <3>4, InStepKept
  <2> QED BY <1>2, <1>3, <2>2, <2>3, CnInvIs
<1> QED BY <1>4, <1>5

----------------------------------------------------------------------------
(* Step by step. *)

LEMMA StallDoes ==
  ASSUME CnData, CnStall
  PROVE  mishap' \in [stalled : BOOLEAN, cut : BOOLEAN] /\ MishapGrows /\ mishap'.stalled
<1>1. PICK b \in BOOLEAN : b = TRUE
  OBVIOUS
<1>2. mishap' = [mishap EXCEPT !.stalled = b]
  BY <1>1 DEF CnStall
<1>3. mishap' \in [stalled : BOOLEAN, cut : BOOLEAN] /\ mishap'.stalled = b /\ mishap'.cut = mishap.cut
  BY <1>2 DEF CnData
<1> QED BY <1>1, <1>3 DEF MishapGrows

LEMMA CutDoes ==
  ASSUME CnData, NEW w, Cut(w)
  PROVE  mishap' \in [stalled : BOOLEAN, cut : BOOLEAN] /\ MishapGrows /\ (~CnAt(w, "load") => mishap'.cut) /\ mishap'.stalled = mishap.stalled
<1>1. PICK b \in BOOLEAN : b = (mishap.cut \/ ~CnAt(w, "load"))
  OBVIOUS
<1>2. mishap' = [mishap EXCEPT !.cut = b]
  BY <1>1 DEF Cut
<1>3. mishap' \in [stalled : BOOLEAN, cut : BOOLEAN] /\ mishap'.stalled = mishap.stalled /\ mishap'.cut = b
  BY <1>2 DEF CnData
<1> QED BY <1>1, <1>3 DEF MishapGrows

LEMMA StillGrows == ASSUME UNCHANGED mishap PROVE MishapGrows
BY DEF MishapGrows

LEMMA FlowStarts ==
  ASSUME CnInv, NEW f \in Flows, NEW kind \in {"connect", "reconnect", "toggle"}, NEW alias \in Aliases, NEW subs \in NonEmpty,
         NEW c \in CnIds \cup {None}, c \in CnIds <=> kind # "connect", StartFlow(f, kind, alias, subs, c),
         UNCHANGED <<cnRec, grant, manifest, cnWrites>>, mishap' \in [stalled : BOOLEAN, cut : BOOLEAN]
  PROVE  /\ CnData' /\ FlowsOf(c)
         /\ \A g \in Flows : flows'[g] # None => flows'[g] = flows[g] \/ (cnWrites[g] = 0 /\ \A v \in CnWorkers : cnOp[v].flow # g)
<1>1. PICK r : r = [kind |-> kind, alias |-> alias, subs |-> subs, conn |-> c]
  OBVIOUS
<1>2. r \in Flow /\ r.conn = c /\ r.kind = kind
  BY <1>1 DEF Flow
<1>3. flows' = [flows EXCEPT ![f] = r] /\ flows \in [Flows -> Flow \cup {None}]
  BY <1>1 DEF StartFlow, CnInv, CnTypes, CnData
<1>4. flows'[f] = r /\ \A g \in Flows \ {f} : flows'[g] = flows[g]
  BY <1>3
<1>5. \A g \in Flows : flows'[g] # None => (flows'[g].conn \in CnIds <=> flows'[g].kind # "connect")
  BY <1>2, <1>4 DEF CnInv, CnTypes, CnData
<1>6. flows' \in [Flows -> Flow \cup {None}]
  BY <1>2, <1>3
<1>7. CnData'
  BY <1>5, <1>6 DEF CnInv, CnTypes, CnData
<1> QED BY <1>2, <1>4, <1>7 DEF FlowsOf, StartFlow

LEMMA StartConnectDoes ==
  ASSUME CnInv, NEW w \in CnWorkers, NEW f \in Flows, NEW alias \in Aliases, NEW subs \in NonEmpty, StartConnect(w, f, alias, subs)
  PROVE  CnInv'
<1>1. /\ StartFlow(f, "connect", alias, subs, None) /\ UNCHANGED <<cnRec, grant, manifest, lock, cnOp, cnWrites, mishap>>
      /\ None \notin CnIds /\ CnTypes
  BY ConnectionConstants DEF StartConnect, CnBegin, CnInv
<1>2. mishap' \in [stalled : BOOLEAN, cut : BOOLEAN] /\ MishapGrows
  BY <1>1, StillGrows DEF CnTypes, CnData
<1>3. /\ CnData' /\ FlowsOf(None)
      /\ \A g \in Flows : flows'[g] # None => flows'[g] = flows[g] \/ (cnWrites[g] = 0 /\ \A v \in CnWorkers : cnOp[v].flow # g)
  BY <1>1, <1>2, FlowStarts
<1>4. \A v \in CnWorkers : Creates(cnOp[v]) => cnOp[v].conn # None
  BY <1>1, CreatesConn
<1> QED BY <1>1, <1>2, <1>3, <1>4, NobodyKeeps

LEMMA StartReconnectDoes ==
  ASSUME CnInv, NEW w \in CnWorkers, NEW f \in Flows, NEW c \in CnIds, NEW subs \in NonEmpty, StartReconnect(w, f, c, subs)
  PROVE  CnInv'
<1>1. /\ StartFlow(f, "reconnect", cnRec[c].alias, subs, c) /\ UNCHANGED <<cnRec, grant, manifest, lock, cnOp, cnWrites, mishap>>
      /\ cnRec[c] # None /\ cnRec[c].alias \in Aliases /\ CnTypes /\ Unknown
  BY DEF StartReconnect, CnBegin, CnInv, CnTypes, CnData, CnRecord
<1>2. mishap' \in [stalled : BOOLEAN, cut : BOOLEAN] /\ MishapGrows
  BY <1>1, StillGrows DEF CnTypes, CnData
<1>3. /\ CnData' /\ FlowsOf(c)
      /\ \A g \in Flows : flows'[g] # None => flows'[g] = flows[g] \/ (cnWrites[g] = 0 /\ \A v \in CnWorkers : cnOp[v].flow # g)
  BY <1>1, <1>2, FlowStarts
<1>4. \A v \in CnWorkers : Creates(cnOp[v]) => cnOp[v].conn # c
  BY <1>1, NotCreated
<1> QED BY <1>1, <1>2, <1>3, <1>4, NobodyKeeps

LEMMA FlowExpiresDoes == ASSUME CnInv, NEW f \in Flows, FlowExpires(f) PROVE CnInv'
<1>1. flows' = [flows EXCEPT ![f] = None] /\ UNCHANGED <<cnRec, grant, manifest, lock, cnOp, cnWrites, mishap>> /\ CnTypes
  BY DEF FlowExpires, CnInv
<1>2. \A g \in Flows : flows'[g] # None => flows'[g] = flows[g]
  BY <1>1 DEF CnTypes, CnData
<1>3. CnData' /\ FlowsOf(None)
  BY <1>1, <1>2 DEF CnTypes, CnData, FlowsOf
<1>4. MishapGrows /\ \A v \in CnWorkers : Creates(cnOp[v]) => cnOp[v].conn # None
  BY <1>1, StillGrows, CreatesConn
<1> QED BY <1>1, <1>2, <1>3, <1>4, NobodyKeeps

LEMMA CnLockExpiresDoes == ASSUME CnInv, NEW c \in CnIds, CnLockExpires(c) PROVE CnInv'
<1>1. CnStall /\ lock' = [lock EXCEPT ![c] = None] /\ UNCHANGED <<cnRec, grant, manifest, flows, cnOp, cnWrites>> /\ CnTypes
  BY DEF CnLockExpires, CnInv
<1>2. mishap' \in [stalled : BOOLEAN, cut : BOOLEAN] /\ MishapGrows /\ mishap'.stalled
  BY <1>1, StallDoes DEF CnTypes
<1>3. CnData' /\ FlowsOf(None)
  BY <1>1, <1>2 DEF CnTypes, CnData, FlowsOf
<1>4. \A v \in CnWorkers : Creates(cnOp[v]) => cnOp[v].conn # None
  BY <1>1, CreatesConn
<1>5. LockMoves(None, CnIdle)
  BY <1>1 DEF LockMoves, CnTypes, CnLocks
<1>6. \A g \in Flows : flows'[g] # None => flows'[g] = flows[g] \/ (cnWrites[g] = 0 /\ \A v \in CnWorkers : cnOp[v].flow # g)
  BY <1>1
<1> QED BY <1>1, <1>2, <1>3, <1>4, <1>5, <1>6, NobodyKeeps

LEMMA ForkDoes == ASSUME CnInv, NEW w \in CnWorkers, NEW f \in Flows, Fork(w, f) PROVE CnInv'
<1>1. /\ CnAt(w, "fork") /\ StartFlow(f, "toggle", cnOp[w].alias, cnOp[w].subs \cup cnOp[w].consent, cnOp[w].conn)
      /\ CnEnd(w) /\ UNCHANGED <<cnRec, grant, manifest, cnWrites, mishap>> /\ CnTypes
  BY DEF Fork, CnInv
<1>2. /\ cnOp[w].alias \in Aliases /\ cnOp[w].conn \in CnIds /\ cnOp[w].subs \cup cnOp[w].consent \in NonEmpty
      /\ ~Creates(cnOp[w]) /\ ~Leaves(cnOp[w]) /\ cnOp[w].pc \notin HandPcs
  <2>1. Shaped(cnOp[w]) /\ cnOp[w].pc = "fork"
    BY <1>1 DEF CnTypes, CnAt
  <2>2. cnOp[w].alias \in Aliases /\ cnOp[w].conn \in CnIds /\ cnOp[w].consent # {}
    BY <2>1 DEF Shaped
  <2>3. cnOp[w].subs \in SUBSET Subs /\ cnOp[w].consent \in SUBSET Subs
    BY <2>1 DEF Shaped, CnOps
  <2>4. cnOp[w].subs \cup cnOp[w].consent \in NonEmpty
    <3>1. PICK s \in Subs : s \in cnOp[w].consent
      BY <2>2, <2>3
    <3>2. s \in cnOp[w].subs \cup cnOp[w].consent /\ cnOp[w].subs \cup cnOp[w].consent \subseteq Subs
      BY <2>3, <3>1
    <3> QED BY <3>2 DEF NonEmpty
  <2> QED BY <2>1, <2>2, <2>4 DEF Creates, Leaves, HandPcs
<1>3. mishap' \in [stalled : BOOLEAN, cut : BOOLEAN] /\ MishapGrows
  BY <1>1, StillGrows DEF CnTypes, CnData
<1>4. /\ CnData' /\ FlowsOf(cnOp[w].conn)
      /\ \A g \in Flows : flows'[g] # None => flows'[g] = flows[g] \/ (cnWrites[g] = 0 /\ \A v \in CnWorkers : cnOp[v].flow # g)
  BY <1>1, <1>2, <1>3, FlowStarts
<1> QED BY <1>1, <1>2, <1>3, <1>4, EndKeeps

LEMMA SameFlows ==
  ASSUME UNCHANGED flows
  PROVE  (\A c : FlowsOf(c)) /\ \A g \in Flows : flows'[g] # None => flows'[g] = flows[g] \/ (cnWrites[g] = 0 /\ \A v \in CnWorkers : cnOp[v].flow # g)
BY DEF FlowsOf

LEMMA ForkFailsDoes == ASSUME CnInv, NEW w \in CnWorkers, ForkFails(w) PROVE CnInv'
<1>1. CnAt(w, "fork") /\ CnEnd(w) /\ UNCHANGED <<cnRec, grant, manifest, flows, cnWrites, mishap>> /\ CnTypes
  BY DEF ForkFails, CnInv
<1>2. ~Creates(cnOp[w]) /\ ~Leaves(cnOp[w]) /\ cnOp[w].pc \notin HandPcs
  BY <1>1 DEF CnAt, Creates, Leaves, HandPcs
<1>3. CnData' /\ MishapGrows
  BY <1>1, StillGrows DEF CnTypes, CnData
<1> QED BY <1>1, <1>2, <1>3, SameFlows, EndKeeps

LEMMA CompleteDoes == ASSUME CnInv, NEW w \in CnWorkers, NEW f \in Flows, Complete(w, f) PROVE CnInv'
<1>1. /\ CnAt(w, "idle") /\ flows[f] # None /\ flows' = [flows EXCEPT ![f] = None]
      /\ UNCHANGED <<cnRec, grant, manifest, lock, cnWrites, mishap>> /\ CnTypes /\ OneUse /\ Unknown
  BY DEF Complete, Pop, CnInv
<1>2. PICK r \in Flow : r = flows[f]
  BY <1>1 DEF CnTypes, CnData
<1>3. PICK p : p = [CnIdle EXCEPT !.kind = r.kind, !.pc = "exchange", !.flow = f, !.conn = r.conn, !.alias = r.alias, !.subs = r.subs]
  OBVIOUS
<1>4. cnOp' = [cnOp EXCEPT ![w] = p]
  BY <1>2, <1>3 DEF Complete
<1>5. /\ Shaped(p) /\ ~Creates(p) /\ ~Applies(p) /\ ~Changes(p) /\ ~Leaves(p) /\ p.pc = "exchange" /\ p.conn = r.conn /\ p.flow = f
  <2>1. r.conn \in CnIds <=> r.kind # "connect"
    BY <1>1, <1>2 DEF CnTypes, CnData
  <2>2. /\ p.kind = r.kind /\ p.pc = "exchange" /\ p.flow = f /\ p.conn = r.conn /\ p.alias = r.alias /\ p.subs = r.subs
        /\ p.add = {} /\ p.remove = {} /\ p.consent = {}
    BY <1>3 DEF CnIdle
  <2>3. p \in CnOps
    BY <1>3 DEF CnIdle, CnOps, CnKinds, CnPcs, Flow, NonEmpty
  <2>4. r.kind \in {"connect", "reconnect", "toggle"} /\ r.alias \in Aliases
    BY DEF Flow
  <2>5. Shaped(p)
    BY <2>1, <2>2, <2>3, <2>4, ConnectionConstants DEF Shaped
  <2> QED BY <2>2, <2>5 DEF Creates, Applies, Changes, Leaves
<1>6. CnData' /\ FlowsOf(r.conn) /\ MishapGrows
  <2>1. \A g \in Flows : flows'[g] # None => flows'[g] = flows[g]
    BY <1>1 DEF CnTypes, CnData
  <2> QED BY <1>1, <2>1, StillGrows DEF CnTypes, CnData, FlowsOf
<1>7. OneUse'
  <2>1. Becomes(w, p)
    BY <1>1, <1>4, BecomesOp
  <2>2. flows'[f] = None /\ \A g \in Flows \ {f} : flows'[g] = flows[g]
    BY <1>1 DEF CnTypes, CnData
  <2>3. cnWrites[f] = 0 /\ \A v \in CnWorkers : cnOp[v].flow # f
    BY <1>1, ConnectionConstants DEF OneUse
  <2>4. \A g \in Flows : cnWrites'[g] <= 1 /\ (flows'[g] # None => cnWrites'[g] = 0)
    BY <1>1, <2>2 DEF OneUse
  <2>5. ASSUME NEW v \in CnWorkers, cnOp'[v].flow # None
        PROVE /\ flows'[cnOp'[v].flow] = None /\ (cnOp'[v].pc \in Early => cnWrites'[cnOp'[v].flow] = 0)
              /\ \A u \in CnWorkers \ {v} : cnOp'[u].flow # cnOp'[v].flow
    <3>1. CASE v = w
      BY <1>1, <1>5, <2>1, <2>2, <2>3, <3>1 DEF Becomes
    <3>2. CASE v # w
      <4>1. cnOp'[v] = cnOp[v] /\ cnOp[v].flow # None
        BY <2>1, <2>5, <3>2 DEF Becomes
      <4>2. PICK g \in Flows : g = cnOp[v].flow
        BY <1>1, <4>1 DEF CnTypes, Shaped, CnOps
      <4>3. g # f
        BY <2>3, <4>2
      <4>4. flows[g] = None /\ (cnOp[v].pc \in Early => cnWrites[g] = 0) /\ \A u \in CnWorkers \ {v} : cnOp[u].flow # g
        BY <1>1, <4>1, <4>2, OneUseOf
      <4>5. flows'[g] = None /\ \A u \in CnWorkers \ {v} : cnOp'[u].flow # g
        BY <1>5, <2>1, <2>2, <4>3, <4>4 DEF Becomes
      <4> QED BY <1>1, <4>1, <4>2, <4>4, <4>5
    <3> QED BY <3>1, <3>2
  <2> QED BY <2>4, <2>5 DEF OneUse, Early
<1>8. /\ cnOp[w].pc = "idle" /\ ~Creates(cnOp[w]) /\ ~Leaves(cnOp[w]) /\ cnOp[w].pc \notin HandPcs /\ cnOp[w].pc \notin BodyPcs /\ p.pc \notin BodyPcs
      /\ p.pc # "delete"
  BY <1>1, <1>5 DEF CnAt, Creates, Leaves, HandPcs, BodyPcs
<1>9. LockMoves(w, p) /\ \A c : LockElse(w, c)
  BY <1>1, <1>8, LockStays
<1>10. \A v \in CnWorkers \ {w} : Creates(cnOp[v]) => cnOp[v].conn # r.conn
  BY <1>1, <1>2, NotCreated
<1> QED BY <1>1, <1>4, <1>5, <1>6, <1>7, <1>8, <1>9, <1>10, MoveKeeps

LEMMA StartPatchDoes ==
  ASSUME CnInv, NEW w \in CnWorkers, NEW c \in CnIds, NEW desired \in NonEmpty, StartPatch(w, c, desired)
  PROVE  CnInv'
<1>1. /\ CnAt(w, "idle") /\ cnRec[c] # None /\ UNCHANGED <<cnRec, grant, manifest, flows, lock, cnWrites, mishap>> /\ CnTypes /\ OneUse /\ Unknown
  BY DEF StartPatch, CnBegin, CnInv
<1>2. PICK p : p = [CnIdle EXCEPT !.kind = "patch", !.pc = "lock", !.conn = c, !.subs = desired]
  OBVIOUS
<1>3. cnOp' = [cnOp EXCEPT ![w] = p]
  BY <1>2 DEF StartPatch
<1>4. p.pc = "lock" /\ p.kind = "patch" /\ p.conn = c /\ p.flow = None /\ p.add = {} /\ p.remove = {} /\ p.consent = {} /\ p \in CnOps
  BY <1>2 DEF CnIdle, CnOps, CnKinds, CnPcs, NonEmpty
<1>5. Shaped(p) /\ ~Creates(p) /\ ~Applies(p) /\ ~Changes(p) /\ ~Leaves(p) /\ p.pc # "delete" /\ p.pc \notin BodyPcs
  BY <1>4 DEF Shaped, Creates, Applies, Changes, Leaves, BodyPcs
<1>6. ~Creates(cnOp[w]) /\ ~Leaves(cnOp[w]) /\ cnOp[w].pc \notin HandPcs /\ cnOp[w].pc \notin BodyPcs
  BY <1>1 DEF CnAt, Creates, Leaves, HandPcs, BodyPcs
<1>7. CnData' /\ MishapGrows
  BY <1>1, StillGrows DEF CnTypes, CnData
<1>8. OneUse'
  BY <1>1, <1>3, <1>4, SameFlows, BecomesOp, OneUseKept
<1>9. LockMoves(w, p) /\ \A d : LockElse(w, d)
  BY <1>1, <1>6, LockStays
<1>10. \A v \in CnWorkers \ {w} : Creates(cnOp[v]) => cnOp[v].conn # c
  BY <1>1, NotCreated
<1> QED BY <1>1, <1>3, <1>4, <1>5, <1>6, <1>7, <1>8, <1>9, <1>10, SameFlows, MoveKeeps

LEMMA StartDisconnectDoes == ASSUME CnInv, NEW w \in CnWorkers, NEW c \in CnIds, StartDisconnect(w, c) PROVE CnInv'
<1>1. /\ CnAt(w, "idle") /\ cnRec[c] # None /\ UNCHANGED <<cnRec, grant, manifest, flows, lock, cnWrites, mishap>> /\ CnTypes /\ OneUse /\ Unknown
  BY DEF StartDisconnect, CnBegin, CnInv
<1>2. PICK p : p = [CnIdle EXCEPT !.kind = "disconnect", !.pc = "lock", !.conn = c]
  OBVIOUS
<1>3. cnOp' = [cnOp EXCEPT ![w] = p]
  BY <1>2 DEF StartDisconnect
<1>4. p.pc = "lock" /\ p.kind = "disconnect" /\ p.conn = c /\ p.flow = None /\ p.add = {} /\ p.remove = {} /\ p.consent = {} /\ p \in CnOps
  BY <1>2 DEF CnIdle, CnOps, CnKinds, CnPcs
<1>5. Shaped(p) /\ ~Creates(p) /\ ~Applies(p) /\ ~Changes(p) /\ ~Leaves(p) /\ p.pc # "delete" /\ p.pc \notin BodyPcs
  BY <1>4 DEF Shaped, Creates, Applies, Changes, Leaves, BodyPcs
<1>6. ~Creates(cnOp[w]) /\ ~Leaves(cnOp[w]) /\ cnOp[w].pc \notin HandPcs /\ cnOp[w].pc \notin BodyPcs
  BY <1>1 DEF CnAt, Creates, Leaves, HandPcs, BodyPcs
<1>7. CnData' /\ MishapGrows
  BY <1>1, StillGrows DEF CnTypes, CnData
<1>8. OneUse'
  BY <1>1, <1>3, <1>4, SameFlows, BecomesOp, OneUseKept
<1>9. LockMoves(w, p) /\ \A d : LockElse(w, d)
  BY <1>1, <1>6, LockStays
<1>10. \A v \in CnWorkers \ {w} : Creates(cnOp[v]) => cnOp[v].conn # c
  BY <1>1, NotCreated
<1> QED BY <1>1, <1>3, <1>4, <1>5, <1>6, <1>7, <1>8, <1>9, <1>10, SameFlows, MoveKeeps

\* The lock is free, or the wait for it was given up.
LEMMA LockedDoes ==
  ASSUME CnInv, NEW w \in CnWorkers, CnAt(w, "lock"), CnGo(w, "load"), UNCHANGED <<cnRec, grant, manifest, flows, cnWrites>>,
         mishap' \in [stalled : BOOLEAN, cut : BOOLEAN], MishapGrows,
         \/ lock[cnOp[w].conn] = None /\ lock' = [lock EXCEPT ![cnOp[w].conn] = w]
         \/ mishap'.stalled /\ UNCHANGED lock
  PROVE  CnInv'
<1>1. CnTypes /\ OneUse /\ Unknown /\ cnOp[w].pc = "lock" /\ Shaped(cnOp[w])
  BY DEF CnInv, CnTypes, CnAt
<1>2. PICK p : p = [cnOp[w] EXCEPT !.pc = "load"]
  OBVIOUS
<1>3. cnOp' = [cnOp EXCEPT ![w] = p]
  BY <1>2 DEF CnGo
<1>4. /\ p \in CnOps /\ p.pc = "load" /\ p.conn = cnOp[w].conn /\ p.kind = cnOp[w].kind /\ p.flow = cnOp[w].flow
      /\ p.add = cnOp[w].add /\ p.remove = cnOp[w].remove /\ p.consent = cnOp[w].consent
  BY <1>1, <1>2 DEF Shaped, CnOps, CnPcs
<1>5. Shaped(p)
  BY <1>1, <1>4 DEF Shaped
<1>6. ~Creates(p) /\ ~Applies(p) /\ ~Changes(p) /\ ~Leaves(p) /\ p.pc # "delete" /\ p.pc \in BodyPcs
  BY <1>4 DEF Creates, Applies, Changes, Leaves, BodyPcs
<1>7. ~Creates(cnOp[w]) /\ ~Leaves(cnOp[w]) /\ cnOp[w].pc \notin HandPcs /\ cnOp[w].pc \notin BodyPcs /\ cnOp[w].pc \in Early
  BY <1>1 DEF Creates, Leaves, HandPcs, BodyPcs, Early
<1>8. CnData'
  BY <1>1 DEF CnTypes, CnData
<1>9. OneUse'
  BY <1>1, <1>3, <1>4, <1>7, SameFlows, BecomesOp, OneUseKept
<1>10. PICK c \in CnIds : c = cnOp[w].conn
  BY <1>1 DEF Shaped
<1>11. \A v \in CnWorkers \ {w} : Creates(cnOp[v]) => cnOp[v].conn # c
  BY <1>1, <1>10, NotCreated
<1>12. LockMoves(w, p) /\ LockElse(w, c) /\ (~mishap'.stalled => lock'[c] = w)
  <2>1. CASE lock' = [lock EXCEPT ![cnOp[w].conn] = w]
    BY <1>1, <1>4, <1>6, <1>7, <1>10, <2>1, LockTaken
  <2>2. CASE mishap'.stalled /\ UNCHANGED lock
    BY <1>1, <1>7, <2>2, LockStays
  <2> QED BY <2>1, <2>2
<1>13. ~mishap'.stalled => Alone(w, c)
  <2>1. ASSUME ~mishap'.stalled PROVE Alone(w, c)
    <3>1. lock[c] = None /\ Exclusive
      BY <1>10, <2>1 DEF CnInv, MishapGrows
    <3> QED BY <3>1, BodyAlone
  <2> QED BY <2>1
<1> QED BY <1>1, <1>3, <1>4, <1>5, <1>6, <1>7, <1>8, <1>9, <1>10, <1>11, <1>12, <1>13, SameFlows, MoveKeeps

LEMMA CnAcquireDoes == ASSUME CnInv, NEW w \in CnWorkers, CnAcquire(w) PROVE CnInv'
<1>1. /\ CnAt(w, "lock") /\ CnGo(w, "load") /\ UNCHANGED <<cnRec, grant, manifest, flows, cnWrites, mishap>>
      /\ lock[cnOp[w].conn] = None /\ lock' = [lock EXCEPT ![cnOp[w].conn] = w]
  BY DEF CnAcquire
<1>2. mishap' \in [stalled : BOOLEAN, cut : BOOLEAN] /\ MishapGrows
  BY <1>1, StillGrows DEF CnInv, CnTypes, CnData
<1> QED BY <1>1, <1>2, LockedDoes

LEMMA CnGiveUpLockDoes == ASSUME CnInv, NEW w \in CnWorkers, CnGiveUpLock(w) PROVE CnInv'
<1>1. CnAt(w, "lock") /\ CnGo(w, "load") /\ UNCHANGED <<cnRec, grant, manifest, flows, cnWrites, lock>> /\ CnStall
  BY DEF CnGiveUpLock
<1>2. mishap' \in [stalled : BOOLEAN, cut : BOOLEAN] /\ MishapGrows /\ mishap'.stalled
  BY <1>1, StallDoes DEF CnInv, CnTypes
<1> QED BY <1>1, <1>2, LockedDoes

\* What a change reads of its record, and what it will write.
LEMMA LoadChange ==
  ASSUME CnInv, NEW w \in CnWorkers, CnAt(w, "load"), NEW r \in CnRecord, r = cnRec[cnOp[w].conn], NEW p, p \in CnOps, p.pc = "persist",
         p.conn = cnOp[w].conn, p.kind = cnOp[w].kind, p.flow = cnOp[w].flow, p.kind # "disconnect", p.alias = r.alias, p.blob = r.blob,
         p.tok >= r.tok, p.subs = (r.enabled \ p.remove) \cup p.add, p.add \cap p.remove = {}, p.consent # {} => p.kind = "patch"
  PROVE  Shaped(p) /\ Changes(p) /\ ~Creates(p) /\ ~Leaves(p) /\ ~Applies(p)
<1>1. Shaped(cnOp[w]) /\ cnOp[w].pc = "load" /\ r.alias \in Aliases
  BY DEF CnInv, CnTypes, CnAt, CnRecord
<1>2. cnOp[w].kind \in {"reconnect", "toggle", "patch"} /\ cnOp[w].conn \in CnIds
  BY <1>1 DEF Shaped
<1> QED BY <1>1, <1>2 DEF Shaped, Changes, Creates, Leaves, Applies

LEMMA LoadDoes == ASSUME CnInv, NEW w \in CnWorkers, Load(w) PROVE CnInv'
<1>1. /\ CnTypes /\ OneUse /\ Unknown /\ Consents /\ cnOp[w].pc = "load" /\ Shaped(cnOp[w]) /\ cnOp[w].conn \in CnIds
      /\ CnAt(w, "load") /\ UNCHANGED <<cnRec, grant, manifest, flows, cnWrites, mishap>>
  BY DEF CnInv, CnTypes, CnAt, Load, Shaped
<1>2. /\ ~Creates(cnOp[w]) /\ ~Leaves(cnOp[w]) /\ cnOp[w].pc \notin HandPcs /\ cnOp[w].pc \in Early /\ cnOp[w].pc \in BodyPcs
      /\ cnOp[w].kind \in {"reconnect", "toggle", "patch", "disconnect"} /\ cnOp[w].add = {} /\ cnOp[w].remove = {} /\ cnOp[w].consent = {}
  BY <1>1 DEF Creates, Leaves, HandPcs, Early, Shaped, BodyPcs
<1>3. CnData' /\ MishapGrows
  BY <1>1, StillGrows DEF CnTypes, CnData
<1>4. CASE CnEnd(w)
  BY <1>1, <1>2, <1>3, <1>4, SameFlows, EndKeeps
<1>5. CASE ~CnEnd(w)
  <2>1. PICK o \in CnOps : o = cnOp[w]
    BY <1>1 DEF Shaped
  <2>2. PICK r \in CnRecord : r = cnRec[cnOp[w].conn] /\ r # None
    BY <1>1, <1>5 DEF Load, CnTypes, CnData
  <2>3. UNCHANGED lock
    BY <1>5 DEF Load
  <2>4. PICK c \in CnIds : c = cnOp[w].conn
    BY <1>1
  <2>5. ASSUME NEW p, cnOp' = [cnOp EXCEPT ![w] = p], Shaped(p), p.conn = c, p.flow = o.flow, p.pc \in BodyPcs, p.pc # "delete",
               ~Creates(p), ~Applies(p), Leaves(p) => grant[c] # "live",
               Changes(p) => p.blob = r.blob /\ p.tok >= r.tok /\ p.subs = (r.enabled \ p.remove) \cup p.add
        PROVE CnInv'
    <3>1. Becomes(w, p)
      BY <1>1, <2>5, BecomesOp
    <3>2. OneUse'
      BY <1>1, <1>2, <2>1, <2>5, <3>1, SameFlows, OneUseKept
    <3>3. LockMoves(w, p) /\ \A d : LockElse(w, d)
      BY <1>1, <2>3, <2>4, <2>5, LockStays
    <3>4. \A v \in CnWorkers \ {w} : Creates(cnOp[v]) => cnOp[v].conn # c
      BY <1>1, <2>4, NotCreated
    <3>5. ASSUME ~mishap'.stalled PROVE lock'[c] = w /\ Alone(w, c)
      <4>1. Exclusive
        BY <1>3, <3>5 DEF CnInv, MishapGrows
      <4>2. lock[c] = w
        BY <1>2, <2>4, <4>1 DEF Exclusive, OwnBody
      <4> QED BY <1>2, <2>3, <2>4, <4>1, <4>2, BodyAlone
    <3>6. Changes(p) => cnRec[c] # None /\ p.blob = cnRec[c].blob /\ p.tok >= cnRec[c].tok /\ p.subs = (cnRec[c].enabled \ p.remove) \cup p.add
      BY <2>2, <2>4, <2>5
    <3>7. ~mishap'.stalled => IF p.pc \in BodyPcs THEN lock'[c] = w /\ Alone(w, c) ELSE LockElse(w, None)
      BY <2>5, <3>5
    <3>8. FlowsOf(c) /\ c = p.conn /\ UNCHANGED <<cnRec, grant, manifest>>
      BY <1>1, <2>5, SameFlows
    <3> QED BY <1>2, <1>3, <2>5, <3>2, <3>3, <3>4, <3>6, <3>7, <3>8, MoveKeeps
  <2>6. CASE o.kind = "disconnect"
    <3>1. PICK p : p = [o EXCEPT !.pc = IF r.oauth THEN "revoke" ELSE "apply", !.remove = Subs]
      OBVIOUS
    <3>2. cnOp' = [cnOp EXCEPT ![w] = p]
      BY <1>5, <2>1, <2>2, <2>6, <3>1 DEF Load
    <3>3. /\ p \in CnOps /\ p.kind = "disconnect" /\ p.conn = c /\ p.flow = o.flow /\ p.remove = Subs /\ p.add = {} /\ p.consent = {}
          /\ p.pc = IF r.oauth THEN "revoke" ELSE "apply"
      BY <1>2, <2>1, <2>4, <2>6, <3>1 DEF CnOps, CnPcs
    <3>4. Shaped(p) /\ ~Creates(p) /\ ~Applies(p) /\ ~Changes(p) /\ p.pc \in BodyPcs /\ p.pc # "delete"
      <4>1. o.flow = None
        BY <1>1, <2>1, <2>6 DEF Shaped
      <4>2. p.pc \in {"revoke", "apply"}
        BY <3>3
      <4> QED BY <2>4, <3>3, <4>1, <4>2 DEF Shaped, Creates, Applies, Changes, BodyPcs
    <3>5. Leaves(p) => grant[c] # "live"
      <4>1. Leaves(p) => ~r.oauth
        BY <3>3 DEF Leaves
      <4> QED BY <1>1, <2>2, <2>4, <4>1 DEF Consents, ConsentOf
    <3> QED BY <2>5, <3>2, <3>3, <3>4, <3>5
  <2>7. CASE o.kind = "patch"
    <3>1. PICK add \in SUBSET Subs : add = Inline(r, o.subs)
      BY <2>1 DEF Inline, CnOps
    <3>2. add \cap r.enabled = {} /\ add \subseteq o.subs
      BY <3>1 DEF Inline
    <3>3. PICK p : p = [o EXCEPT !.pc = "persist", !.blob = r.blob, !.tok = r.tok, !.alias = r.alias, !.granted = r.granted,
                               !.subs = (r.enabled \cap o.subs) \cup add, !.add = add, !.remove = r.enabled \ o.subs,
                               !.consent = (o.subs \ r.enabled) \ add]
      OBVIOUS
    <3>4. cnOp' = [cnOp EXCEPT ![w] = p]
      <4>1. cnOp' = [cnOp EXCEPT ![w] = [o EXCEPT !.pc = "persist", !.blob = r.blob, !.tok = r.tok, !.alias = r.alias, !.granted = r.granted,
                               !.subs = (r.enabled \cap o.subs) \cup Inline(r, o.subs),
                               !.add = Inline(r, o.subs), !.remove = r.enabled \ o.subs,
                               !.consent = (o.subs \ r.enabled) \ Inline(r, o.subs)]]
        BY <1>5, <2>1, <2>2, <2>7 DEF Load
      <4> QED BY <3>1, <3>3, <4>1
    <3>5. r.enabled \in SUBSET Subs /\ r.granted \in SUBSET Subs /\ r.alias \in Aliases /\ r.blob \in Nat /\ r.tok \in Nat
      BY DEF CnRecord
    <3>6. /\ p \in CnOps /\ p.kind = "patch" /\ p.conn = c /\ p.flow = o.flow /\ p.pc = "persist" /\ p.blob = r.blob /\ p.tok = r.tok /\ p.alias = r.alias
          /\ p.add = add /\ p.remove = r.enabled \ o.subs /\ p.subs = (r.enabled \cap o.subs) \cup add
      <4>1. PICK subs \in SUBSET Subs, remove \in SUBSET Subs, consent \in SUBSET Subs :
              subs = (r.enabled \cap o.subs) \cup add /\ remove = r.enabled \ o.subs /\ consent = (o.subs \ r.enabled) \ add
        <5>1. o.subs \in SUBSET Subs
          BY DEF CnOps
        <5> QED BY <3>5, <5>1
      <4>2. p = [o EXCEPT !.pc = "persist", !.blob = r.blob, !.tok = r.tok, !.alias = r.alias, !.granted = r.granted,
                          !.subs = subs, !.add = add, !.remove = remove, !.consent = consent]
        BY <3>3, <4>1
      <4>3. p \in CnOps
        BY <3>5, <4>2 DEF CnOps, CnPcs
      <4>4. /\ p.kind = o.kind /\ p.conn = o.conn /\ p.flow = o.flow /\ p.pc = "persist" /\ p.blob = r.blob /\ p.tok = r.tok /\ p.alias = r.alias
            /\ p.add = add /\ p.remove = remove /\ p.subs = subs
        BY <4>2 DEF CnOps
      <4> QED BY <2>1, <2>4, <2>7, <4>1, <4>3, <4>4
    <3>7. p.subs = (r.enabled \ p.remove) \cup p.add /\ p.add \cap p.remove = {}
      BY <3>2, <3>6
    <3>8. p.tok >= r.tok
      BY <3>5, <3>6
    <3>9. Shaped(p) /\ Changes(p) /\ ~Creates(p) /\ ~Leaves(p) /\ ~Applies(p)
      BY <1>1, <2>1, <2>2, <2>4, <2>7, <3>6, <3>7, <3>8, LoadChange
    <3> QED BY <2>5, <3>4, <3>6, <3>7, <3>8, <3>9 DEF BodyPcs
  <2>8. CASE o.kind \in {"reconnect", "toggle"}
    <3>1. PICK p : p = [o EXCEPT !.pc = "persist", !.blob = r.blob, !.tok = r.tok + 1, !.alias = r.alias,
                               !.add = o.subs \ r.enabled, !.remove = r.enabled \ o.subs]
      OBVIOUS
    <3>2. cnOp' = [cnOp EXCEPT ![w] = p]
      BY <1>5, <2>1, <2>2, <2>8, <3>1 DEF Load
    <3>5. r.enabled \in SUBSET Subs /\ r.alias \in Aliases /\ r.blob \in Nat /\ r.tok \in Nat /\ r.tok + 1 \in Nat /\ r.tok + 1 >= r.tok
      BY DEF CnRecord
    <3>6. /\ p \in CnOps /\ p.kind = o.kind /\ p.conn = c /\ p.flow = o.flow /\ p.pc = "persist" /\ p.blob = r.blob /\ p.tok = r.tok + 1 /\ p.alias = r.alias
          /\ p.consent = {} /\ p.add = o.subs \ r.enabled /\ p.remove = r.enabled \ o.subs /\ p.subs = o.subs
      <4>1. PICK add \in SUBSET Subs, remove \in SUBSET Subs, tok \in Nat :
              add = o.subs \ r.enabled /\ remove = r.enabled \ o.subs /\ tok = r.tok + 1
        <5>1. o.subs \in SUBSET Subs
          BY DEF CnOps
        <5> QED BY <3>5, <5>1
      <4>2. p = [o EXCEPT !.pc = "persist", !.blob = r.blob, !.tok = tok, !.alias = r.alias, !.add = add, !.remove = remove]
        BY <3>1, <4>1
      <4>3. p \in CnOps
        BY <3>5, <4>2 DEF CnOps, CnPcs
      <4>4. /\ p.kind = o.kind /\ p.conn = o.conn /\ p.flow = o.flow /\ p.pc = "persist" /\ p.blob = r.blob /\ p.tok = tok /\ p.alias = r.alias
            /\ p.consent = o.consent /\ p.add = add /\ p.remove = remove /\ p.subs = o.subs
        BY <4>2 DEF CnOps
      <4> QED BY <1>2, <2>1, <2>4, <4>1, <4>3, <4>4
    <3>7. p.subs = (r.enabled \ p.remove) \cup p.add /\ p.add \cap p.remove = {}
      BY <3>6
    <3>9. Shaped(p) /\ Changes(p) /\ ~Creates(p) /\ ~Leaves(p) /\ ~Applies(p)
      <4>1. p.conn = cnOp[w].conn /\ p.kind = cnOp[w].kind /\ p.flow = cnOp[w].flow /\ r = cnRec[cnOp[w].conn]
        BY <2>1, <2>2, <2>4, <3>6
      <4>2. p.tok >= r.tok /\ p.kind # "disconnect" /\ p.consent = {}
        BY <2>8, <3>5, <3>6
      <4>3. p \in CnOps /\ p.pc = "persist" /\ p.alias = r.alias /\ p.blob = r.blob
        BY <3>6
      <4> QED BY <1>1, <3>7, <4>1, <4>2, <4>3, LoadChange
    <3> QED BY <2>5, <3>2, <3>5, <3>6, <3>7, <3>9 DEF BodyPcs
  <2> QED BY <1>2, <2>1, <2>6, <2>7, <2>8
<1> QED BY <1>4, <1>5

----------------------------------------------------------------------------
(* The steps that change a record, a consent or an entry. *)

\* A connection is about to be created: without OAuth, or with the tokens of its consent.
LEMMA CreationBegins ==
  ASSUME CnInv, NEW w \in CnWorkers, cnOp[w].pc \in {"idle", "exchange"}, NEW p, cnOp' = [cnOp EXCEPT ![w] = p], Shaped(p), Creates(p),
         NEW c \in CnIds, p.conn = c, p.flow \in {None, cnOp[w].flow}, p.flow # None => cnOp[w].pc = "exchange", FreshId(c),
         lock' = [lock EXCEPT ![c] = w], UNCHANGED <<cnRec, manifest, flows, cnWrites, mishap>>, CnData',
         grant'[c] = (IF p.kind = "none" THEN "none" ELSE "live"), \A d \in CnIds \ {c} : grant'[d] = grant[d]
  PROVE  CnInv'
<1>0. CnTypes /\ OneUse /\ Unknown /\ Consents /\ ReadBefore
  BY DEF CnInv
<1>1. Becomes(w, p) /\ CnElse(c) /\ GrantElse(c) /\ MishapGrows
  BY <1>0, BecomesOp, StillGrows DEF CnElse, GrantElse
<1>2. /\ p.pc = "persist" /\ p.pc \in BodyPcs /\ ~Changes(p) /\ ~Applies(p) /\ ~Leaves(p) /\ p.pc # "delete" /\ p.pc \in HandPcs
      /\ ~Creates(cnOp[w]) /\ ~Leaves(cnOp[w]) /\ cnOp[w].pc \notin BodyPcs /\ cnOp[w].pc \notin HandPcs
      /\ p.pc \in Early /\ (p.flow # None => cnOp[w].pc \in Early)
  BY DEF Creates, Changes, Applies, Leaves, BodyPcs, HandPcs, Early
<1>3. LockMoves(w, p) /\ LockElse(w, c) /\ lock'[c] = w
  BY <1>0, <1>2, LockTaken
<1>4. CnTypes'
  BY <1>0, <1>1, <1>3, CnTypesKept
<1>5. OneUse'
  BY <1>0, <1>1, <1>2, SameFlows, OneUseKept
<1>6. Unknown'
  BY <1>0, <1>1, UnknownMade
<1>7. \A v \in CnWorkers \ {w} : cnOp'[v] = cnOp[v] /\ cnOp[v].conn # c
  BY <1>1 DEF Becomes, FreshId
<1>8. Consents'
  <2>1. ConsentOf(c)'
    <3>1. cnOp'[w] = p /\ cnRec'[c] = None /\ grant'[c] # "dead"
      BY <1>1 DEF Becomes, FreshId
    <3>2. \A v \in CnWorkers : ~(cnOp'[v].conn = c /\ Leaves(cnOp'[v]))
      BY <1>2, <1>7, <3>1
    <3> QED BY <3>1, <3>2 DEF ConsentOf, Leaves, Creates
  <2> QED BY <1>0, <1>1, <1>2, <2>1, ConsentsMoved
<1>9. ReadBefore'
  BY <1>0, <1>1, <1>2, ReadKept
<1>10. ASSUME ~mishap'.stalled PROVE Exclusive'
  <2>1. Exclusive
    BY <1>1, <1>10 DEF CnInv, MishapGrows
  <2>2. Alone(w, c)
    BY <1>7 DEF Alone
  <2>3. Wired(c)' = {}
    BY DEF Wired, FreshId
  <2> QED BY <1>0, <1>1, <1>2, <1>3, <2>1, <2>2, <2>3, ExclusiveKept
<1>11. ASSUME ~mishap'.stalled, ~mishap'.cut PROVE InStep'
  <2>1. InStep
    BY <1>1, <1>11 DEF CnInv, MishapGrows
  <2>2. Alone(w, c)
    BY <1>7 DEF Alone
  <2> QED BY <1>0, <1>1, <1>2, <2>1, <2>2, InStepKept
<1> QED BY <1>4, <1>5, <1>6, <1>8, <1>9, <1>10, <1>11, CnInvIs

LEMMA ConnectNoAuthDoes ==
  ASSUME CnInv, NEW w \in CnWorkers, NEW c \in CnIds, NEW alias \in Aliases, NEW subs \in NonEmpty, ConnectNoAuth(w, c, alias, subs)
  PROVE  CnInv'
<1>1. /\ CnAt(w, "idle") /\ FreshId(c) /\ lock' = [lock EXCEPT ![c] = w] /\ CnTypes
      /\ UNCHANGED <<cnRec, grant, manifest, flows, cnWrites, mishap>>
  BY DEF ConnectNoAuth, CnBegin, CnInv
<1>2. PICK p : p = [CnIdle EXCEPT !.kind = "none", !.pc = "persist", !.conn = c, !.alias = alias, !.subs = subs]
  OBVIOUS
<1>3. cnOp' = [cnOp EXCEPT ![w] = p]
  BY <1>2 DEF ConnectNoAuth
<1>4. /\ p.kind = "none" /\ p.pc = "persist" /\ p.conn = c /\ p.alias = alias /\ p.flow = None /\ p.add = {} /\ p.remove = {} /\ p.consent = {}
      /\ p \in CnOps
  BY <1>2 DEF CnIdle, CnOps, CnKinds, CnPcs, NonEmpty
<1>5. Shaped(p) /\ Creates(p)
  BY <1>4 DEF Shaped, Creates
<1>6. CnData' /\ cnOp[w].pc = "idle" /\ grant'[c] = "none"
  BY <1>1 DEF CnTypes, CnData, CnAt, FreshId
<1> QED BY <1>1, <1>3, <1>4, <1>5, <1>6, CreationBegins

LEMMA GrantedIs ==
  ASSUME NEW o \in CnOps, NEW granted \in Granted(o) PROVE granted \in SUBSET Subs
<1>1. PICK scopes \in SUBSET o.subs : granted = IF scopes = {} THEN o.subs ELSE scopes
  BY DEF Granted
<1> QED BY <1>1 DEF CnOps

\* The tokens of a new consent replace those behind the connection.
LEMMA ExchangeAgain ==
  ASSUME CnInv, NEW w \in CnWorkers, CnAt(w, "exchange"), cnOp[w].kind # "connect", UNCHANGED <<lock, cnRec, manifest, flows, cnWrites, mishap>>,
         grant' = [grant EXCEPT ![cnOp[w].conn] = "again"], NEW granted \in Granted(cnOp[w]),
         cnOp' = [cnOp EXCEPT ![w] = [cnOp[w] EXCEPT !.pc = "lock", !.granted = granted]]
  PROVE  CnInv'
<1>0. CnTypes /\ OneUse /\ Unknown /\ Consents /\ ReadBefore /\ Shaped(cnOp[w]) /\ cnOp[w].pc = "exchange" /\ None \notin CnIds
  BY ConnectionConstants DEF CnInv, CnTypes, CnAt
<1>1. PICK c \in CnIds : c = cnOp[w].conn
  BY <1>0 DEF Shaped
<1>2. PICK p : p = [cnOp[w] EXCEPT !.pc = "lock", !.granted = granted]
  OBVIOUS
<1>3. cnOp[w] \in CnOps /\ granted \in SUBSET Subs
  BY <1>0, GrantedIs DEF Shaped
<1>4. /\ p \in CnOps /\ p.pc = "lock" /\ p.kind = cnOp[w].kind /\ p.conn = c /\ p.alias = cnOp[w].alias /\ p.flow = cnOp[w].flow
      /\ p.add = cnOp[w].add /\ p.remove = cnOp[w].remove /\ p.consent = cnOp[w].consent
  BY <1>1, <1>2, <1>3 DEF CnOps, CnPcs
<1>5. Shaped(p)
  BY <1>0, <1>4 DEF Shaped
<1>6. /\ ~Creates(p) /\ ~Changes(p) /\ ~Applies(p) /\ ~Leaves(p) /\ p.pc # "delete" /\ p.pc \notin BodyPcs /\ p.pc \notin HandPcs
      /\ ~Creates(cnOp[w]) /\ ~Leaves(cnOp[w]) /\ cnOp[w].pc \notin BodyPcs /\ cnOp[w].pc \notin HandPcs /\ cnOp[w].pc \in Early
  BY <1>0, <1>4 DEF Creates, Changes, Applies, Leaves, BodyPcs, HandPcs, Early
<1>7. Becomes(w, p) /\ MishapGrows /\ CnElse(c) /\ CnElse(None) /\ GrantElse(c) /\ grant'[c] = "again" /\ CnData'
  <2>1. cnOp' = [cnOp EXCEPT ![w] = p] /\ grant' = [grant EXCEPT ![c] = "again"]
    BY <1>1, <1>2
  <2>2. Becomes(w, p)
    BY <1>0, <2>1, BecomesOp
  <2>3. grant'[c] = "again" /\ GrantElse(c) /\ CnData'
    BY <1>0, <2>1 DEF CnTypes, CnData, GrantElse
  <2> QED BY <2>2, <2>3, NoneElse, StillGrows
<1>8. LockMoves(w, p) /\ \A d : LockElse(w, d)
  BY <1>0, <1>6, LockStays
<1>9. CnTypes'
  BY <1>0, <1>5, <1>7, <1>8, CnTypesKept
<1>10. OneUse'
  BY <1>0, <1>4, <1>6, <1>7, SameFlows, OneUseKept
<1>11. \A v \in CnWorkers \ {w} : Creates(cnOp[v]) => cnOp[v].conn # c
  BY <1>0, <1>1, NotCreated
<1>12. Unknown'
  BY <1>0, <1>4, <1>6, <1>7, <1>11, SameFlows, UnknownKept
<1>13. Consents'
  <2>1. ConsentOf(c)'
    BY <1>7 DEF ConsentOf
  <2> QED BY <1>0, <1>4, <1>6, <1>7, <2>1, ConsentsMoved
<1>14. ReadBefore'
  BY <1>0, <1>5, <1>6, <1>7, ReadKept
<1>15. ASSUME ~mishap'.stalled PROVE Exclusive'
  <2>1. Exclusive
    BY <1>7, <1>15 DEF CnInv, MishapGrows
  <2> QED BY <1>0, <1>6, <1>7, <1>8, <2>1, ExclusiveKept
<1>16. ASSUME ~mishap'.stalled, ~mishap'.cut PROVE InStep'
  <2>1. InStep
    BY <1>7, <1>16 DEF CnInv, MishapGrows
  <2> QED BY <1>0, <1>6, <1>7, <2>1, InStepKept
<1> QED BY <1>9, <1>10, <1>12, <1>13, <1>14, <1>15, <1>16, CnInvIs

LEMMA ExchangeDoes == ASSUME CnInv, NEW w \in CnWorkers, Exchange(w) PROVE CnInv'
<1>1. /\ CnAt(w, "exchange") /\ cnOp[w].pc = "exchange" /\ Shaped(cnOp[w]) /\ CnTypes /\ UNCHANGED <<cnRec, manifest, flows, cnWrites, mishap>>
  BY DEF Exchange, CnInv, CnTypes, CnAt
<1>2. /\ ~Creates(cnOp[w]) /\ ~Leaves(cnOp[w]) /\ cnOp[w].pc \notin HandPcs /\ MishapGrows
  BY <1>1, StillGrows DEF Creates, Leaves, HandPcs
<1>3. CASE CnEnd(w) /\ UNCHANGED grant
  <2>1. CnData'
    BY <1>1, <1>3 DEF CnTypes, CnData
  <2> QED BY <1>1, <1>2, <1>3, <2>1, SameFlows, EndKeeps
<1>4. CASE /\ cnOp[w].kind = "connect"
           /\ \E c \in CnIds, granted \in Granted(cnOp[w]) :
                /\ FreshId(c) /\ lock' = [lock EXCEPT ![c] = w] /\ grant' = [grant EXCEPT ![c] = "live"]
                /\ cnOp' = [cnOp EXCEPT ![w] = [cnOp[w] EXCEPT !.pc = "persist", !.conn = c, !.granted = granted]]
  <2>1. PICK c \in CnIds, granted \in Granted(cnOp[w]) :
                /\ FreshId(c) /\ lock' = [lock EXCEPT ![c] = w] /\ grant' = [grant EXCEPT ![c] = "live"]
                /\ cnOp' = [cnOp EXCEPT ![w] = [cnOp[w] EXCEPT !.pc = "persist", !.conn = c, !.granted = granted]]
    BY <1>4
  <2>2. PICK p : p = [cnOp[w] EXCEPT !.pc = "persist", !.conn = c, !.granted = granted]
    OBVIOUS
  <2>3. cnOp[w] \in CnOps /\ granted \in SUBSET Subs
    BY <1>1, GrantedIs DEF Shaped
  <2>4. /\ p \in CnOps /\ p.pc = "persist" /\ p.kind = "connect" /\ p.conn = c /\ p.alias = cnOp[w].alias /\ p.flow = cnOp[w].flow
        /\ p.add = cnOp[w].add /\ p.remove = cnOp[w].remove /\ p.consent = cnOp[w].consent
    BY <1>4, <2>2, <2>3 DEF CnOps, CnPcs
  <2>5. Shaped(p) /\ Creates(p)
    BY <1>1, <1>4, <2>4 DEF Shaped, Creates
  <2>6. grant'[c] = "live" /\ (\A d \in CnIds \ {c} : grant'[d] = grant[d]) /\ CnData'
    BY <1>1, <2>1 DEF CnTypes, CnData
  <2>7. cnOp' = [cnOp EXCEPT ![w] = p] /\ grant'[c] = IF p.kind = "none" THEN "none" ELSE "live"
    BY <2>1, <2>2, <2>4, <2>6
  <2>8. FreshId(c) /\ lock' = [lock EXCEPT ![c] = w] /\ cnOp[w].pc \in {"idle", "exchange"} /\ p.flow \in {None, cnOp[w].flow}
    BY <1>1, <2>1, <2>4
  <2> QED BY <1>1, <2>4, <2>5, <2>6, <2>7, <2>8, CreationBegins
<1>5. CASE /\ cnOp[w].kind # "connect" /\ UNCHANGED lock /\ grant' = [grant EXCEPT ![cnOp[w].conn] = "again"]
           /\ \E granted \in Granted(cnOp[w]) : cnOp' = [cnOp EXCEPT ![w] = [cnOp[w] EXCEPT !.pc = "lock", !.granted = granted]]
  BY <1>1, <1>5, ExchangeAgain
<1> QED BY <1>3, <1>4, <1>5 DEF Exchange

LEMMA DisconnectRevokesDoes == ASSUME CnInv, NEW w \in CnWorkers, DisconnectRevokes(w) PROVE CnInv'
<1>0. CnTypes /\ OneUse /\ Unknown /\ Consents /\ ReadBefore /\ Shaped(cnOp[w]) /\ cnOp[w].pc = "revoke" /\ None \notin CnIds
  BY ConnectionConstants DEF CnInv, CnTypes, DisconnectRevokes, CnAt
<1>1. PICK c \in CnIds : c = cnOp[w].conn
  BY <1>0 DEF Shaped
<1>2. PICK outcome \in {"dead", "left"} : grant' = [grant EXCEPT ![c] = outcome]
  BY <1>1 DEF DisconnectRevokes, Revoke
<1>3. PICK p : p = [cnOp[w] EXCEPT !.pc = "apply"]
  OBVIOUS
<1>4. cnOp' = [cnOp EXCEPT ![w] = p] /\ UNCHANGED <<cnRec, manifest, flows, lock, cnWrites, mishap>>
  BY <1>3 DEF DisconnectRevokes, CnGo
<1>5. /\ p \in CnOps /\ p.pc = "apply" /\ p.kind = "disconnect" /\ p.conn = c /\ p.flow = cnOp[w].flow
      /\ p.add = cnOp[w].add /\ p.remove = cnOp[w].remove /\ p.consent = cnOp[w].consent
  BY <1>0, <1>1, <1>3 DEF Shaped, CnOps, CnPcs
<1>6. Shaped(p)
  BY <1>0, <1>5 DEF Shaped
<1>7. /\ ~Creates(p) /\ ~Changes(p) /\ ~Applies(p) /\ Leaves(p) /\ p.pc # "delete" /\ p.pc \in BodyPcs /\ p.pc \in HandPcs /\ p.pc \notin Early
      /\ ~Creates(cnOp[w]) /\ ~Leaves(cnOp[w]) /\ cnOp[w].pc \in BodyPcs /\ cnOp[w].pc \in HandPcs
  BY <1>0, <1>5 DEF Creates, Changes, Applies, Leaves, BodyPcs, HandPcs, Early
<1>8. Becomes(w, p) /\ MishapGrows /\ CnElse(c) /\ GrantElse(c) /\ grant'[c] \in {"dead", "left"} /\ CnData'
  <2>1. grant'[c] \in {"dead", "left"} /\ GrantElse(c) /\ CnData'
    BY <1>0, <1>2, <1>4 DEF CnTypes, CnData, GrantElse
  <2> QED BY <1>0, <1>4, <2>1, BecomesOp, NoneElse, StillGrows
<1>9. LockMoves(w, p) /\ \A d : LockElse(w, d)
  BY <1>0, <1>1, <1>4, <1>5, <1>7, LockStays
<1>10. CnTypes'
  BY <1>0, <1>6, <1>8, <1>9, CnTypesKept
<1>11. OneUse'
  BY <1>0, <1>4, <1>5, <1>7, <1>8, SameFlows, OneUseKept
<1>12. \A v \in CnWorkers \ {w} : Creates(cnOp[v]) => cnOp[v].conn # c
  BY <1>0, <1>1, NotCreated
<1>13. Unknown'
  BY <1>0, <1>4, <1>5, <1>7, <1>8, <1>12, SameFlows, UnknownKept
<1>14. Consents'
  <2>1. cnOp'[w] = p
    BY <1>8 DEF Becomes
  <2>2. ConsentOf(c)'
    BY <1>5, <1>7, <1>8, <2>1 DEF ConsentOf, Leaves
  <2> QED BY <1>0, <1>1, <1>5, <1>8, <2>2, ConsentsMoved
<1>15. ReadBefore'
  BY <1>0, <1>4, <1>6, <1>7, <1>8, ReadKept
<1>16. ASSUME ~mishap'.stalled PROVE Exclusive'
  <2>1. Exclusive
    BY <1>8, <1>16 DEF CnInv, MishapGrows
  <2>2. Alone(w, c) /\ lock'[c] = w
    BY <1>1, <1>4, <1>7, <2>1, BodyAlone DEF Exclusive, OwnBody
  <2>3. Wired(c)' # {} => cnRec'[c] # None
    BY <1>4, <2>1, NoneElse DEF Exclusive
  <2> QED BY <1>0, <1>5, <1>7, <1>8, <1>9, <2>1, <2>2, <2>3, ExclusiveKept
<1>17. ASSUME ~mishap'.stalled, ~mishap'.cut PROVE InStep'
  <2>1. InStep /\ Exclusive
    BY <1>8, <1>17 DEF CnInv, MishapGrows
  <2>2. Alone(w, c)
    BY <1>1, <1>7, <2>1, BodyAlone
  <2> QED BY <1>0, <1>1, <1>5, <1>7, <1>8, <2>1, <2>2, InStepKept
<1> QED BY <1>10, <1>11, <1>13, <1>14, <1>15, <1>16, <1>17, CnInvIs

\* A connection that is not created after all: its alias is taken, or the store fails.
LEMMA CreationFails ==
  ASSUME CnInv, NEW w \in CnWorkers, Creates(cnOp[w]), CnEnd(w), RevokeFresh(cnOp[w]), UNCHANGED <<cnRec, manifest, flows, cnWrites>>,
         mishap' \in [stalled : BOOLEAN, cut : BOOLEAN], MishapGrows
  PROVE  CnInv'
<1>0. CnTypes /\ OneUse /\ Unknown /\ Consents /\ ReadBefore /\ Apart(w) /\ None \notin CnIds
  BY ConnectionConstants DEF CnInv, Unknown
<1>1. PICK c \in CnIds : c = cnOp[w].conn
  BY <1>0, CreatesConn
<1>2. /\ cnRec[c] = None /\ (\A v \in CnWorkers \ {w} : cnOp[v].conn # c) /\ (\A t \in Titles : manifest[t] # c)
  BY <1>0, <1>1 DEF Apart
<1>3. CnData' /\ GrantElse(c) /\ grant'[c] # "live"
  <2>1. CASE cnOp[w].kind = "connect"
    <3>1. PICK outcome \in {"dead", "left"} : grant' = [grant EXCEPT ![c] = outcome]
      BY <1>1, <2>1 DEF RevokeFresh, Revoke
    <3> QED BY <1>0, <3>1 DEF CnTypes, CnData, GrantElse
  <2>2. CASE cnOp[w].kind = "none"
    <3>1. UNCHANGED grant /\ grant[c] = "none"
      BY <1>0, <1>1, <2>2 DEF RevokeFresh, Apart
    <3> QED BY <1>0, <3>1 DEF CnTypes, CnData, GrantElse
  <2> QED BY <2>1, <2>2 DEF Creates
<1>4. Becomes(w, CnIdle) /\ CnElse(c) /\ LockMoves(w, CnIdle) /\ \A d : LockElse(w, d)
  BY <1>0, BecomesOp, LockLeft, NoneElse DEF CnEnd
<1>5. CnTypes'
  BY <1>0, <1>3, <1>4, CnIdleIs, CnTypesKept
<1>6. OneUse'
  BY <1>0, <1>4, CnIdleIs, SameFlows, OneUseKept
<1>7. Unknown'
  BY <1>0, <1>2, <1>3, <1>4, CnIdleIs, SameFlows, UnknownKept
<1>8. Consents'
  <2>1. cnOp'[w] = CnIdle /\ \A v \in CnWorkers \ {w} : cnOp'[v] = cnOp[v]
    BY <1>4 DEF Becomes
  <2>2. \A v \in CnWorkers : ~(cnOp'[v].conn = c /\ Leaves(cnOp'[v]))
    BY <1>2, <2>1, CnIdleIs
  <2>3. ConsentOf(c)'
    BY <1>2, <1>3, <2>2 DEF ConsentOf, Leaves
  <2> QED BY <1>0, <1>1, <1>3, <1>4, <2>3, CnIdleIs, ConsentsMoved
<1>9. ReadBefore'
  BY <1>0, <1>3, <1>4, CnIdleIs, ReadKept
<1>10. Alone(w, c) /\ Wired(c)' = {} /\ EnabledOf(c)' = {}
  BY <1>2 DEF Alone, Wired, EnabledOf
<1>11. CnIdle.pc \notin BodyPcs /\ CnIdle.pc \notin HandPcs /\ CnIdle.pc # "delete"
  BY CnIdleIs DEF BodyPcs, HandPcs
<1>12. ASSUME ~mishap'.stalled PROVE Exclusive'
  <2>1. Exclusive
    BY <1>12 DEF CnInv, MishapGrows
  <2> QED BY <1>0, <1>4, <1>10, <1>11, <2>1, CnIdleIs, ExclusiveKept
<1>13. ASSUME ~mishap'.stalled, ~mishap'.cut PROVE InStep'
  <2>1. InStep
    BY <1>13 DEF CnInv, MishapGrows
  <2> QED BY <1>0, <1>1, <1>4, <1>10, <1>11, <2>1, CnIdleIs, InStepKept
<1> QED BY <1>5, <1>6, <1>7, <1>8, <1>9, <1>12, <1>13, CnInvIs

LEMMA WroteIs == ASSUME CnTypes, NEW w \in CnWorkers, Wrote(cnOp[w].flow) PROVE cnWrites' \in [Flows -> Nat]
<1>1. PICK f \in Flows \cup {None} : f = cnOp[w].flow
  BY DEF CnTypes, Shaped, CnOps
<1>2. cnWrites \in [Flows -> Nat] /\ (f # None => f \in Flows)
  BY <1>1 DEF CnTypes, CnData
<1> QED BY <1>1, <1>2 DEF Wrote

LEMMA PersistNewDoes == ASSUME CnInv, NEW w \in CnWorkers, PersistNew(w) PROVE CnInv'
<1>0. /\ CnTypes /\ OneUse /\ Unknown /\ Consents /\ ReadBefore /\ None \notin CnIds /\ None \notin CnRecord /\ Shaped(cnOp[w])
      /\ CnAt(w, "persist") /\ cnOp[w].pc = "persist" /\ UNCHANGED <<manifest, flows, mishap>>
  BY ConnectionConstants DEF CnInv, CnTypes, CnAt, PersistNew
<1>1. Creates(cnOp[w]) /\ Apart(w) /\ MishapGrows /\ mishap' \in [stalled : BOOLEAN, cut : BOOLEAN]
  BY <1>0, StillGrows DEF PersistNew, CnAt, Creates, Unknown, CnTypes, CnData
<1>2. CASE CnEnd(w) /\ RevokeFresh(cnOp[w]) /\ UNCHANGED <<cnRec, cnWrites>>
  BY <1>0, <1>1, <1>2, CreationFails
<1>3. CASE ~(CnEnd(w) /\ RevokeFresh(cnOp[w]) /\ UNCHANGED <<cnRec, cnWrites>>)
  <2>1. PICK c \in CnIds : c = cnOp[w].conn
    BY <1>0, <1>1, CreatesConn
  <2>2. PICK b \in BOOLEAN : b = (cnOp[w].kind = "connect")
    OBVIOUS
  <2>3. PICK r : r = [alias |-> cnOp[w].alias, enabled |-> cnOp[w].subs, granted |-> cnOp[w].granted, oauth |-> b, tok |-> 1, blob |-> 0]
    OBVIOUS
  <2>4. PICK p : p = [cnOp[w] EXCEPT !.pc = "apply", !.add = cnOp[w].subs]
    OBVIOUS
  <2>5. UNCHANGED <<grant, lock>> /\ cnRec' = [cnRec EXCEPT ![c] = r] /\ cnOp' = [cnOp EXCEPT ![w] = p] /\ Wrote(cnOp[w].flow)
    BY <1>3, <2>1, <2>2, <2>3, <2>4 DEF PersistNew, Created
  <2>6. cnOp[w] \in CnOps /\ cnOp[w].alias \in Aliases /\ cnOp[w].add = {} /\ cnOp[w].remove = {} /\ cnOp[w].consent = {}
    BY <1>0, <1>1 DEF Shaped, Creates
  <2>7. r \in CnRecord /\ r # None /\ r.enabled = cnOp[w].subs /\ r.oauth = b
    <3>1. r \in CnRecord /\ r.enabled = cnOp[w].subs /\ r.oauth = b
      BY <2>3, <2>6 DEF CnRecord, CnOps
    <3> QED BY <1>0, <3>1
  <2>8. /\ p \in CnOps /\ p.pc = "apply" /\ p.kind = cnOp[w].kind /\ p.conn = c /\ p.flow = cnOp[w].flow /\ p.alias = cnOp[w].alias
        /\ p.add = cnOp[w].subs /\ p.remove = {} /\ p.consent = {}
    BY <2>1, <2>4, <2>6 DEF CnOps, CnPcs
  <2>9. Shaped(p)
    BY <1>0, <1>1, <2>6, <2>8 DEF Shaped, Creates
  <2>10. /\ ~Creates(p) /\ ~Changes(p) /\ Applies(p) /\ ~Leaves(p) /\ p.pc # "delete" /\ p.pc \in BodyPcs /\ p.pc \in HandPcs /\ p.pc \notin Early
         /\ ~Leaves(cnOp[w]) /\ cnOp[w].pc \in BodyPcs /\ cnOp[w].pc \in HandPcs
    BY <1>0, <1>1, <2>8 DEF Creates, Changes, Applies, Leaves, BodyPcs, HandPcs, Early
  <2>11. /\ cnRec[c] = None /\ (\A v \in CnWorkers \ {w} : cnOp[v].conn # c) /\ (\A t \in Titles : manifest[t] # c)
         /\ grant[c] = IF cnOp[w].kind = "none" THEN "none" ELSE "live"
    BY <1>1, <2>1 DEF Apart
  <2>12. cnRec'[c] = r /\ CnElse(c) /\ GrantElse(c) /\ CnData' /\ Becomes(w, p)
    <3>1. cnRec'[c] = r /\ (\A d \in CnIds \ {c} : cnRec'[d] = cnRec[d]) /\ cnRec' \in [CnIds -> CnRecord \cup {None}]
      BY <1>0, <2>5, <2>7 DEF CnTypes, CnData
    <3>2. cnWrites' \in [Flows -> Nat]
      BY <1>0, <2>5, WroteIs
    <3> QED BY <1>0, <1>1, <2>5, <3>1, <3>2, BecomesOp DEF CnElse, GrantElse, CnTypes, CnData
  <2>13. LockMoves(w, p) /\ \A d : LockElse(w, d)
    BY <1>0, <2>1, <2>5, <2>8, <2>10, LockStays
  <2>14. CnTypes'
    BY <1>0, <2>9, <2>12, <2>13, CnTypesKept
  <2>15. OneUse'
    BY <1>0, <2>5, <2>8, <2>10, <2>12, OneUseWrote
  <2>16. Unknown'
    BY <1>0, <2>8, <2>10, <2>11, <2>12, SameFlows, UnknownKept
  <2>17. Consents'
    <3>1. cnOp'[w] = p /\ \A v \in CnWorkers \ {w} : cnOp'[v] = cnOp[v]
      BY <2>12 DEF Becomes
    <3>2. \A v \in CnWorkers : ~(cnOp'[v].conn = c /\ Leaves(cnOp'[v]))
      BY <2>10, <2>11, <3>1
    <3>3. ~r.oauth => grant[c] # "live"
      BY <1>1, <2>2, <2>7, <2>11 DEF Creates
    <3>4. grant[c] # "dead"
      BY <2>11
    <3>5. ConsentOf(c)'
      BY <2>5, <2>7, <2>12, <3>2, <3>3, <3>4 DEF ConsentOf, Leaves
    <3> QED BY <1>0, <1>1, <2>1, <2>8, <2>12, <3>5, ConsentsMoved
  <2>18. ReadBefore'
    <3>1. \A d \in CnIds : cnRec'[d] # None /\ cnRec'[d] # cnRec[d] =>
            /\ cnRec[d] # None => cnRec'[d].blob > cnRec[d].blob
            /\ cnRec[d] = None => \A v \in CnWorkers \ {w} : Changes(cnOp[v]) => cnOp[v].conn # d
      BY <2>11, <2>12 DEF CnElse
    <3> QED BY <1>0, <2>9, <2>10, <2>12, <3>1, ReadKept
  <2>19. Alone(w, c) /\ Wired(c)' = {} /\ EnabledOf(c)' = p.add
    BY <1>0, <2>7, <2>8, <2>11, <2>12 DEF Alone, Wired, EnabledOf
  <2>20. ASSUME ~mishap'.stalled PROVE Exclusive'
    <3>1. Exclusive
      BY <1>1, <2>20 DEF CnInv, MishapGrows
    <3>2. lock'[c] = w
      BY <2>1, <2>5, <2>10, <3>1 DEF Exclusive, OwnBody
    <3> QED BY <1>0, <2>7, <2>8, <2>10, <2>12, <2>13, <2>19, <3>1, <3>2, ExclusiveKept
  <2>21. ASSUME ~mishap'.stalled, ~mishap'.cut PROVE InStep'
    <3>1. InStep
      BY <1>1, <2>21 DEF CnInv, MishapGrows
    <3>2. EnabledOf(c)' = (Wired(c)' \ p.remove) \cup p.add
      BY <2>19
    <3> QED BY <1>0, <2>1, <2>8, <2>10, <2>12, <2>19, <3>1, <3>2, InStepKept
  <2> QED BY <2>14, <2>15, <2>16, <2>17, <2>18, <2>20, <2>21, CnInvIs
<1> QED BY <1>2, <1>3

\* A change is persisted: the record is the operation's, one version on.
LEMMA ChangeLands ==
  ASSUME CnInv, NEW w \in CnWorkers, Changes(cnOp[w]), NEW c \in CnIds, c = cnOp[w].conn, NEW r \in CnRecord, r = cnRec[c], r # None,
         cnRec' = [cnRec EXCEPT ![c] = [r EXCEPT !.enabled = cnOp[w].subs, !.granted = cnOp[w].granted, !.tok = cnOp[w].tok, !.blob = r.blob + 1]],
         Wrote(cnOp[w].flow), UNCHANGED <<grant, manifest, flows>>, mishap' \in [stalled : BOOLEAN, cut : BOOLEAN], MishapGrows,
         NEW p, cnOp' = [cnOp EXCEPT ![w] = p], Shaped(p), p.flow \in {None, cnOp[w].flow}, ~Creates(p), ~Changes(p), ~Leaves(p), p.pc # "delete", p.pc \notin Early,
         LockMoves(w, p), LockElse(w, c),
         \/ Applies(p) /\ p.conn = c /\ p.add = cnOp[w].add /\ p.remove = cnOp[w].remove /\ UNCHANGED lock
         \/ p.pc \notin BodyPcs /\ p.conn \in {None, c} /\ (mishap'.cut \/ (cnOp[w].add = {} /\ cnOp[w].remove = {}))
  PROVE  CnInv'
<1>0. /\ CnTypes /\ OneUse /\ Unknown /\ Consents /\ ReadBefore /\ None \notin CnIds /\ None \notin CnRecord
      /\ cnOp[w].pc = "persist" /\ CnAt(w, "persist") /\ Shaped(cnOp[w]) /\ p.conn \in {None, c}
  BY ConnectionConstants DEF CnInv, CnTypes, CnAt, Changes
<1>1. PICK n : n = [r EXCEPT !.enabled = cnOp[w].subs, !.granted = cnOp[w].granted, !.tok = cnOp[w].tok, !.blob = r.blob + 1]
  OBVIOUS
<1>2. n \in CnRecord /\ n.enabled = cnOp[w].subs /\ n.oauth = r.oauth /\ n.blob = r.blob + 1 /\ r.blob \in Nat /\ n # None
  <2>1. cnOp[w].subs \in SUBSET Subs /\ cnOp[w].granted \in SUBSET Subs /\ cnOp[w].tok \in Nat /\ r.blob \in Nat /\ r.blob + 1 \in Nat
    BY <1>0 DEF Shaped, CnOps, CnRecord
  <2>2. PICK subs \in SUBSET Subs, granted \in SUBSET Subs, tok \in Nat, blob \in Nat :
            subs = cnOp[w].subs /\ granted = cnOp[w].granted /\ tok = cnOp[w].tok /\ blob = r.blob + 1
    BY <2>1
  <2>3. n = [r EXCEPT !.enabled = subs, !.granted = granted, !.tok = tok, !.blob = blob]
    BY <1>1, <2>2
  <2>4. n \in CnRecord /\ n.enabled = subs /\ n.oauth = r.oauth /\ n.blob = blob
    BY <2>3 DEF CnRecord
  <2> QED BY <1>0, <2>1, <2>2, <2>4
<1>3. cnRec'[c] = n /\ (\A d \in CnIds \ {c} : cnRec'[d] = cnRec[d]) /\ cnRec' \in [CnIds -> CnRecord \cup {None}]
  BY <1>0, <1>1, <1>2 DEF CnTypes, CnData
<1>4. CnElse(c) /\ GrantElse(c) /\ CnData' /\ Becomes(w, p)
  BY <1>0, <1>3, BecomesOp, WroteIs DEF CnElse, GrantElse, CnTypes, CnData
<1>5. CnTypes'
  BY <1>0, <1>4, CnTypesKept
<1>6. OneUse'
  BY <1>0, <1>4, OneUseWrote
<1>7. \A v \in CnWorkers \ {w} : Creates(cnOp[v]) => cnOp[v].conn # c
  BY <1>0, NotCreated
<1>8. Unknown'
  BY <1>0, <1>4, <1>7, SameFlows, UnknownKept
<1>9. Consents'
  <2>1. cnOp'[w] = p /\ (\A v \in CnWorkers \ {w} : cnOp'[v] = cnOp[v]) /\ ~Leaves(cnOp[w]) /\ ~Creates(cnOp[w])
    BY <1>0, <1>4 DEF Becomes, Leaves, Creates, Changes
  <2>2. ConsentOf(c)
    BY <1>0 DEF Consents
  <2>3. (~n.oauth => grant[c] # "live") /\ \A v \in CnWorkers : cnOp'[v].conn = c /\ Leaves(cnOp'[v]) => grant[c] # "live"
    BY <1>2, <2>1, <2>2 DEF ConsentOf
  <2>4. ASSUME grant[c] = "dead", ~mishap'.cut, ~mishap'.stalled PROVE \E v \in CnWorkers : cnOp'[v].conn = c /\ Leaves(cnOp'[v])
    <3>1. PICK v \in CnWorkers : cnOp[v].conn = c /\ Leaves(cnOp[v])
      BY <2>2, <2>4 DEF ConsentOf, MishapGrows
    <3> QED BY <2>1, <3>1
  <2>5. ConsentOf(c)'
    BY <1>2, <1>3, <2>3, <2>4 DEF ConsentOf, Leaves
  <2> QED BY <1>0, <1>4, <2>1, <2>5, ConsentsMoved
<1>10. ReadBefore'
  <2>1. \A d \in CnIds : cnRec'[d] # None /\ cnRec'[d] # cnRec[d] =>
            /\ cnRec[d] # None => cnRec'[d].blob > cnRec[d].blob
            /\ cnRec[d] = None => \A v \in CnWorkers \ {w} : Changes(cnOp[v]) => cnOp[v].conn # d
    BY <1>2, <1>3
  <2> QED BY <1>0, <1>4, <2>1, ReadKept
<1>11. Wired(c)' = Wired(c) /\ EnabledOf(c) = r.enabled /\ EnabledOf(c)' = cnOp[w].subs
  BY <1>2, <1>3 DEF Wired, EnabledOf
<1>12. cnOp[w].pc \in BodyPcs /\ cnOp[w].pc \in HandPcs
  BY <1>0 DEF BodyPcs, HandPcs
<1>13. ASSUME ~mishap'.stalled PROVE Exclusive'
  <2>1. Exclusive
    BY <1>4, <1>13 DEF CnInv, MishapGrows
  <2>2. Alone(w, c) /\ lock[c] = w
    BY <1>12, <2>1, BodyAlone DEF Exclusive, OwnBody
  <2>3. p.pc \in BodyPcs => lock'[c] = w /\ p.conn = c
    BY <2>2
  <2>4. cnRec'[c] # None
    BY <1>2, <1>3
  <2>5. CnTypes /\ CnElse(c) /\ Becomes(w, p) /\ LockElse(w, c)
    BY <1>0, <1>4
  <2> QED BY <2>1, <2>2, <2>3, <2>4, <2>5, ExclusiveKept
<1>14. ASSUME ~mishap'.stalled, ~mishap'.cut PROVE InStep'
  <2>1. InStep /\ Exclusive
    BY <1>4, <1>14 DEF CnInv, MishapGrows
  <2>2. Alone(w, c)
    BY <1>12, <2>1, BodyAlone
  <2>3. Wired(c) = EnabledOf(c) /\ cnOp[w].subs = (Wired(c) \ cnOp[w].remove) \cup cnOp[w].add
    BY <2>1 DEF InStep, OnCourse
  <2>4. p.pc \in HandPcs => Applies(p)
    BY DEF HandPcs, BodyPcs, Applies
  <2>5. ~Applies(p) => Wired(c)' = EnabledOf(c)'
    <3>1. ASSUME ~Applies(p) PROVE Wired(c)' = EnabledOf(c)'
      <4>1. cnOp[w].subs = Wired(c)
        BY <1>14, <2>3, <3>1
      <4> QED BY <1>11, <4>1
    <3> QED BY <3>1
  <2>6. Applies(p) => EnabledOf(c)' = (Wired(c)' \ p.remove) \cup p.add
    <3>1. ASSUME Applies(p) PROVE EnabledOf(c)' = (Wired(c)' \ p.remove) \cup p.add
      <4>1. p.add = cnOp[w].add /\ p.remove = cnOp[w].remove
        BY <3>1 DEF Applies, BodyPcs
      <4> QED BY <1>11, <2>3, <4>1
    <3> QED BY <3>1
  <2>7. p.pc \in HandPcs => p.conn = c
    BY <2>4 DEF Applies, BodyPcs
  <2>8. p.pc \notin HandPcs => Wired(c)' = EnabledOf(c)'
    BY <2>5 DEF Applies, HandPcs
  <2> QED BY <1>0, <1>4, <1>12, <2>1, <2>2, <2>6, <2>7, <2>8, InStepKept
<1> QED BY <1>5, <1>6, <1>8, <1>9, <1>10, <1>13, <1>14, CnInvIs

LEMMA PersistChangeDoes == ASSUME CnInv, NEW w \in CnWorkers, PersistChange(w) PROVE CnInv'
<1>0. /\ CnTypes /\ Shaped(cnOp[w]) /\ cnOp[w].pc = "persist" /\ CnAt(w, "persist") /\ Changes(cnOp[w])
      /\ UNCHANGED <<grant, manifest, flows, mishap>> /\ cnOp[w].conn \in CnIds
      /\ mishap' \in [stalled : BOOLEAN, cut : BOOLEAN] /\ MishapGrows
  BY StillGrows DEF CnInv, CnTypes, CnData, CnAt, Changes, PersistChange, Shaped
<1>1. CASE ~CasHits(cnOp[w])
  <2>1. CnEnd(w) /\ UNCHANGED <<cnRec, cnWrites>>
    BY <1>1 DEF PersistChange
  <2>2. ~Creates(cnOp[w]) /\ ~Leaves(cnOp[w])
    BY <1>0 DEF Creates, Leaves, Changes
  <2>3. CnData' /\ MishapGrows
    BY <1>0, <2>1, StillGrows DEF CnTypes, CnData
  <2> QED BY <1>0, <2>1, <2>2, <2>3, SameFlows, EndKeeps
<1>2. CASE CasHits(cnOp[w])
  <2>1. PICK c \in CnIds : c = cnOp[w].conn
    BY <1>0
  <2>2. PICK r \in CnRecord : r = cnRec[c] /\ r # None
    BY <1>0, <1>2, <2>1 DEF CasHits, CnTypes, CnData
  <2>3. /\ cnRec' = [cnRec EXCEPT ![c] = [r EXCEPT !.enabled = cnOp[w].subs, !.granted = cnOp[w].granted, !.tok = cnOp[w].tok, !.blob = r.blob + 1]]
        /\ Wrote(cnOp[w].flow)
    BY <1>2, <2>1, <2>2 DEF PersistChange, Changed
  <2>4. CASE AfterPersist(cnOp[w]) = "idle"
    <3>1. CnEnd(w) /\ cnOp[w].add = {} /\ cnOp[w].remove = {}
      BY <1>2, <2>4 DEF PersistChange, AfterPersist
    <3>2. cnOp' = [cnOp EXCEPT ![w] = CnIdle] /\ LockMoves(w, CnIdle) /\ LockElse(w, c)
      BY <1>0, <3>1, LockLeft DEF CnEnd
    <3>3. CnIdle.pc \notin BodyPcs /\ CnIdle.pc \notin Early /\ CnIdle.pc # "delete"
      BY CnIdleIs DEF BodyPcs, Early
    <3> QED BY <1>0, <2>1, <2>2, <2>3, <3>1, <3>2, <3>3, CnIdleIs, ChangeLands
  <2>5. CASE AfterPersist(cnOp[w]) = "fork"
    <3>1. CnGo(w, "fork") /\ CnRelease(w) /\ cnOp[w].add = {} /\ cnOp[w].remove = {} /\ cnOp[w].consent # {}
      BY <1>2, <2>5 DEF PersistChange, AfterPersist
    <3>2. PICK p : p = [cnOp[w] EXCEPT !.pc = "fork"]
      OBVIOUS
    <3>3. cnOp' = [cnOp EXCEPT ![w] = p] /\ LockMoves(w, p) /\ LockElse(w, c)
      BY <1>0, <3>1, <3>2, LockLeft DEF CnGo
    <3>4. /\ p \in CnOps /\ p.pc = "fork" /\ p.kind = cnOp[w].kind /\ p.conn = c /\ p.alias = cnOp[w].alias /\ p.flow = cnOp[w].flow
          /\ p.add = cnOp[w].add /\ p.remove = cnOp[w].remove /\ p.consent = cnOp[w].consent
      BY <1>0, <2>1, <3>2 DEF Shaped, CnOps, CnPcs
    <3>5. cnOp[w].kind = "patch" /\ cnOp[w].alias \in Aliases
      BY <1>0, <3>1 DEF Shaped
    <3>6. /\ Shaped(p) /\ ~Creates(p) /\ ~Changes(p) /\ ~Leaves(p) /\ p.pc # "delete" /\ p.pc \notin Early /\ p.pc \notin BodyPcs
      BY <1>0, <3>1, <3>4, <3>5 DEF Shaped, Creates, Changes, Leaves, Early, BodyPcs
    <3> QED BY <1>0, <2>1, <2>2, <2>3, <3>1, <3>3, <3>4, <3>6, ChangeLands
  <2>6. CASE AfterPersist(cnOp[w]) = "apply"
    <3>1. CnGo(w, "apply") /\ UNCHANGED lock
      BY <1>2, <2>6 DEF PersistChange
    <3>2. PICK p : p = [cnOp[w] EXCEPT !.pc = "apply"]
      OBVIOUS
    <3>3. cnOp' = [cnOp EXCEPT ![w] = p]
      BY <3>1, <3>2 DEF CnGo
    <3>4. /\ p \in CnOps /\ p.pc = "apply" /\ p.kind = cnOp[w].kind /\ p.conn = c /\ p.alias = cnOp[w].alias /\ p.flow = cnOp[w].flow
          /\ p.add = cnOp[w].add /\ p.remove = cnOp[w].remove /\ p.consent = cnOp[w].consent
      BY <1>0, <2>1, <3>2 DEF Shaped, CnOps, CnPcs
    <3>5. /\ Shaped(p) /\ ~Creates(p) /\ ~Changes(p) /\ ~Leaves(p) /\ Applies(p) /\ p.pc # "delete" /\ p.pc \notin Early /\ p.pc \in BodyPcs
      BY <1>0, <3>4 DEF Shaped, Creates, Changes, Leaves, Applies, Early, BodyPcs
    <3>6. LockMoves(w, p) /\ LockElse(w, c)
      BY <1>0, <2>1, <3>1, <3>4, <3>5, LockStays
    <3> QED BY <1>0, <2>1, <2>2, <2>3, <3>1, <3>3, <3>4, <3>5, <3>6, ChangeLands
  <2> QED BY <2>4, <2>5, <2>6 DEF AfterPersist
<1> QED BY <1>1, <1>2

\* The entries of the connection after its manifest change.
LEMMA ReconciledIs ==
  ASSUME CnTypes, NEW w \in CnWorkers, NEW c \in CnIds, c = cnOp[w].conn, cnOp[w].pc = "apply", ~Collides(cnOp[w]), manifest' = Reconciled(cnOp[w])
  PROVE  /\ manifest' \in [Titles -> CnIds \cup {None}] /\ \A d \in CnIds \ {c} : \A t \in Titles : manifest'[t] = d <=> manifest[t] = d
         /\ Wired(c)' = (Wired(c) \ cnOp[w].remove) \cup cnOp[w].add
<1>1. PICK o \in CnOps : o = cnOp[w]
  BY DEF CnTypes, Shaped
<1>2. /\ o.conn = c /\ o.add \cap o.remove = {} /\ (o.add # {} => o.alias \in Aliases) /\ o.add \subseteq Subs
      /\ manifest \in [Titles -> CnIds \cup {None}] /\ None \notin CnIds
  BY <1>1, ConnectionConstants DEF CnTypes, CnData, Shaped, CnOps
<1>3. \A t \in Titles : t[1] = o.alias /\ t[2] \in o.add => manifest[t] \in {None, c}
  <2>1. ASSUME NEW t \in Titles, t[1] = o.alias, t[2] \in o.add PROVE manifest[t] \in {None, c}
    <3>1. t = <<o.alias, t[2]>>
      BY <2>1 DEF Titles
    <3> QED BY <1>1, <1>2, <2>1, <3>1 DEF Collides
  <2> QED BY <2>1
<1>4. \A t \in Titles : manifest'[t] = IF t[1] = o.alias /\ t[2] \in o.add THEN c ELSE IF manifest[t] = c /\ t[2] \in o.remove THEN None ELSE manifest[t]
  BY <1>1, <1>2 DEF Reconciled
<1>5. manifest' \in [Titles -> CnIds \cup {None}]
  <2>1. manifest' = [t \in Titles |-> IF t[1] = o.alias /\ t[2] \in o.add THEN c ELSE IF manifest[t] = c /\ t[2] \in o.remove THEN None ELSE manifest[t]]
    BY <1>1, <1>2 DEF Reconciled
  <2> QED BY <1>2, <2>1
<1>6. \A d \in CnIds \ {c} : \A t \in Titles : manifest'[t] = d <=> manifest[t] = d
  BY <1>2, <1>3, <1>4
<1>7. \A t \in Titles : manifest'[t] = c <=> (t[1] = o.alias /\ t[2] \in o.add) \/ (manifest[t] = c /\ t[2] \notin o.remove)
  BY <1>2, <1>4
<1>8. Wired(c)' = {t[2] : t \in {u \in Titles : manifest'[u] = c}} /\ Wired(c) = {t[2] : t \in {u \in Titles : manifest[u] = c}}
  BY DEF Wired
<1>9. ASSUME NEW s, s \in Wired(c)' PROVE s \in (Wired(c) \ o.remove) \cup o.add
  <2>1. PICK t \in Titles : manifest'[t] = c /\ t[2] = s
    BY <1>8, <1>9
  <2> QED BY <1>7, <1>8, <2>1
<1>10. ASSUME NEW s, s \in (Wired(c) \ o.remove) \cup o.add PROVE s \in Wired(c)'
  <2>1. CASE s \in o.add
    <3>1. PICK t \in Titles : t = <<o.alias, s>>
      BY <1>2, <2>1 DEF Titles
    <3>2. t[1] = o.alias /\ t[2] = s
      BY <3>1
    <3>3. manifest'[t] = c
      BY <1>7, <2>1, <3>2
    <3> QED BY <1>8, <3>2, <3>3
  <2>2. CASE s \in Wired(c) \ o.remove
    <3>1. PICK t \in Titles : manifest[t] = c /\ t[2] = s
      BY <1>8, <2>2
    <3>2. manifest'[t] = c
      BY <1>7, <2>2, <3>1
    <3> QED BY <1>8, <3>1, <3>2
  <2> QED BY <1>10, <2>1, <2>2
<1>11. Wired(c)' = (Wired(c) \ o.remove) \cup o.add
  BY <1>9, <1>10
<1> QED BY <1>1, <1>5, <1>6, <1>11

LEMMA ApplyLands ==
  ASSUME CnInv, NEW w \in CnWorkers, CnAt(w, "apply"), ~Collides(cnOp[w]), manifest' = Reconciled(cnOp[w]), UNCHANGED <<cnRec, grant, flows, cnWrites>>,
         mishap' \in [stalled : BOOLEAN, cut : BOOLEAN], MishapGrows, NEW c \in CnIds, c = cnOp[w].conn,
         NEW p, cnOp' = [cnOp EXCEPT ![w] = p], Shaped(p), p.flow \in {None, cnOp[w].flow}, ~Creates(p), ~Changes(p), ~Applies(p), p.pc \notin Early,
         LockMoves(w, p), LockElse(w, c), p.conn \in {None, c},
         p.pc \in BodyPcs => p.pc = "delete" /\ p.conn = c /\ UNCHANGED lock,
         IF cnOp[w].kind = "disconnect" THEN mishap'.cut \/ (p.pc = "delete" /\ p.conn = c) ELSE p.pc # "delete"
  PROVE  CnInv'
<1>0. /\ CnTypes /\ OneUse /\ Unknown /\ Consents /\ ReadBefore /\ None \notin CnIds /\ cnOp[w].pc = "apply" /\ Shaped(cnOp[w])
  BY ConnectionConstants DEF CnInv, CnTypes, CnAt
<1>1. /\ manifest' \in [Titles -> CnIds \cup {None}] /\ \A d \in CnIds \ {c} : \A t \in Titles : manifest'[t] = d <=> manifest[t] = d
      /\ Wired(c)' = (Wired(c) \ cnOp[w].remove) \cup cnOp[w].add
  BY <1>0, ReconciledIs
<1>2. CnElse(c) /\ GrantElse(c) /\ CnData' /\ Becomes(w, p)
  BY <1>0, <1>1, BecomesOp DEF CnElse, GrantElse, CnTypes, CnData
<1>3. CnTypes'
  BY <1>0, <1>2, CnTypesKept
<1>4. OneUse'
  BY <1>0, <1>2, SameFlows, OneUseKept
<1>5. \A v \in CnWorkers \ {w} : Creates(cnOp[v]) => cnOp[v].conn # c
  BY <1>0, NotCreated
<1>6. Unknown'
  BY <1>0, <1>2, <1>5, SameFlows, UnknownKept
<1>7. cnOp[w].pc \in BodyPcs /\ cnOp[w].pc \in HandPcs /\ ~Creates(cnOp[w]) /\ (Leaves(cnOp[w]) <=> cnOp[w].kind = "disconnect") /\ (Leaves(p) => Leaves(cnOp[w]) /\ p.conn = c)
  <2>1. p.pc = "delete" => p.kind = "disconnect" /\ cnOp[w].kind = "disconnect" /\ p.conn = c
    BY DEF Shaped, BodyPcs
  <2>2. p.pc # "apply"
    BY DEF BodyPcs
  <2> QED BY <1>0, <2>1, <2>2 DEF BodyPcs, HandPcs, Creates, Leaves
<1>8. Consents'
  <2>1. Leaves(p) => grant[p.conn] # "live"
    BY <1>0, <1>7 DEF Consents, ConsentOf
  <2>2. Leaves(cnOp[w]) => mishap'.cut \/ (p.conn = cnOp[w].conn /\ Leaves(p))
    <3>1. p.pc = "delete" => p.kind = "disconnect"
      BY DEF Shaped
    <3> QED BY <1>7, <3>1 DEF Leaves
  <2> QED BY <1>0, <1>2, <1>7, <2>1, <2>2, ConsentsKept
<1>9. ReadBefore'
  BY <1>0, <1>2, ReadKept
<1>10. cnOp[w].kind = "disconnect" => Wired(c)' = {}
  <2>1. ASSUME cnOp[w].kind = "disconnect" PROVE Wired(c)' = {}
    <3>1. cnOp[w].add = {} /\ cnOp[w].remove = Subs
      BY <1>0, <2>1 DEF Shaped
    <3>2. Wired(c) \subseteq Subs
      BY DEF Wired, Titles
    <3> QED BY <1>1, <3>1, <3>2
  <2> QED BY <2>1
<1>11. ASSUME ~mishap'.stalled PROVE Exclusive'
  <2>1. Exclusive
    BY <1>11 DEF CnInv, MishapGrows
  <2>2. Alone(w, c) /\ lock[c] = w
    BY <1>7, <2>1, BodyAlone DEF Exclusive, OwnBody
  <2>3. cnOp[w].kind # "disconnect" => cnRec[c] # None
    BY <1>0, <1>7, <2>1 DEF Exclusive, OwnBody, Applies
  <2>4. (Wired(c)' # {} => cnRec'[c] # None) /\ (p.pc = "delete" => Wired(c)' = {})
    BY <1>10, <2>3
  <2>5. p.pc \in BodyPcs => lock'[c] = w /\ p.conn = c
    BY <2>2
  <2> QED BY <1>0, <1>2, <2>1, <2>2, <2>4, <2>5, ExclusiveKept
<1>12. ASSUME ~mishap'.stalled, ~mishap'.cut PROVE InStep'
  <2>1. InStep /\ Exclusive
    BY <1>12 DEF CnInv, MishapGrows
  <2>2. Alone(w, c)
    BY <1>7, <2>1, BodyAlone
  <2>3. p.pc \in HandPcs => p.pc = "delete" /\ p.conn = c
    BY DEF HandPcs, BodyPcs
  <2>4. p.pc \notin HandPcs => Wired(c)' = EnabledOf(c)'
    <3>1. ASSUME p.pc \notin HandPcs PROVE Wired(c)' = EnabledOf(c)'
      <4>1. Applies(cnOp[w])
        BY <1>0, <1>12, <3>1 DEF Applies, HandPcs
      <4>2. EnabledOf(c) = (Wired(c) \ cnOp[w].remove) \cup cnOp[w].add
        BY <2>1, <4>1 DEF InStep, OnCourse
      <4>3. EnabledOf(c)' = EnabledOf(c)
        BY DEF EnabledOf
      <4> QED BY <1>1, <4>2, <4>3
    <3> QED BY <3>1
  <2> QED BY <1>0, <1>2, <1>7, <2>1, <2>2, <2>3, <2>4, InStepKept
<1> QED BY <1>3, <1>4, <1>6, <1>8, <1>9, <1>11, <1>12, CnInvIs

LEMMA ApplyDoes == ASSUME CnInv, NEW w \in CnWorkers, Apply(w) PROVE CnInv'
<1>0. /\ CnTypes /\ Shaped(cnOp[w]) /\ cnOp[w].pc = "apply" /\ CnAt(w, "apply") /\ UNCHANGED <<cnRec, grant, flows, cnWrites>> /\ cnOp[w].conn \in CnIds
  BY DEF CnInv, CnTypes, CnAt, Apply, Shaped
<1>1. ~Creates(cnOp[w]) /\ cnOp[w].pc \in HandPcs
  BY <1>0 DEF Creates, HandPcs
<1>2. PICK c \in CnIds : c = cnOp[w].conn
  BY <1>0
<1>3. ASSUME CnEnd(w)
      PROVE  cnOp' = [cnOp EXCEPT ![w] = CnIdle] /\ LockMoves(w, CnIdle) /\ LockElse(w, c) /\ CnIdle.pc \notin BodyPcs /\ CnIdle.pc \notin Early /\ CnIdle.pc # "delete"
  <2>1. cnOp' = [cnOp EXCEPT ![w] = CnIdle] /\ LockMoves(w, CnIdle) /\ LockElse(w, c)
    BY <1>0, <1>3, LockLeft DEF CnEnd
  <2> QED BY <2>1, CnIdleIs DEF BodyPcs, Early
<1>4. CASE Cut(w) /\ CnEnd(w) /\ UNCHANGED manifest
  <2>1. mishap' \in [stalled : BOOLEAN, cut : BOOLEAN] /\ MishapGrows /\ mishap'.cut
    <3>1. ~CnAt(w, "load")
      BY <1>0 DEF CnAt
    <3> QED BY <1>0, <1>4, <3>1, CutDoes DEF CnTypes
  <2>2. CnData'
    BY <1>0, <1>4, <2>1 DEF CnTypes, CnData
  <2> QED BY <1>0, <1>1, <1>4, <2>1, <2>2, SameFlows, EndKeeps
<1>5. CASE Cut(w) /\ CnEnd(w) /\ ~Collides(cnOp[w]) /\ manifest' = Reconciled(cnOp[w])
  <2>1. mishap' \in [stalled : BOOLEAN, cut : BOOLEAN] /\ MishapGrows /\ mishap'.cut
    <3>1. ~CnAt(w, "load")
      BY <1>0 DEF CnAt
    <3> QED BY <1>0, <1>5, <3>1, CutDoes DEF CnTypes
  <2>2. cnOp' = [cnOp EXCEPT ![w] = CnIdle] /\ LockMoves(w, CnIdle) /\ LockElse(w, c) /\ CnIdle.pc \notin BodyPcs /\ CnIdle.pc \notin Early /\ CnIdle.pc # "delete"
    BY <1>3, <1>5
  <2> QED BY <1>0, <1>2, <1>5, <2>1, <2>2, CnIdleIs, ApplyLands
<1>6. CASE /\ ~Collides(cnOp[w]) /\ manifest' = Reconciled(cnOp[w]) /\ UNCHANGED mishap
           /\ IF AfterApply(cnOp[w]) = "idle" THEN CnEnd(w)
              ELSE CnGo(w, AfterApply(cnOp[w])) /\ (IF AfterApply(cnOp[w]) = "fork" THEN CnRelease(w) ELSE UNCHANGED lock)
  <2>0. mishap' \in [stalled : BOOLEAN, cut : BOOLEAN] /\ MishapGrows
    BY <1>0, <1>6, StillGrows DEF CnTypes, CnData
  <2>1. CASE AfterApply(cnOp[w]) = "idle"
    <3>1. CnEnd(w) /\ cnOp[w].kind # "disconnect"
      BY <1>6, <2>1 DEF AfterApply
    <3>2. cnOp' = [cnOp EXCEPT ![w] = CnIdle] /\ LockMoves(w, CnIdle) /\ LockElse(w, c) /\ CnIdle.pc \notin BodyPcs /\ CnIdle.pc \notin Early /\ CnIdle.pc # "delete"
      BY <1>3, <3>1
    <3> QED BY <1>0, <1>2, <1>6, <2>0, <3>1, <3>2, CnIdleIs, ApplyLands
  <2>2. CASE AfterApply(cnOp[w]) = "fork"
    <3>1. CnGo(w, "fork") /\ CnRelease(w) /\ cnOp[w].kind # "disconnect" /\ cnOp[w].consent # {}
      BY <1>6, <2>2 DEF AfterApply
    <3>2. PICK p : p = [cnOp[w] EXCEPT !.pc = "fork"]
      OBVIOUS
    <3>3. cnOp' = [cnOp EXCEPT ![w] = p] /\ LockMoves(w, p) /\ LockElse(w, c)
      BY <1>0, <3>1, <3>2, LockLeft DEF CnGo
    <3>4. /\ p \in CnOps /\ p.pc = "fork" /\ p.kind = cnOp[w].kind /\ p.conn = c /\ p.alias = cnOp[w].alias /\ p.flow = cnOp[w].flow
          /\ p.add = cnOp[w].add /\ p.remove = cnOp[w].remove /\ p.consent = cnOp[w].consent
      BY <1>0, <1>2, <3>2 DEF Shaped, CnOps, CnPcs
    <3>5. cnOp[w].kind = "patch" /\ cnOp[w].alias \in Aliases
      BY <1>0, <3>1 DEF Shaped
    <3>6. Shaped(p) /\ ~Creates(p) /\ ~Changes(p) /\ ~Applies(p) /\ p.pc # "delete" /\ p.pc \notin Early /\ p.pc \notin BodyPcs
      BY <1>0, <3>1, <3>4, <3>5 DEF Shaped, Creates, Changes, Applies, Early, BodyPcs
    <3> QED BY <1>0, <1>2, <1>6, <2>0, <3>1, <3>3, <3>4, <3>6, ApplyLands
  <2>3. CASE AfterApply(cnOp[w]) = "delete"
    <3>1. CnGo(w, "delete") /\ UNCHANGED lock /\ cnOp[w].kind = "disconnect"
      BY <1>6, <2>3 DEF AfterApply
    <3>2. PICK p : p = [cnOp[w] EXCEPT !.pc = "delete"]
      OBVIOUS
    <3>3. cnOp' = [cnOp EXCEPT ![w] = p]
      BY <3>1, <3>2 DEF CnGo
    <3>4. /\ p \in CnOps /\ p.pc = "delete" /\ p.kind = "disconnect" /\ p.conn = c /\ p.flow = cnOp[w].flow
          /\ p.add = cnOp[w].add /\ p.remove = cnOp[w].remove /\ p.consent = cnOp[w].consent
      BY <1>0, <1>2, <3>1, <3>2 DEF Shaped, CnOps, CnPcs
    <3>5. Shaped(p) /\ ~Creates(p) /\ ~Changes(p) /\ ~Applies(p) /\ p.pc \notin Early /\ p.pc \in BodyPcs
      BY <1>0, <3>1, <3>4 DEF Shaped, Creates, Changes, Applies, Early, BodyPcs
    <3>6. LockMoves(w, p) /\ LockElse(w, c)
      BY <1>0, <1>2, <3>1, <3>4, <3>5, LockStays
    <3> QED BY <1>0, <1>2, <1>6, <2>0, <3>1, <3>3, <3>4, <3>5, <3>6, ApplyLands
  <2> QED BY <2>1, <2>2, <2>3 DEF AfterApply
<1> QED BY <1>4, <1>5, <1>6 DEF Apply, CnFailed

\* The record of a disconnected connection goes, whether or not its worker hears of it.
LEMMA DeleteLands ==
  ASSUME CnInv, NEW w \in CnWorkers, CnAt(w, "delete"), cnRec' = [cnRec EXCEPT ![cnOp[w].conn] = None], CnEnd(w),
         UNCHANGED <<grant, manifest, flows, cnWrites>>, mishap' \in [stalled : BOOLEAN, cut : BOOLEAN], MishapGrows
  PROVE  CnInv'
<1>0. /\ CnTypes /\ OneUse /\ Unknown /\ Consents /\ ReadBefore /\ None \notin CnIds /\ cnOp[w].pc = "delete" /\ Shaped(cnOp[w])
  BY ConnectionConstants DEF CnInv, CnTypes, CnAt
<1>1. PICK c \in CnIds : c = cnOp[w].conn
  BY <1>0 DEF Shaped
<1>2. cnRec'[c] = None /\ (\A d \in CnIds \ {c} : cnRec'[d] = cnRec[d]) /\ cnRec' \in [CnIds -> CnRecord \cup {None}]
  BY <1>0, <1>1 DEF CnTypes, CnData
<1>3. CnElse(c) /\ GrantElse(c) /\ CnData' /\ Becomes(w, CnIdle) /\ LockMoves(w, CnIdle) /\ LockElse(w, c)
  <2>1. Becomes(w, CnIdle) /\ LockMoves(w, CnIdle) /\ LockElse(w, c)
    BY <1>0, BecomesOp, LockLeft DEF CnEnd
  <2> QED BY <1>0, <1>2, <2>1 DEF CnElse, GrantElse, CnTypes, CnData
<1>4. /\ cnOp[w].kind = "disconnect" /\ Leaves(cnOp[w]) /\ ~Creates(cnOp[w]) /\ cnOp[w].pc \in BodyPcs /\ cnOp[w].pc \in HandPcs
      /\ CnIdle.pc \notin BodyPcs /\ CnIdle.pc \notin HandPcs /\ CnIdle.pc # "delete"
  BY <1>0, CnIdleIs DEF Shaped, Leaves, Creates, BodyPcs, HandPcs
<1>5. CnTypes'
  BY <1>0, <1>3, CnIdleIs, CnTypesKept
<1>6. OneUse'
  BY <1>0, <1>3, CnIdleIs, SameFlows, OneUseKept
<1>7. \A v \in CnWorkers \ {w} : Creates(cnOp[v]) => cnOp[v].conn # c
  BY <1>0, <1>1, NotCreated
<1>8. Unknown'
  BY <1>0, <1>3, <1>7, CnIdleIs, SameFlows, UnknownKept
<1>9. Consents'
  <2>1. grant[c] # "live"
    BY <1>0, <1>1, <1>4 DEF Consents, ConsentOf
  <2>2. ConsentOf(c)'
    BY <1>0, <1>2, <2>1 DEF ConsentOf
  <2> QED BY <1>0, <1>1, <1>3, <2>2, CnIdleIs, ConsentsMoved
<1>10. ReadBefore'
  <2>1. \A d \in CnIds : cnRec'[d] # None => cnRec'[d] = cnRec[d]
    BY <1>2
  <2> QED BY <1>0, <1>3, <2>1, CnIdleIs, ReadKept
<1>11. ASSUME ~mishap'.stalled PROVE Exclusive' /\ Wired(c)' = {} /\ Alone(w, c)
  <2>1. Exclusive
    BY <1>3, <1>11 DEF CnInv, MishapGrows
  <2>2. Alone(w, c) /\ Wired(c) = {}
    BY <1>0, <1>1, <1>4, <2>1, BodyAlone DEF Exclusive, OwnBody
  <2>3. Wired(c)' = {}
    BY <1>0, <2>2, WiredSame
  <2>4. Exclusive'
    BY <1>0, <1>3, <1>4, <2>1, <2>2, <2>3, CnIdleIs, ExclusiveKept
  <2> QED BY <2>2, <2>3, <2>4
<1>12. ASSUME ~mishap'.stalled, ~mishap'.cut PROVE InStep'
  <2>1. InStep
    BY <1>3, <1>12 DEF CnInv, MishapGrows
  <2>2. EnabledOf(c)' = {}
    BY <1>2 DEF EnabledOf
  <2>3. Wired(c)' = EnabledOf(c)' /\ Alone(w, c)
    BY <1>11, <1>12, <2>2
  <2> QED BY <1>0, <1>1, <1>3, <1>4, <2>1, <2>3, CnIdleIs, InStepKept
<1> QED BY <1>5, <1>6, <1>8, <1>9, <1>10, <1>11, <1>12, CnInvIs

LEMMA DeleteDoes == ASSUME CnInv, NEW w \in CnWorkers, Delete(w) PROVE CnInv'
<1>1. mishap' \in [stalled : BOOLEAN, cut : BOOLEAN] /\ MishapGrows
  BY StillGrows DEF Delete, CnInv, CnTypes, CnData
<1> QED BY <1>1, DeleteLands DEF Delete

LEMMA RefreshDoes == ASSUME CnInv, NEW c \in CnIds, Refresh(c) PROVE CnInv'
<1>0. /\ CnTypes /\ OneUse /\ Unknown /\ Consents /\ ReadBefore /\ None \notin CnIds /\ None \notin CnWorkers /\ None \notin CnRecord
      /\ UNCHANGED <<grant, manifest, flows, lock, cnOp, cnWrites>>
  BY ConnectionConstants DEF CnInv, Refresh
<1>1. PICK r \in CnRecord : r = cnRec[c] /\ r # None
  BY <1>0 DEF Refresh, CnTypes, CnData
<1>a. PICK tok \in Nat, blob \in Nat : tok = r.tok + 1 /\ blob = r.blob + 1
  BY DEF CnRecord
<1>2. PICK n : n = [r EXCEPT !.tok = tok, !.blob = blob]
  OBVIOUS
<1>3. n \in CnRecord /\ n # None /\ n.enabled = r.enabled /\ n.oauth = r.oauth /\ n.blob = r.blob + 1 /\ r.blob \in Nat
  <2>1. n \in CnRecord /\ n.enabled = r.enabled /\ n.oauth = r.oauth /\ n.blob = blob
    BY <1>2 DEF CnRecord
  <2>2. r.blob \in Nat
    BY DEF CnRecord
  <2> QED BY <1>0, <1>a, <2>1, <2>2
<1>4. cnRec' = [cnRec EXCEPT ![c] = n]
  BY <1>1, <1>a, <1>2 DEF Refresh
<1>5. cnRec'[c] = n /\ (\A d \in CnIds \ {c} : cnRec'[d] = cnRec[d]) /\ cnRec' \in [CnIds -> CnRecord \cup {None}]
  BY <1>0, <1>3, <1>4 DEF CnTypes, CnData
<1>6. mishap' \in [stalled : BOOLEAN, cut : BOOLEAN] /\ MishapGrows /\ (lock[c] # None => mishap'.stalled)
  <2>1. PICK b \in BOOLEAN : b = (mishap.stalled \/ lock[c] # None)
    OBVIOUS
  <2>2. mishap' = [mishap EXCEPT !.stalled = b]
    BY <2>1 DEF Refresh
  <2>3. mishap' \in [stalled : BOOLEAN, cut : BOOLEAN] /\ mishap'.stalled = b /\ mishap'.cut = mishap.cut
    BY <1>0, <2>2 DEF CnTypes, CnData
  <2> QED BY <2>1, <2>3 DEF MishapGrows
<1>7. CnElse(c) /\ GrantElse(c) /\ CnData' /\ Becomes(None, CnIdle)
  BY <1>0, <1>5, <1>6 DEF CnElse, GrantElse, CnTypes, CnData, Becomes
<1>8. LockMoves(None, CnIdle) /\ \A d : LockElse(None, d)
  BY <1>0, LockStays
<1>9. CnTypes'
  BY <1>0, <1>7, <1>8, CnTypesKept
<1>10. OneUse'
  BY <1>0, <1>7, SameFlows, OneUseKept
<1>11. \A v \in CnWorkers : Creates(cnOp[v]) => cnOp[v].conn # c
  BY <1>0, <1>1, NotCreated
<1>12. Unknown'
  BY <1>0, <1>7, <1>11, SameFlows, UnknownKept
<1>13. Consents'
  <2>1. ConsentOf(c)
    BY <1>0 DEF Consents
  <2>2. (~n.oauth => grant[c] # "live") /\ \A v \in CnWorkers : cnOp'[v].conn = c /\ Leaves(cnOp'[v]) => grant[c] # "live"
    BY <1>0, <1>1, <1>3, <2>1 DEF ConsentOf
  <2>3. ASSUME grant[c] = "dead", ~mishap'.cut, ~mishap'.stalled PROVE \E v \in CnWorkers : cnOp'[v].conn = c /\ Leaves(cnOp'[v])
    BY <1>0, <1>1, <1>6, <2>1, <2>3 DEF ConsentOf, MishapGrows
  <2>4. ConsentOf(c)'
    BY <1>0, <1>3, <1>5, <2>2, <2>3 DEF ConsentOf, Leaves
  <2> QED BY <1>0, <1>6, <1>7, <2>4, ConsentsMoved
<1>14. ReadBefore'
  <2>1. \A d \in CnIds : cnRec'[d] # None /\ cnRec'[d] # cnRec[d] => cnRec[d] # None /\ cnRec'[d].blob > cnRec[d].blob
    BY <1>1, <1>3, <1>5
  <2> QED BY <1>0, <1>7, <2>1, ReadKept
<1>15. Wired(c)' = Wired(c) /\ EnabledOf(c)' = EnabledOf(c)
  BY <1>0, <1>1, <1>3, <1>5 DEF Wired, EnabledOf
<1>16. ASSUME ~mishap'.stalled PROVE Exclusive' /\ Alone(None, c)
  <2>1. Exclusive /\ lock[c] = None
    BY <1>6, <1>16 DEF CnInv, MishapGrows
  <2>2. Alone(None, c)
    BY <2>1, BodyAlone
  <2>3. Exclusive'
    BY <1>0, <1>3, <1>5, <1>7, <1>8, <2>1, <2>2, ExclusiveKept
  <2> QED BY <2>2, <2>3
<1>17. ASSUME ~mishap'.stalled, ~mishap'.cut PROVE InStep'
  <2>1. InStep /\ Alone(None, c)
    BY <1>6, <1>16, <1>17 DEF CnInv, MishapGrows
  <2>2. ~InHand(c)
    BY <1>0, <2>1 DEF InHand, Alone, BodyPcs
  <2>3. Wired(c)' = EnabledOf(c)'
    BY <1>15, <2>1, <2>2 DEF InStep
  <2> QED BY <1>0, <1>7, <2>1, <2>3, InStepKept
<1> QED BY <1>9, <1>10, <1>12, <1>13, <1>14, <1>16, <1>17, CnInvIs

LEMMA StoreFailsDoes == ASSUME CnInv, NEW w \in CnWorkers, StoreFails(w) PROVE CnInv'
<1>0. /\ CnTypes /\ Shaped(cnOp[w]) /\ cnOp[w].pc \in {"load", "persist", "delete"} /\ Cut(w) /\ CnEnd(w) /\ UNCHANGED <<cnRec, manifest, flows, cnWrites>>
  BY DEF CnInv, CnTypes, StoreFails
<1>1. mishap' \in [stalled : BOOLEAN, cut : BOOLEAN] /\ MishapGrows /\ (cnOp[w].pc # "load" => mishap'.cut)
  BY <1>0, CutDoes DEF CnTypes, CnAt
<1>2. CASE Creates(cnOp[w])
  <2>1. RevokeFresh(cnOp[w])
    BY <1>2 DEF StoreFails, CnAt, Creates
  <2> QED BY <1>0, <1>1, <1>2, <2>1, CreationFails
<1>3. CASE ~Creates(cnOp[w])
  <2>1. UNCHANGED grant
    <3>1. CASE cnOp[w].pc = "persist"
      <4>1. cnOp[w].kind # "connect" /\ RevokeFresh(cnOp[w])
        BY <1>3, <3>1 DEF StoreFails, CnAt, Creates
      <4> QED BY <4>1 DEF RevokeFresh
    <3>2. CASE cnOp[w].pc # "persist"
      BY <3>2 DEF StoreFails, CnAt
    <3> QED BY <3>1, <3>2
  <2>2. CnData'
    BY <1>0, <1>1, <2>1 DEF CnTypes, CnData
  <2>3. (Leaves(cnOp[w]) => mishap'.cut) /\ (cnOp[w].pc \in HandPcs => mishap'.cut)
    BY <1>0, <1>1 DEF Leaves, HandPcs
  <2> QED BY <1>0, <1>1, <1>3, <2>1, <2>2, <2>3, SameFlows, EndKeeps
<1> QED BY <1>2, <1>3

\* A creation that was committed and not heard of: its consent is taken back, and its record stays.
LEMMA CreationUnheard ==
  ASSUME CnInv, NEW w \in CnWorkers, Creates(cnOp[w]), CnEnd(w), RevokeFresh(cnOp[w]), UNCHANGED <<manifest, flows>>,
         cnRec' = [cnRec EXCEPT ![cnOp[w].conn] = Created(cnOp[w])], Wrote(cnOp[w].flow),
         mishap' \in [stalled : BOOLEAN, cut : BOOLEAN], MishapGrows, mishap'.cut
  PROVE  CnInv'
<1>0. /\ CnTypes /\ OneUse /\ Unknown /\ Consents /\ ReadBefore /\ Apart(w) /\ None \notin CnIds /\ None \notin CnRecord
      /\ Shaped(cnOp[w]) /\ cnOp[w].pc = "persist" /\ CnAt(w, "persist")
  BY ConnectionConstants DEF CnInv, Unknown, Creates, CnTypes, CnAt
<1>1. PICK c \in CnIds : c = cnOp[w].conn
  BY <1>0, CreatesConn
<1>2. /\ cnRec[c] = None /\ (\A v \in CnWorkers \ {w} : cnOp[v].conn # c) /\ (\A t \in Titles : manifest[t] # c)
  BY <1>0, <1>1 DEF Apart
<1>3. PICK b \in BOOLEAN : b = (cnOp[w].kind = "connect")
  OBVIOUS
<1>4. PICK r : r = [alias |-> cnOp[w].alias, enabled |-> cnOp[w].subs, granted |-> cnOp[w].granted, oauth |-> b, tok |-> 1, blob |-> 0]
  OBVIOUS
<1>5. r \in CnRecord /\ r # None /\ cnRec' = [cnRec EXCEPT ![c] = r]
  <2>1. cnOp[w] \in CnOps /\ cnOp[w].alias \in Aliases
    BY <1>0 DEF Shaped, Creates
  <2>2. r \in CnRecord
    BY <1>4, <2>1 DEF CnRecord, CnOps
  <2> QED BY <1>0, <1>1, <1>3, <1>4, <2>2 DEF Created
<1>6. cnRec'[c] = r /\ (\A d \in CnIds \ {c} : cnRec'[d] = cnRec[d]) /\ cnRec' \in [CnIds -> CnRecord \cup {None}]
  <2>1. cnRec \in [CnIds -> CnRecord \cup {None}]
    BY <1>0 DEF CnTypes, CnData
  <2>2. cnRec'[c] = r
    BY <1>5, <2>1
  <2>3. \A d \in CnIds \ {c} : cnRec'[d] = cnRec[d]
    BY <1>5, <2>1
  <2>4. cnRec' \in [CnIds -> CnRecord \cup {None}]
    BY <1>5, <2>1
  <2> QED BY <2>2, <2>3, <2>4
<1>7. GrantElse(c) /\ grant'[c] # "live" /\ grant' \in [CnIds -> {"none", "live", "again", "dead", "left"}]
  <2>1. CASE cnOp[w].kind = "connect"
    <3>1. PICK outcome \in {"dead", "left"} : grant' = [grant EXCEPT ![c] = outcome]
      BY <1>1, <2>1 DEF RevokeFresh, Revoke
    <3> QED BY <1>0, <3>1 DEF CnTypes, CnData, GrantElse
  <2>2. CASE cnOp[w].kind = "none"
    <3>1. UNCHANGED grant /\ grant[c] = "none"
      BY <1>0, <1>1, <2>2 DEF RevokeFresh, Apart
    <3> QED BY <1>0, <3>1 DEF CnTypes, CnData, GrantElse
  <2> QED BY <2>1, <2>2 DEF Creates
<1>8. CnElse(c) /\ CnData'
  BY <1>0, <1>6, <1>7, WroteIs DEF CnElse, CnTypes, CnData
<1>9. Becomes(w, CnIdle) /\ LockMoves(w, CnIdle) /\ \A d : LockElse(w, d)
  BY <1>0, BecomesOp, LockLeft DEF CnEnd
<1>10. /\ CnIdle.pc \notin BodyPcs /\ CnIdle.pc \notin HandPcs /\ CnIdle.pc # "delete" /\ CnIdle.pc \notin Early
       /\ ~Leaves(cnOp[w]) /\ cnOp[w].pc \in BodyPcs
  BY <1>0, CnIdleIs DEF BodyPcs, HandPcs, Early, Leaves
<1>11. CnTypes'
  BY <1>0, <1>8, <1>9, CnIdleIs, CnTypesKept
<1>12. OneUse'
  BY <1>0, <1>9, <1>10, CnIdleIs, OneUseWrote
<1>13. Unknown'
  BY <1>0, <1>2, <1>7, <1>8, <1>9, CnIdleIs, SameFlows, UnknownKept
<1>14. Consents'
  <2>1. cnOp'[w] = CnIdle /\ \A v \in CnWorkers \ {w} : cnOp'[v] = cnOp[v]
    BY <1>9 DEF Becomes
  <2>2. \A v \in CnWorkers : ~(cnOp'[v].conn = c /\ Leaves(cnOp'[v]))
    BY <1>2, <2>1, CnIdleIs
  <2>3. ConsentOf(c)'
    BY <1>5, <1>6, <1>7, <2>2 DEF ConsentOf, Leaves
  <2> QED BY <1>0, <1>1, <1>7, <1>8, <1>9, <2>3, CnIdleIs, ConsentsMoved
<1>15. ReadBefore'
  <2>1. \A d \in CnIds : cnRec'[d] # None /\ cnRec'[d] # cnRec[d] =>
            /\ cnRec[d] # None => cnRec'[d].blob > cnRec[d].blob
            /\ cnRec[d] = None => \A v \in CnWorkers \ {w} : Changes(cnOp[v]) => cnOp[v].conn # d
    BY <1>2, <1>6
  <2> QED BY <1>0, <1>8, <1>9, <2>1, CnIdleIs, ReadKept
<1>16. Alone(w, c) /\ Wired(c)' = {}
  BY <1>2 DEF Alone, Wired
<1>17. ASSUME ~mishap'.stalled PROVE Exclusive'
  <2>1. Exclusive
    BY <1>17 DEF CnInv, MishapGrows
  <2> QED BY <1>0, <1>5, <1>6, <1>8, <1>9, <1>10, <1>16, <2>1, CnIdleIs, ExclusiveKept
<1> QED BY <1>11, <1>12, <1>13, <1>14, <1>15, <1>17, CnInvIs

LEMMA AnswerLostDoes == ASSUME CnInv, NEW w \in CnWorkers, AnswerLost(w) PROVE CnInv'
<1>0. CnTypes /\ Shaped(cnOp[w]) /\ Cut(w) /\ CnEnd(w) /\ UNCHANGED <<manifest, flows>> /\ cnOp[w].pc \in {"persist", "delete"}
  BY DEF CnInv, CnTypes, AnswerLost, CnAt
<1>1. mishap' \in [stalled : BOOLEAN, cut : BOOLEAN] /\ MishapGrows /\ mishap'.cut
  BY <1>0, CutDoes DEF CnTypes, CnAt
<1>2. CASE /\ CnAt(w, "persist") /\ cnOp[w].kind \in {"none", "connect"}
           /\ cnRec' = [cnRec EXCEPT ![cnOp[w].conn] = Created(cnOp[w])] /\ Wrote(cnOp[w].flow) /\ RevokeFresh(cnOp[w])
  <2>1. Creates(cnOp[w])
    BY <1>2 DEF CnAt, Creates
  <2> QED BY <1>0, <1>1, <1>2, <2>1, CreationUnheard
<1>3. CASE /\ CnAt(w, "persist") /\ cnOp[w].kind \in {"reconnect", "toggle", "patch"} /\ CasHits(cnOp[w])
           /\ cnRec' = [cnRec EXCEPT ![cnOp[w].conn] = Changed(cnOp[w])] /\ Wrote(cnOp[w].flow) /\ UNCHANGED grant
  <2>1. Changes(cnOp[w]) /\ cnOp[w].conn \in CnIds
    BY <1>0, <1>3 DEF CnAt, Changes, Shaped
  <2>2. PICK c \in CnIds : c = cnOp[w].conn
    BY <2>1
  <2>3. PICK r \in CnRecord : r = cnRec[c] /\ r # None
    BY <1>0, <1>3, <2>2 DEF CasHits, CnTypes, CnData
  <2>4. cnRec' = [cnRec EXCEPT ![c] = [r EXCEPT !.enabled = cnOp[w].subs, !.granted = cnOp[w].granted, !.tok = cnOp[w].tok, !.blob = r.blob + 1]]
    BY <1>3, <2>2, <2>3 DEF Changed
  <2>5. cnOp' = [cnOp EXCEPT ![w] = CnIdle] /\ LockMoves(w, CnIdle) /\ LockElse(w, c)
    BY <1>0, LockLeft DEF CnEnd
  <2>6. CnIdle.pc \notin BodyPcs /\ CnIdle.pc \notin Early /\ CnIdle.pc # "delete"
    BY CnIdleIs DEF BodyPcs, Early
  <2> QED BY <1>0, <1>1, <1>3, <2>1, <2>2, <2>3, <2>4, <2>5, <2>6, CnIdleIs, ChangeLands
<1>4. CASE CnAt(w, "delete") /\ cnRec' = [cnRec EXCEPT ![cnOp[w].conn] = None] /\ UNCHANGED <<cnWrites, grant>>
  BY <1>0, <1>1, <1>4, DeleteLands
<1> QED BY <1>2, <1>3, <1>4 DEF AnswerLost

----------------------------------------------------------------------------
(* What the connection service promises holds. *)

LEMMA CnStart == CnInit => CnInv
<1> SUFFICES ASSUME CnInit PROVE CnInv
  OBVIOUS
<1>0. None \notin CnIds /\ None \notin CnWorkers /\ None \notin Flows
  BY ConnectionConstants
<1>1. /\ cnRec = [c \in CnIds |-> None] /\ manifest = [t \in Titles |-> None] /\ flows = [f \in Flows |-> None] /\ lock = [c \in CnIds |-> None]
      /\ grant = [c \in CnIds |-> "none"] /\ cnOp = [w \in CnWorkers |-> CnIdle] /\ cnWrites = [f \in Flows |-> 0]
  BY DEF CnInit
<1>2. mishap \in [stalled : BOOLEAN, cut : BOOLEAN]
  BY DEF CnInit
<1>3. \A w \in CnWorkers : cnOp[w] = CnIdle
  BY <1>1
<1>4. CnTypes
  <2>1. CnData
    BY <1>1, <1>2 DEF CnData
  <2>2. CnLocks
    BY <1>1 DEF CnLocks
  <2>3. DOMAIN cnOp = CnWorkers /\ \A w \in CnWorkers : Shaped(cnOp[w])
    BY <1>1, <1>3, CnIdleIs
  <2> QED BY <2>1, <2>2, <2>3 DEF CnTypes
<1>5. OneUse
  <2>1. \A f \in Flows : cnWrites[f] = 0 /\ flows[f] = None
    BY <1>1
  <2>2. \A w \in CnWorkers : cnOp[w].flow = None
    BY <1>3, CnIdleIs
  <2> QED BY <2>1, <2>2 DEF OneUse
<1>6. Unknown
  BY <1>3, CnIdleIs DEF Unknown
<1>7. Consents
  <2>1. \A c \in CnIds : cnRec[c] = None /\ grant[c] = "none"
    BY <1>1
  <2> QED BY <2>1 DEF Consents, ConsentOf
<1>8. ReadBefore
  BY <1>3, CnIdleIs DEF ReadBefore
<1>9. \A c \in CnIds : Wired(c) = {} /\ EnabledOf(c) = {}
  <2>1. \A c \in CnIds : cnRec[c] = None /\ \A t \in Titles : manifest[t] # c
    BY <1>0, <1>1
  <2> QED BY <2>1 DEF Wired, EnabledOf
<1>10. Exclusive
  <2>1. \A w \in CnWorkers : cnOp[w].pc \notin BodyPcs
    BY <1>3, CnIdleIs DEF BodyPcs
  <2> QED BY <1>9, <2>1 DEF Exclusive, OwnBody
<1>11. InStep
  <2>1. \A w \in CnWorkers : ~Changes(cnOp[w]) /\ ~Applies(cnOp[w])
    BY <1>3, CnIdleIs
  <2> QED BY <1>9, <2>1 DEF InStep, OnCourse
<1> QED BY <1>4, <1>5, <1>6, <1>7, <1>8, <1>10, <1>11 DEF CnInv

LEMMA CnStep == CnInv /\ [CnNext]_cnVars => CnInv'
<1> SUFFICES ASSUME CnInv, [CnNext]_cnVars PROVE CnInv'
  OBVIOUS
<1>1. ASSUME NEW w \in CnWorkers, Starts(w) PROVE CnInv'
  BY <1>1, StartDisconnectDoes, StartPatchDoes, ConnectNoAuthDoes, StartConnectDoes, StartReconnectDoes DEF Starts
<1>2. ASSUME NEW w \in CnWorkers, NEW f \in Flows, Complete(w, f) PROVE CnInv'
  BY <1>2, CompleteDoes
<1>3. ASSUME NEW w \in CnWorkers, Steps(w) PROVE CnInv'
  <2>1. CASE Exchange(w) \/ CnAcquire(w) \/ CnGiveUpLock(w) \/ Load(w) \/ PersistNew(w) \/ PersistChange(w)
    BY <2>1, ExchangeDoes, CnAcquireDoes, CnGiveUpLockDoes, LoadDoes, PersistNewDoes, PersistChangeDoes
  <2>2. CASE DisconnectRevokes(w) \/ Apply(w) \/ Delete(w) \/ StoreFails(w) \/ AnswerLost(w) \/ ForkFails(w)
    BY <2>2, DisconnectRevokesDoes, ApplyDoes, DeleteDoes, StoreFailsDoes, AnswerLostDoes, ForkFailsDoes
  <2>3. CASE \E f \in Flows : Fork(w, f)
    BY <2>3, ForkDoes
  <2> QED BY <1>3, <2>1, <2>2, <2>3 DEF Steps
<1>4. ASSUME NEW c \in CnIds, Refresh(c) \/ CnLockExpires(c) PROVE CnInv'
  BY <1>4, RefreshDoes, CnLockExpiresDoes
<1>5. ASSUME NEW f \in Flows, FlowExpires(f) PROVE CnInv'
  BY <1>5, FlowExpiresDoes
<1>6. CASE UNCHANGED cnVars
  <2>1. UNCHANGED <<cnRec, grant, manifest, flows, lock, cnOp, cnWrites, mishap>>
    BY <1>6 DEF cnVars
  <2>2. CnTypes'
    BY <2>1 DEF CnInv, CnTypes, CnData, CnLocks
  <2>3. OneUse'
    BY <2>1 DEF CnInv, OneUse
  <2>4. Unknown'
    BY <2>1 DEF CnInv, Unknown, Apart
  <2>5. Consents'
    BY <2>1 DEF CnInv, Consents, ConsentOf
  <2>6. ReadBefore'
    BY <2>1 DEF CnInv, ReadBefore
  <2>7. \A c : Wired(c)' = Wired(c) /\ EnabledOf(c)' = EnabledOf(c) /\ (InHand(c)' <=> InHand(c))
    BY <2>1 DEF Wired, EnabledOf, InHand
  <2>8. ~mishap'.stalled => Exclusive'
    BY <2>1, <2>7 DEF CnInv, Exclusive, OwnBody
  <2>9. ~mishap'.stalled /\ ~mishap'.cut => InStep'
    BY <2>1, <2>7 DEF CnInv, InStep, OnCourse
  <2> QED BY <2>2, <2>3, <2>4, <2>5, <2>6, <2>8, <2>9, CnInvIs
<1> QED BY <1>1, <1>2, <1>3, <1>4, <1>5, <1>6 DEF CnNext

\* What the service promises of its state.
LEMMA CnPromise == CnInv => ConnectionsConsistent /\ Lockstep
<1> SUFFICES ASSUME CnInv PROVE ConnectionsConsistent /\ Lockstep
  OBVIOUS
<1>1. CnTypeOK
  <2>1. ASSUME NEW w \in CnWorkers
        PROVE /\ cnOp[w].pc \in {"idle", "exchange", "lock", "load", "persist", "revoke", "apply", "delete", "fork"}
              /\ cnOp[w].pc \notin {"idle", "exchange"} => cnOp[w].conn \in CnIds
              /\ cnOp[w].pc = "apply" /\ cnOp[w].add # {} => cnOp[w].alias \in Aliases
              /\ cnOp[w].add \cap cnOp[w].remove = {}
    BY DEF CnInv, CnTypes, Shaped, CnOps, CnPcs
  <2>2. \A c \in CnIds : lock[c] # None => cnOp[lock[c]].conn = c /\ cnOp[lock[c]].pc \in {"load", "persist", "revoke", "apply", "delete"}
    BY DEF CnInv, CnTypes, CnLocks, BodyPcs
  <2> QED BY <2>1, <2>2 DEF CnTypeOK, CnInv, CnTypes, CnData, CnLocks
<1>2. FlowOnce
  BY DEF FlowOnce, CnInv, OneUse
<1>3. EntryHasConnection
  BY DEF EntryHasConnection, CnInv, Exclusive
<1>4. NoOrphanGrant
  <2>1. ASSUME NEW c \in CnIds, grant[c] = "live" PROVE cnRec[c] # None \/ \E w \in CnWorkers : cnOp[w].conn = c /\ CnAt(w, "persist")
    BY <2>1 DEF CnInv, Consents, ConsentOf, Creates, CnAt
  <2> QED BY <2>1 DEF NoOrphanGrant
<1>5. RevokedIsLeaving
  BY DEF RevokedIsLeaving, CnInv, Consents, ConsentOf, Leaves
<1>6. Lockstep
  BY DEF Lockstep, CnInv, InStep, EnabledOf
<1> QED BY <1>1, <1>2, <1>3, <1>4, <1>5, <1>6 DEF ConnectionsConsistent

\* A record is written by the persist of a new connection, by a change that found the ciphertext it
\* read, and by a refresh: none of them writes an older token generation.
LEMMA CnTokens ==
  ASSUME CnInv, [CnNext]_cnVars
  PROVE  \A c \in CnIds : cnRec[c] # None /\ cnRec'[c] # None => cnRec'[c].tok >= cnRec[c].tok
<1>0. \A c \in CnIds : cnRec[c] # None => cnRec[c] \in CnRecord /\ cnRec[c].tok \in Nat
  BY DEF CnInv, CnTypes, CnData, CnRecord
<1>1. CASE UNCHANGED cnRec
  BY <1>0, <1>1
<1>2. ASSUME NEW w \in CnWorkers, Creates(cnOp[w]), NEW r, cnRec' = [cnRec EXCEPT ![cnOp[w].conn] = r]
      PROVE  \A c \in CnIds : cnRec[c] # None /\ cnRec'[c] # None => cnRec'[c].tok >= cnRec[c].tok
  <2>1. PICK c : c = cnOp[w].conn
    OBVIOUS
  <2>2. cnRec[c] = None
    BY <1>2, <2>1 DEF CnInv, Unknown, Apart
  <2>3. \A d \in CnIds : d # c => cnRec'[d] = cnRec[d]
    BY <1>2, <2>1 DEF CnInv, CnTypes, CnData
  <2> QED BY <1>0, <2>2, <2>3
<1>3. ASSUME NEW w \in CnWorkers, Changes(cnOp[w]), CasHits(cnOp[w]), cnRec' = [cnRec EXCEPT ![cnOp[w].conn] = Changed(cnOp[w])]
      PROVE  \A c \in CnIds : cnRec[c] # None /\ cnRec'[c] # None => cnRec'[c].tok >= cnRec[c].tok
  <2>1. PICK c \in CnIds : c = cnOp[w].conn
    BY <1>3 DEF CnInv, CnTypes, Shaped, Changes
  <2>2. PICK r \in CnRecord : r = cnRec[c] /\ r # None /\ r.blob = cnOp[w].blob
    BY <1>0, <1>3, <2>1 DEF CasHits
  <2>3. PICK n : n = [r EXCEPT !.enabled = cnOp[w].subs, !.granted = cnOp[w].granted, !.tok = cnOp[w].tok, !.blob = r.blob + 1]
    OBVIOUS
  <2>4. cnRec' = [cnRec EXCEPT ![c] = n]
    BY <1>3, <2>1, <2>2, <2>3 DEF Changed
  <2>5. n.tok = cnOp[w].tok
    BY <2>3 DEF CnRecord
  <2>6. cnOp[w].tok >= r.tok
    BY <1>3, <2>1, <2>2 DEF CnInv, ReadBefore
  <2>7. cnRec'[c] = n /\ \A d \in CnIds : d # c => cnRec'[d] = cnRec[d]
    BY <2>4 DEF CnInv, CnTypes, CnData
  <2> QED BY <1>0, <2>2, <2>5, <2>6, <2>7
<1>4. ASSUME NEW c, cnRec' = [cnRec EXCEPT ![c] = None]
      PROVE  \A d \in CnIds : cnRec[d] # None /\ cnRec'[d] # None => cnRec'[d].tok >= cnRec[d].tok
  BY <1>0, <1>4 DEF CnInv, CnTypes, CnData
<1>5. ASSUME NEW c \in CnIds, Refresh(c)
      PROVE  \A d \in CnIds : cnRec[d] # None /\ cnRec'[d] # None => cnRec'[d].tok >= cnRec[d].tok
  <2>1. PICK r \in CnRecord : r = cnRec[c]
    BY <1>0, <1>5 DEF Refresh
  <2>2. PICK n : n = [r EXCEPT !.tok = r.tok + 1, !.blob = r.blob + 1]
    OBVIOUS
  <2>3. cnRec' = [cnRec EXCEPT ![c] = n] /\ n.tok = r.tok + 1 /\ r.tok \in Nat
    BY <1>5, <2>1, <2>2 DEF Refresh, CnRecord
  <2>4. cnRec'[c] = n /\ \A d \in CnIds : d # c => cnRec'[d] = cnRec[d]
    BY <2>3 DEF CnInv, CnTypes, CnData
  <2> QED BY <1>0, <2>1, <2>3, <2>4
<1>6. ASSUME NEW w \in CnWorkers, Steps(w)
      PROVE  \A c \in CnIds : cnRec[c] # None /\ cnRec'[c] # None => cnRec'[c].tok >= cnRec[c].tok
  <2>1. CASE PersistNew(w)
    BY <1>1, <1>2, <2>1 DEF PersistNew, CnAt, Creates
  <2>2. CASE PersistChange(w)
    BY <1>1, <1>3, <2>2 DEF PersistChange, CnAt, Changes
  <2>3. CASE Delete(w)
    BY <1>4, <2>3 DEF Delete
  <2>4. CASE AnswerLost(w)
    BY <1>2, <1>3, <1>4, <2>4 DEF AnswerLost, CnAt, Creates, Changes
  <2>5. CASE ~(PersistNew(w) \/ PersistChange(w) \/ Delete(w) \/ AnswerLost(w))
    BY <1>1, <1>6, <2>5 DEF Steps, Exchange, CnAcquire, CnGiveUpLock, Load, DisconnectRevokes, Apply, StoreFails, ForkFails, Fork
  <2> QED BY <2>1, <2>2, <2>3, <2>4, <2>5
<1>7. UNCHANGED cnRec \/ (\E w \in CnWorkers : Steps(w)) \/ \E c \in CnIds : Refresh(c)
  <2>1. ASSUME NEW w \in CnWorkers, Starts(w) PROVE UNCHANGED cnRec
    BY <2>1 DEF Starts, StartDisconnect, StartPatch, ConnectNoAuth, StartConnect, StartReconnect
  <2>2. ASSUME NEW w \in CnWorkers, NEW f \in Flows, Complete(w, f) PROVE UNCHANGED cnRec
    BY <2>2 DEF Complete
  <2>3. ASSUME NEW c \in CnIds, CnLockExpires(c) PROVE UNCHANGED cnRec
    BY <2>3 DEF CnLockExpires
  <2>4. ASSUME NEW f \in Flows, FlowExpires(f) PROVE UNCHANGED cnRec
    BY <2>4 DEF FlowExpires
  <2> QED BY <2>1, <2>2, <2>3, <2>4 DEF CnNext, cnVars
<1> QED BY <1>1, <1>5, <1>6, <1>7

\* connection_service.py: connect, complete, patch, reconnect and disconnect, with what fails and expires around them, keep the records, the
\* managed entries of the manifest and the flows in step, and none of them writes back an older token generation.
THEOREM ConnectionsStayInStep == CnSpec => ConnectionsAgree
<1>1. CnInit => CnInv
  BY CnStart
<1>2. CnInv /\ [CnNext]_cnVars => CnInv'
  BY CnStep
<1>3. CnInv => ConnectionsConsistent /\ Lockstep
  BY CnPromise
<1>4. CnInv /\ [CnNext]_cnVars => [\A c \in CnIds : cnRec[c] # None /\ cnRec'[c] # None => cnRec'[c].tok >= cnRec[c].tok]_cnVars
  BY CnTokens
<1> QED BY <1>1, <1>2, <1>3, <1>4, PTL DEF CnSpec, ConnectionsAgree, TokenNeverLost

----------------------------------------------------------------------------
(* The marketplace installer. *)

MkOps == [kind : {"install", "uninstall", "update"}, ref : Refs, at : MkSteps, ver : Versions \cup {Nil}, old : Versions \cup {Nil},
          saved : Manifests \cup {Nil}, batch : SUBSET Refs]

\* The steps an operation of each kind has, and the fields it has by then.
MkShaped(o) ==
    /\ o \in MkOps
    /\ o.kind = "install" => o.at \in {"check", "pip", "save", "apply", "reload", "record", "restore", "rereload", "remove"}
    /\ o.kind = "uninstall" => o.at \in {"check", "apply", "reload", "remove", "drop"}
    /\ o.kind = "update" => o.at \notin {"remove", "drop"}
    /\ o.at # "check" => (o.old = Nil <=> o.kind = "install") /\ (o.ver = Nil <=> o.kind = "uninstall")
    /\ o.kind # "uninstall" /\ o.at \in {"apply", "reload", "record", "restore", "rereload"} => o.saved # Nil

MkData ==
    /\ site \in [Refs -> Versions \cup {Nil}] /\ mkRow \in [Refs -> Versions \cup {Nil}] /\ mkTold \in [Refs -> Versions \cup {Nil}]
    /\ mkManifest \in Manifests /\ live \in Manifests
    /\ escalated \subseteq Refs /\ cut \subseteq Refs /\ budget \in Scenario
MkTypes ==
    /\ MkData /\ mkLock \in Workers \cup {Nil}
    /\ DOMAIN op = Workers /\ \A w \in Workers : op[w] # Idle => MkShaped(op[w])

\* Which of a plugin's modules a manifest names: those of one version, in the slots it provides them for.
Wires(m, r, v) == \A s \in Slots : m[s] \in ModulesOf(r) => s \in DOMAIN Provides[r][v] /\ m[s] = Provides[r][v][s]

\* A manifest fits what is recorded (v) and installed (i) of a plugin.
FitsAs(m, r, v, i) == IF v = Nil THEN ~Carries(m, r) ELSE Wires(m, r, v) /\ (i = Nil => ~Carries(m, r))
Fits(m, r) == FitsAs(m, r, mkTold[r], Installed(r))

\* What is recorded of it wires nothing into a manifest.
Bare(r, v) == v = Nil \/ DOMAIN Provides[r][v] = {}

\* Between two operations on it.
Settled(r) ==
    /\ Fits(mkManifest, r) /\ (Bare(r, mkTold[r]) => ~Carries(live, r))
    /\ mkTold[r] = Nil => site[r] = Nil
    /\ mkTold[r] # Nil => Installed(r) \in {Nil, mkTold[r]} /\ budget.env[r] \in {Nil, mkTold[r]}

\* At each step of an operation on it.
OfInstall(o, r) ==
    /\ mkTold[r] = Nil /\ budget.env[r] \in {Nil, o.ver}
    /\ o.at = "pip" => Settled(r)
    /\ o.at \in {"save", "apply", "remove"} => ~Carries(mkManifest, r) /\ ~Carries(live, r)
    /\ o.at \in {"save", "apply", "reload", "record"} => Installed(r) = o.ver
    /\ o.at \in {"apply", "reload", "record", "restore"} => ~Carries(o.saved, r)
    /\ o.at \in {"reload", "record"} => Wires(mkManifest, r, o.ver)
    /\ o.at = "rereload" => ~Carries(mkManifest, r)
    /\ o.at = "record" /\ Bare(r, o.ver) => ~Carries(live, r)
OfUninstall(o, r) ==
    /\ mkTold[r] = o.old /\ Installed(r) \in {Nil, o.old} /\ budget.env[r] \in {Nil, o.old}
    /\ o.at = "apply" => Settled(r)
    /\ o.at # "apply" => ~Carries(mkManifest, r)
    /\ o.at = "reload" => ~Bare(r, o.old)
    /\ o.at \in {"remove", "drop"} => ~Carries(live, r)
    /\ o.at = "drop" => site[r] = Nil
OfUpdate(o, r) ==
    /\ mkTold[r] = o.old /\ budget.env[r] = Nil
    /\ o.at = "removeOld" \/ (o.at = "pip" /\ ~budget.prefixed) => Settled(r)
    /\ o.at \in {"removeOld", "repip"} => budget.prefixed
    /\ o.at \in {"pip", "repip", "save", "apply", "rereload"} => Wires(mkManifest, r, o.old)
    /\ o.at \in {"save", "apply", "reload", "record"} => site[r] = o.ver
    /\ o.at \in {"apply", "reload", "record", "restore"} => Wires(o.saved, r, o.old)
    /\ o.at \in {"reload", "record"} => Wires(mkManifest, r, o.ver)
    /\ o.at \in {"unwindNew", "unwindPip"} => Wires(IF o.saved = Nil THEN mkManifest ELSE o.saved, r, o.old)
    /\ o.at \in {"restore", "rereload"} => site[r] = o.old
    /\ o.at \in {"pip", "repip", "save", "apply"} \/ (o.at \in {"unwindNew", "unwindPip"} /\ o.saved = Nil) => (Bare(r, o.old) => ~Carries(live, r))
    /\ o.at = "record" /\ Bare(r, o.ver) => ~Carries(live, r)
Course(o, r) ==
    IF o.at = "check" THEN Settled(r)
    ELSE (o.kind = "install" => OfInstall(o, r)) /\ (o.kind = "uninstall" => OfUninstall(o, r)) /\ (o.kind = "update" => OfUpdate(o, r))

Clean == Refs \ (escalated \cup cut)
OnItsWay(w, r) == op[w] # Idle => IF op[w].ref = r THEN Course(op[w], r) ELSE op[w].saved # Nil => Fits(op[w].saved, r)
MkInv ==
    /\ MkTypes /\ LockIsLive
    /\ \A r \in Clean : (MkBusy(r) \/ Settled(r)) /\ \A w \in Workers : OnItsWay(w, r)

\* What a manifest still names of a plugin it named before.
Thins(m2, m, q) == \A s \in Slots : m2[s] \in ModulesOf(q) => m2[s] = m[s]

LEMMA MkShapedRuns == ASSUME NEW o, MkShaped(o) PROVE o # Idle
<1>1. o.kind \in {"install", "uninstall", "update"}
  BY DEF MkShaped, MkOps
<1>2. Idle.kind = "idle"
  BY DEF Idle
<1> QED BY <1>1, <1>2

LEMMA ModulesIn == ASSUME NEW r \in Refs PROVE ModulesOf(r) \subseteq Modules /\ Nil \notin ModulesOf(r) /\ Own \notin ModulesOf(r)
<1>1. ModulesOf(r) \subseteq Modules
  BY DEF ModulesOf, Modules
<1> QED BY <1>1, MarketConstants

LEMMA ProvidedIs ==
  ASSUME NEW r \in Refs, NEW v \in Versions, NEW s \in DOMAIN Provides[r][v]
  PROVE  s \in Slots /\ Provides[r][v][s] \in ModulesOf(r) /\ Provides[r][v][s] \in Modules
<1>1. Provides[r][v][s] \in Range(Provides[r][v])
  BY DEF Range
<1>2. Provides[r][v][s] \in ModulesOf(r)
  BY <1>1 DEF ModulesOf
<1> QED BY <1>2, ModulesIn, MarketConstants

LEMMA RemovedIs ==
  ASSUME NEW r \in Refs, NEW v \in Versions, NEW m \in Manifests
  PROVE  /\ Removed(m, Provides[r][v]) \in Manifests
         /\ \A q \in Refs : Thins(Removed(m, Provides[r][v]), m, q)
         /\ Wires(m, r, v) => ~Carries(Removed(m, Provides[r][v]), r)
<1>1. PICK n : n = Removed(m, Provides[r][v])
  OBVIOUS
<1>2. DOMAIN n = Slots /\ \A s \in Slots : n[s] = IF s \in DOMAIN Provides[r][v] /\ m[s] = Provides[r][v][s] THEN Nil ELSE m[s]
  BY <1>1 DEF Removed
<1>3. n \in Manifests
  BY <1>1 DEF Removed, Manifests
<1>4. \A q \in Refs : Thins(n, m, q)
  BY <1>2, ModulesIn DEF Thins
<1>5. Wires(m, r, v) => ~Carries(n, r)
  BY <1>2, ModulesIn DEF Wires, Carries
<1> QED BY <1>1, <1>3, <1>4, <1>5

LEMMA AddedIs ==
  ASSUME NEW r \in Refs, NEW v \in Versions, NEW m \in Manifests
  PROVE  /\ Added(m, Provides[r][v]) \in Manifests
         /\ \A q \in Refs \ {r} : Thins(Added(m, Provides[r][v]), m, q)
         /\ ~Carries(m, r) => Wires(Added(m, Provides[r][v]), r, v)
<1>1. PICK n : n = Added(m, Provides[r][v])
  OBVIOUS
<1>2. DOMAIN n = Slots /\ \A s \in Slots : n[s] = IF s \in DOMAIN Provides[r][v] THEN Provides[r][v][s] ELSE m[s]
  BY <1>1 DEF Added
<1>3. \A s \in DOMAIN Provides[r][v] : Provides[r][v][s] \in ModulesOf(r) /\ Provides[r][v][s] \in Modules
  BY ProvidedIs
<1>4. n \in Manifests
  BY <1>1, <1>3 DEF Added, Manifests
<1>5. \A q \in Refs \ {r} : Thins(n, m, q)
  <2>1. \A q \in Refs \ {r} : ModulesOf(q) \cap ModulesOf(r) = {}
    BY MarketConstants
  <2> QED BY <1>2, <1>3, <2>1 DEF Thins
<1>6. ~Carries(m, r) => Wires(n, r, v)
  BY <1>2, <1>3 DEF Wires, Carries
<1> QED BY <1>1, <1>4, <1>5, <1>6

LEMMA ThinFits ==
  ASSUME NEW m, NEW m2, NEW q, Thins(m2, m, q)
  PROVE  /\ ~Carries(m, q) => ~Carries(m2, q)
         /\ \A v : Wires(m, q, v) => Wires(m2, q, v)
         /\ \A v, i : FitsAs(m, q, v, i) => FitsAs(m2, q, v, i)
<1>1. ~Carries(m, q) => ~Carries(m2, q)
  BY DEF Thins, Carries
<1>2. \A v : Wires(m, q, v) => Wires(m2, q, v)
  BY DEF Thins, Wires
<1> QED BY <1>1, <1>2 DEF FitsAs

LEMMA BareWires == ASSUME NEW m, NEW r, ~Carries(m, r) PROVE \A v : Wires(m, r, v)
BY DEF Carries, Wires

LEMMA BareCarries ==
  ASSUME NEW m, NEW r \in Refs, NEW v, v \in Versions \cup {Nil}, Bare(r, v), v # Nil => Wires(m, r, v), v = Nil => ~Carries(m, r)
  PROVE  ~Carries(m, r)
<1>1. CASE v = Nil
  BY <1>1
<1>2. CASE v # Nil
  <2>1. \A s \in Slots : m[s] \in ModulesOf(r) => s \in DOMAIN Provides[r][v]
    BY <1>2 DEF Wires
  <2> QED BY <1>2, <2>1 DEF Bare, Carries
<1> QED BY <1>1, <1>2

LEMMA SpendIs ==
  ASSUME budget \in Scenario, NEW b \in {"faults", "cancels", "edits"}, Spend(b)
  PROVE  /\ budget' \in Scenario /\ budget'.env = budget.env /\ budget'.prefixed = budget.prefixed
         /\ b = "edits" => budget'.edits # budget.edits
<1>1. CASE b = "faults"
  <2>1. PICK n \in Nat : n = budget.faults - 1
    BY <1>1 DEF Spend, Scenario
  <2>2. budget' = [budget EXCEPT !.faults = n]
    BY <1>1, <2>1 DEF Spend
  <2> QED BY <1>1, <2>2 DEF Scenario
<1>2. CASE b = "cancels"
  <2>1. PICK n \in Nat : n = budget.cancels - 1
    BY <1>2 DEF Spend, Scenario
  <2>2. budget' = [budget EXCEPT !.cancels = n]
    BY <1>2, <2>1 DEF Spend
  <2> QED BY <1>2, <2>2 DEF Scenario
<1>3. CASE b = "edits"
  <2>1. PICK n \in Nat : n = budget.edits - 1 /\ n # budget.edits
    BY <1>3 DEF Spend, Scenario
  <2>2. budget' = [budget EXCEPT !.edits = n]
    BY <1>3, <2>1 DEF Spend
  <2>3. budget' \in Scenario /\ budget'.env = budget.env /\ budget'.prefixed = budget.prefixed /\ budget'.edits = n
    BY <2>2 DEF Scenario
  <2> QED BY <2>1, <2>3
<1> QED BY <1>1, <1>2, <1>3

----------------------------------------------------------------------------
\* What a step of an operation leaves alone: the other plugins, and what the scenario deploys.
Elsewhere(r) == \A q \in Refs \ {r} : site'[q] = site[q] /\ mkTold'[q] = mkTold[q]
SameDeployment == budget'.env = budget.env /\ budget'.prefixed = budget.prefixed
KeepsOthers(w) ==
    /\ MkData' /\ Elsewhere(op[w].ref) /\ SameDeployment
    /\ escalated \subseteq escalated' /\ cut \subseteq cut'
    /\ live' \in {live, mkManifest'}
    /\ \/ \A q \in Refs \ {op[w].ref} : Thins(mkManifest', mkManifest, q)
       \/ op[w].saved # Nil /\ mkManifest' = op[w].saved

LEMMA InstalledSame ==
  ASSUME NEW q, SameDeployment, site'[q] = site[q]
  PROVE  Installed(q)' = Installed(q)
BY DEF Installed, InEnvironment, SameDeployment

LEMMA SettledKept ==
  ASSUME NEW q \in Refs, SameDeployment, site'[q] = site[q], mkTold'[q] = mkTold[q], Settled(q), mkTold[q] \in Versions \cup {Nil},
         FitsAs(mkManifest', q, mkTold[q], Installed(q)), live' \in {live, mkManifest'}
  PROVE  Settled(q)'
<1>1. Installed(q)' = Installed(q) /\ budget'.env[q] = budget.env[q]
  BY InstalledSame DEF SameDeployment
<1>2. Fits(mkManifest, q)'
  BY <1>1 DEF Fits
<1>3. Bare(q, mkTold[q]) => ~Carries(live', q)
  BY BareCarries DEF Settled, FitsAs
<1>4. (Bare(q, mkTold[q]) => ~Carries(live, q))'
  BY <1>3 DEF Bare
<1> QED BY <1>1, <1>2, <1>4 DEF Settled

LEMMA StepKeeps ==
  ASSUME MkInv, NEW w \in Workers, op[w] # Idle, KeepsOthers(w), NEW x, x = op[w].ref, NEW p, p = Idle \/ MkShaped(p),
         op' = [op EXCEPT ![w] = p], mkLock' = IF p = Idle THEN Nil ELSE mkLock,
         p # Idle => (p.ref = op[w].ref \/ p.at = "check") /\ (p.saved = Nil \/ (p.ref = op[w].ref /\ p.saved \in {op[w].saved, mkManifest})),
         x \in Clean' => IF p # Idle /\ p.ref = x THEN Course(p, x)' ELSE Settled(x)'
  PROVE  MkInv'
<1>0. MkTypes /\ LockIsLive /\ Nil \notin Workers /\ op[w].ref \in Refs
  BY MarketConstants DEF MkInv, MkTypes, MkShaped, MkOps
<1>1. mkLock = w /\ \A v \in Workers \ {w} : op[v] = Idle
  BY <1>0 DEF LockIsLive
<1>2. op'[w] = p /\ DOMAIN op' = Workers /\ \A v \in Workers \ {w} : op'[v] = Idle
  BY <1>0, <1>1 DEF MkTypes
<1>3. MkTypes'
  BY <1>0, <1>1, <1>2 DEF MkTypes, KeepsOthers
<1>4. LockIsLive'
  <2>1. \A v \in Workers : op'[v] # Idle <=> mkLock' = v
    BY <1>0, <1>1, <1>2
  <2>2. Idle' = Idle
    BY DEF Idle
  <2> QED BY <2>1, <2>2 DEF LockIsLive
<1>5. ASSUME NEW r \in Clean' PROVE (MkBusy(r) \/ Settled(r))' /\ \A v \in Workers : OnItsWay(v, r)'
  <2>0. r \in Clean
    BY DEF Clean, KeepsOthers
  <2>1. \A v \in Workers \ {w} : OnItsWay(v, r)'
    BY <1>2 DEF OnItsWay, Idle
  <2>2. CASE r = x
    <3>1. CASE p # Idle /\ p.ref = r
      <4>1. Course(p, r)'
        BY <2>2, <3>1
      <4>2. MkBusy(r)'
        BY <1>2, <3>1 DEF MkBusy, Idle
      <4>3. OnItsWay(w, r)'
        BY <1>2, <3>1, <4>1 DEF OnItsWay
      <4> QED BY <2>1, <4>2, <4>3
    <3>2. CASE ~(p # Idle /\ p.ref = r)
      <4>1. Settled(r)'
        BY <2>2, <3>2
      <4>2. p # Idle => p.saved = Nil
        BY <2>2, <3>2
      <4>3. OnItsWay(w, r)'
        BY <1>2, <3>2, <4>2 DEF OnItsWay, Idle
      <4> QED BY <2>1, <4>1, <4>3
    <3> QED BY <3>1, <3>2
  <2>3. CASE r # x
    <3>1. ~MkBusy(r)
      BY <1>1, <2>3 DEF MkBusy
    <3>2. Settled(r) /\ OnItsWay(w, r)
      BY <2>0, <3>1 DEF MkInv
    <3>3. site'[r] = site[r] /\ mkTold'[r] = mkTold[r] /\ SameDeployment /\ live' \in {live, mkManifest'} /\ r \in Refs
      BY <2>0, <2>3 DEF KeepsOthers, Elsewhere, Clean
    <3>4. op[w].saved # Nil => FitsAs(op[w].saved, r, mkTold[r], Installed(r))
      BY <2>3, <3>2 DEF OnItsWay, Fits
    <3>5. FitsAs(mkManifest, r, mkTold[r], Installed(r))
      BY <3>2 DEF Settled, Fits
    <3>6. FitsAs(mkManifest', r, mkTold[r], Installed(r))
      <4>1. CASE Thins(mkManifest', mkManifest, r)
        BY <3>5, <4>1, ThinFits
      <4>2. CASE op[w].saved # Nil /\ mkManifest' = op[w].saved
        BY <3>4, <4>2
      <4> QED BY <2>3, <3>3, <4>1, <4>2 DEF KeepsOthers
    <3>7. Settled(r)'
      BY <1>0, <3>2, <3>3, <3>6, SettledKept DEF MkTypes, MkData
    <3>8. p # Idle /\ p.saved # Nil => FitsAs(p.saved, r, mkTold'[r], Installed(r)')
      <4>1. Installed(r)' = Installed(r)
        BY <3>3, InstalledSame
      <4> QED BY <3>3, <3>4, <3>5, <4>1
    <3>9. p # Idle /\ p.ref = r => Course(p, r)'
      BY <2>3, <3>7 DEF Course
    <3>10. OnItsWay(w, r)'
      <4>1. p # Idle /\ p.ref # r /\ p.saved # Nil => Fits(p.saved, r)'
        BY <3>8 DEF Fits
      <4> QED BY <1>2, <3>9, <4>1 DEF OnItsWay, Idle
    <3> QED BY <2>1, <3>7, <3>10
  <2> QED BY <2>2, <2>3
<1> QED BY <1>3, <1>4, <1>5 DEF MkInv

LEMMA FinishKeeps ==
  ASSUME MkInv, NEW w \in Workers, op[w] # Idle, KeepsOthers(w), Finish(w), NEW x, x = op[w].ref, x \in Clean' => Settled(x)'
  PROVE  MkInv'
<1>0. MkShaped(op[w])
  BY DEF MkInv, MkTypes
<1>1. CASE op[w].batch = {}
  BY <1>1, StepKeeps DEF Finish
<1>2. CASE op[w].batch # {}
  <2>0. PICK r \in op[w].batch : /\ op' = [op EXCEPT ![w] = [op[w] EXCEPT !.ref = r, !.at = "check", !.batch = op[w].batch \ {r}, !.saved = Nil]]
                                /\ UNCHANGED mkLock
    BY <1>2 DEF Finish
  <2>1. PICK p : /\ p = [op[w] EXCEPT !.ref = r, !.at = "check", !.batch = op[w].batch \ {r}, !.saved = Nil]
                 /\ op' = [op EXCEPT ![w] = p] /\ UNCHANGED mkLock
    BY <2>0
  <2>2. PICK o \in MkOps : o = op[w]
    BY <1>0 DEF MkShaped
  <2>3. p \in MkOps /\ p.kind = o.kind /\ p.at = "check" /\ p.saved = Nil
    BY <2>1, <2>2 DEF MkOps, MkSteps
  <2>4. MkShaped(p)
    BY <1>0, <2>2, <2>3 DEF MkShaped
  <2>5. p # Idle
    BY <2>4, MkShapedRuns
  <2>6. x \in Clean' => Course(p, x)'
    BY <2>3 DEF Course
  <2> QED BY <2>1, <2>3, <2>4, <2>5, <2>6, StepKeeps
<1> QED BY <1>1, <1>2

LEMMA GoKeeps ==
  ASSUME MkInv, NEW w \in Workers, op[w] # Idle, KeepsOthers(w), NEW p, MkShaped(p), op' = [op EXCEPT ![w] = p], UNCHANGED mkLock,
         p.ref = op[w].ref, p.saved \in {Nil, op[w].saved, mkManifest},
         NEW x, x = op[w].ref, x \in Clean' => Course(p, x)'
  PROVE  MkInv'
<1>1. p # Idle
  BY MkShapedRuns
<1> QED BY <1>1, StepKeeps

LEMMA Here ==
  ASSUME MkInv, NEW w \in Workers, op[w] # Idle, NEW x, x = op[w].ref
  PROVE  /\ MkTypes /\ MkShaped(op[w]) /\ op[w] \in MkOps /\ x \in Refs /\ (x \in Clean => Course(op[w], x))
         /\ site[x] \in Versions \cup {Nil} /\ mkTold[x] \in Versions \cup {Nil} /\ mkRow[x] \in Versions \cup {Nil}
         /\ budget.env[x] \in Versions \cup {Nil} /\ Nil \notin Versions
<1>1. MkTypes /\ MkShaped(op[w]) /\ op[w] \in MkOps
  BY DEF MkInv, MkTypes, MkShaped
<1>2. x \in Refs
  BY <1>1 DEF MkOps
<1>3. x \in Clean => Course(op[w], x)
  BY DEF MkInv, OnItsWay
<1>4. budget.env \in [Refs -> Versions \cup {Nil}]
  BY <1>1 DEF MkTypes, MkData, Scenario
<1> QED BY <1>1, <1>2, <1>3, <1>4, MarketConstants DEF MkTypes, MkData

LEMMA OwnKeeps ==
  ASSUME MkInv, NEW w \in Workers, op[w] # Idle, Elsewhere(op[w].ref),
         site' \in [Refs -> Versions \cup {Nil}], mkTold' \in [Refs -> Versions \cup {Nil}],
         UNCHANGED mkRow \/ mkRow' \in [Refs -> Versions \cup {Nil}], UNCHANGED mkManifest, live' \in {live, mkManifest},
         escalated' = escalated \/ escalated' = escalated \cup {op[w].ref}, cut' = cut \/ cut' = cut \cup {op[w].ref},
         UNCHANGED budget \/ \E b \in {"faults", "cancels"} : Spend(b)
  PROVE  KeepsOthers(w) /\ SameDeployment
<1>1. MkTypes /\ op[w].ref \in Refs
  BY Here
<1>2. budget' \in Scenario /\ SameDeployment
  BY <1>1, SpendIs DEF MkTypes, MkData, SameDeployment
<1>3. MkData'
  BY <1>1, <1>2 DEF MkTypes, MkData
<1>4. \A q \in Refs : Thins(mkManifest', mkManifest, q)
  BY DEF Thins
<1> QED BY <1>2, <1>3, <1>4 DEF KeepsOthers

LEMMA StillKeeps ==
  ASSUME MkInv, NEW w \in Workers, op[w] # Idle, UNCHANGED <<site, mkTold, mkManifest>>,
         UNCHANGED mkRow \/ mkRow' \in [Refs -> Versions \cup {Nil}], live' \in {live, mkManifest},
         escalated' = escalated \/ escalated' = escalated \cup {op[w].ref}, cut' = cut \/ cut' = cut \cup {op[w].ref},
         UNCHANGED budget \/ \E b \in {"faults", "cancels"} : Spend(b)
  PROVE  KeepsOthers(w) /\ SameDeployment
<1>1. MkTypes
  BY Here
<1> QED BY <1>1, OwnKeeps DEF MkTypes, MkData, Elsewhere

LEMMA SiteIs ==
  ASSUME MkData, NEW x \in Refs, NEW v \in Versions \cup {Nil}, site' = [site EXCEPT ![x] = v]
  PROVE  site' \in [Refs -> Versions \cup {Nil}] /\ site'[x] = v /\ \A q \in Refs \ {x} : site'[q] = site[q]
BY DEF MkData

LEMMA EscalateKeeps ==
  ASSUME MkInv, NEW w \in Workers, op[w] # Idle, Escalate(w), UNCHANGED <<mkManifest, mkRow, mkTold, cut>>, live' \in {live, mkManifest},
         site' \in {site, [site EXCEPT ![op[w].ref] = Nil]}, UNCHANGED budget \/ Spend("faults")
  PROVE  MkInv'
<1>1. PICK x : x = op[w].ref
  OBVIOUS
<1>2. Finish(w) /\ x \notin Clean'
  BY <1>1 DEF Escalate, Clean
<1>3. KeepsOthers(w)
  <2>1. MkData /\ x \in Refs
    BY <1>1, Here DEF MkTypes
  <2>2. CASE site' = site
    BY <2>2, StillKeeps DEF Escalate
  <2>3. CASE site' = [site EXCEPT ![x] = Nil]
    <3>1. site' \in [Refs -> Versions \cup {Nil}] /\ Elsewhere(x)
      BY <2>1, <2>3, SiteIs DEF Elsewhere
    <3> QED BY <1>1, <2>1, <3>1, OwnKeeps DEF Escalate, MkData
  <2> QED BY <1>1, <2>2, <2>3
<1> QED BY <1>1, <1>2, <1>3, FinishKeeps

LEMMA StopsSettled ==
  ASSUME MkInv, NEW w \in Workers, op[w] # Idle, Finish(w), UNCHANGED <<site, mkManifest, live, mkRow, mkTold, escalated, cut>>,
         UNCHANGED budget \/ Spend("faults"), op[w].ref \in Clean => Settled(op[w].ref)
  PROVE  MkInv'
<1>1. PICK x : x = op[w].ref
  OBVIOUS
<1>2. KeepsOthers(w) /\ SameDeployment
  BY StillKeeps
<1>3. ASSUME x \in Clean' PROVE Settled(x)'
  <2>1. Settled(x)
    BY <1>1, <1>3 DEF Clean
  <2>2. x \in Refs /\ mkTold[x] \in Versions \cup {Nil}
    BY <1>1, Here
  <2> QED BY <1>2, <2>1, <2>2, SettledKept DEF Settled, Fits
<1> QED BY <1>1, <1>2, <1>3, FinishKeeps

LEMMA GoneOn ==
  ASSUME NEW w \in Workers, op[w] \in MkOps, NEW at \in MkSteps, Go(w, at)
  PROVE  \E p \in MkOps : /\ op' = [op EXCEPT ![w] = p] /\ p.at = at /\ p.kind = op[w].kind /\ p.ref = op[w].ref /\ p.ver = op[w].ver
                          /\ p.old = op[w].old /\ p.saved = op[w].saved /\ p.batch = op[w].batch
<1>1. PICK o \in MkOps : o = op[w]
  OBVIOUS
<1>2. PICK p : p = [o EXCEPT !.at = at]
  OBVIOUS
<1>3. p \in MkOps /\ p.at = at /\ p.kind = o.kind /\ p.ref = o.ref /\ p.ver = o.ver /\ p.old = o.old /\ p.saved = o.saved /\ p.batch = o.batch
  BY <1>2 DEF MkOps
<1>4. op' = [op EXCEPT ![w] = p]
  BY <1>1, <1>2 DEF Go
<1> QED BY <1>1, <1>3, <1>4

LEMMA RowIs ==
  ASSUME MkData, NEW x \in Refs, NEW v \in Versions \cup {Nil}
  PROVE  [mkRow EXCEPT ![x] = v] \in [Refs -> Versions \cup {Nil}]
BY DEF MkData

LEMMA ToldIs ==
  ASSUME MkData, NEW x \in Refs, NEW v \in Versions \cup {Nil}, mkTold' = [mkTold EXCEPT ![x] = v]
  PROVE  mkTold' \in [Refs -> Versions \cup {Nil}] /\ mkTold'[x] = v /\ \A q \in Refs \ {x} : mkTold'[q] = mkTold[q]
BY DEF MkData

\* pip's result: nothing lands where the environment has the version.
LEMMA PipIs ==
  ASSUME MkData, NEW x \in Refs, NEW v \in Versions, Pip(x, v), UNCHANGED mkTold
  PROVE  /\ site' \in [Refs -> Versions \cup {Nil}] /\ Elsewhere(x)
         /\ budget.env[x] = Nil => site'[x] = v
         /\ budget.env[x] = v => site'[x] = site[x]
<1>1. PICK u : u = IF budget.env[x] = v THEN site[x] ELSE v
  OBVIOUS
<1>2. u \in Versions \cup {Nil}
  BY <1>1 DEF MkData
<1>3. site' = [site EXCEPT ![x] = u]
  BY <1>1 DEF Pip
<1>4. Nil \notin Versions
  BY MarketConstants
<1> QED BY <1>1, <1>2, <1>3, <1>4, SiteIs DEF Elsewhere

----------------------------------------------------------------------------
(* The steps of an operation. *)

LEMMA CheckDoes == ASSUME MkInv, NEW w \in Workers, Check(w) PROVE MkInv'
<1>0. op[w] # Idle /\ op[w].at = "check" /\ UNCHANGED <<site, mkManifest, live, mkRow, mkTold, escalated, budget>>
  BY DEF Check
<1>1. PICK x, o : x = op[w].ref /\ o = op[w]
  OBVIOUS
<1>2. /\ MkTypes /\ MkShaped(o) /\ o \in MkOps /\ x \in Refs /\ (x \in Clean => Settled(x))
      /\ mkTold[x] \in Versions \cup {Nil} /\ mkRow[x] \in Versions \cup {Nil} /\ Nil \notin Versions
  BY <1>0, <1>1, Here DEF Course
<1>3. Settled(x)' = Settled(x)
  BY <1>0 DEF Settled, Fits, Installed, InEnvironment, Bare
<1>4. CASE Finish(w) /\ UNCHANGED cut
  BY <1>0, <1>1, <1>2, <1>4, StopsSettled
<1>5. ASSUME NEW at \in MkSteps, NEW v \in Versions \cup {Nil}, CheckTo(w, at, v), at # "check",
             \/ o.kind = "install" /\ v \in Versions /\ MayInstall(x, v) /\ at = "pip"
             \/ o.kind = "update" /\ v \in Versions /\ MayUpdate(x, v) /\ at = IF budget.prefixed THEN "removeOld" ELSE "pip"
             \/ o.kind = "uninstall" /\ v = Nil /\ mkRow[x] # Nil /\ at = "apply"
      PROVE  MkInv'
  <2>0. KeepsOthers(w) /\ (x \in Clean' => x \in Clean /\ mkTold[x] = mkRow[x])
    <3>1. cut' = IF mkTold[x] = mkRow[x] THEN cut ELSE cut \cup {x}
      BY <1>1, <1>5 DEF CheckTo
    <3>2. KeepsOthers(w)
      BY <1>0, <1>1, <3>1, StillKeeps
    <3> QED BY <1>0, <1>2, <3>1, <3>2 DEF Clean
  <2>1. PICK old \in Versions \cup {Nil} : old = mkRow[x]
    BY <1>2
  <2>2. PICK p : p = [o EXCEPT !.at = at, !.ver = v, !.old = old]
    OBVIOUS
  <2>3. p \in MkOps /\ p.at = at /\ p.ver = v /\ p.old = old /\ p.kind = o.kind /\ p.ref = o.ref /\ p.saved = o.saved
    BY <1>2, <2>2 DEF MkOps
  <2>4. op' = [op EXCEPT ![w] = p] /\ UNCHANGED mkLock
    BY <1>1, <1>5, <2>1, <2>2 DEF CheckTo
  <2>5. (old = Nil <=> o.kind = "install") /\ (v = Nil <=> o.kind = "uninstall")
    BY <1>2, <1>5, <2>1 DEF MayInstall, MayUpdate
  <2>6. MkShaped(p)
    BY <1>2, <1>5, <2>3, <2>5 DEF MkShaped
  <2>7. ASSUME x \in Clean' PROVE Course(p, x)
    <3>1. Settled(x) /\ mkTold[x] = old
      BY <1>2, <2>0, <2>1, <2>7
    <3>2. CASE o.kind = "install"
      <4>1. OfInstall(p, x)
        BY <1>5, <2>1, <2>3, <2>5, <3>1, <3>2 DEF OfInstall, MayInstall
      <4> QED BY <1>5, <2>3, <3>2, <4>1 DEF Course
    <3>3. CASE o.kind = "update"
      <4>1. budget.env[x] = Nil /\ Wires(mkManifest, x, old)
        BY <1>5, <2>1, <2>5, <3>1, <3>3 DEF Settled, MayUpdate, Fits, FitsAs
      <4>2. Bare(x, old) => ~Carries(live, x)
        BY <3>1 DEF Settled
      <4>3. OfUpdate(p, x)
        BY <1>5, <2>1, <2>3, <3>1, <3>3, <4>1, <4>2 DEF OfUpdate
      <4> QED BY <1>5, <2>3, <3>3, <4>3 DEF Course
    <3>4. CASE o.kind = "uninstall"
      <4>1. OfUninstall(p, x)
        BY <1>5, <2>1, <2>3, <3>1, <3>4 DEF OfUninstall, Settled
      <4> QED BY <1>5, <2>3, <3>4, <4>1 DEF Course
    <3> QED BY <1>5, <3>2, <3>3, <3>4
  <2>8. Course(p, x)' = Course(p, x)
    BY <1>0 DEF Course, OfInstall, OfUninstall, OfUpdate, Settled, Fits, Installed, InEnvironment, Bare
  <2> QED BY <1>0, <1>1, <2>0, <2>3, <2>4, <2>6, <2>7, <2>8, GoKeeps
<1>6. ASSUME NEW v \in Versions, o.kind = "install", MayInstall(x, v), CheckTo(w, "pip", v) PROVE MkInv'
  BY <1>5, <1>6 DEF MkSteps
<1>7. ASSUME NEW v \in Versions, o.kind = "update", MayUpdate(x, v), CheckTo(w, IF budget.prefixed THEN "removeOld" ELSE "pip", v) PROVE MkInv'
  <2>1. PICK at \in {"removeOld", "pip"} : at = IF budget.prefixed THEN "removeOld" ELSE "pip"
    OBVIOUS
  <2>2. CheckTo(w, at, v)
    BY <1>7, <2>1
  <2> QED BY <1>5, <1>7, <2>1, <2>2 DEF MkSteps
<1>8. ASSUME o.kind = "uninstall", mkRow[x] # Nil, CheckTo(w, "apply", Nil) PROVE MkInv'
  BY <1>5, <1>8 DEF MkSteps
<1> QED BY <1>1, <1>4, <1>6, <1>7, <1>8 DEF Check

LEMMA RemoveOldDoes == ASSUME MkInv, NEW w \in Workers, RemoveOld(w) PROVE MkInv'
<1>0. op[w] # Idle /\ op[w].at = "removeOld" /\ UNCHANGED <<mkManifest, live, mkRow, mkTold, escalated>>
  BY DEF RemoveOld
<1>1. PICK x, o : x = op[w].ref /\ o = op[w]
  OBVIOUS
<1>2. /\ MkTypes /\ MkData /\ MkShaped(o) /\ o \in MkOps /\ x \in Refs /\ Nil \notin Versions
      /\ o.kind = "update" /\ o.at = "removeOld" /\ (x \in Clean => OfUpdate(o, x))
  <2>1. MkTypes /\ MkShaped(o) /\ o \in MkOps /\ x \in Refs /\ Nil \notin Versions /\ (x \in Clean => Course(o, x))
    BY <1>0, <1>1, Here
  <2>2. o.kind = "update" /\ o.at = "removeOld"
    BY <1>0, <1>1, <2>1 DEF MkShaped, MkOps
  <2> QED BY <1>0, <2>1, <2>2 DEF MkTypes, Course
<1>3. CASE OutOfPrefix(x) /\ Go(w, "pip") /\ UNCHANGED <<mkLock, cut, budget>>
  <2>1. PICK p \in MkOps : /\ op' = [op EXCEPT ![w] = p] /\ p.at = "pip" /\ p.kind = o.kind /\ p.ref = o.ref /\ p.ver = o.ver
                           /\ p.old = o.old /\ p.saved = o.saved
    BY <1>1, <1>2, <1>3, GoneOn DEF MkSteps
  <2>2. MkShaped(p)
    BY <1>2, <2>1 DEF MkShaped
  <2>3. site' \in [Refs -> Versions \cup {Nil}] /\ site'[x] = Nil /\ Elsewhere(x)
    BY <1>0, <1>2, <1>3, SiteIs DEF OutOfPrefix, Elsewhere
  <2>4. KeepsOthers(w) /\ SameDeployment
    BY <1>0, <1>1, <1>2, <1>3, <2>3, OwnKeeps DEF MkData
  <2>5. ASSUME x \in Clean' PROVE Course(p, x)'
    <3>1. OfUpdate(o, x) /\ Settled(x)
      BY <1>0, <1>2, <1>3, <2>5 DEF OfUpdate, Clean
    <3>2. mkTold[x] = p.old /\ p.old # Nil /\ budget.env[x] = Nil /\ budget.prefixed
      BY <1>2, <2>1, <3>1 DEF OfUpdate, MkShaped
    <3>3. Wires(mkManifest, x, p.old)
      BY <3>1, <3>2 DEF Settled, Fits, FitsAs
    <3>4. (mkTold[x] = p.old /\ budget.env[x] = Nil /\ budget.prefixed /\ Wires(mkManifest, x, p.old))'
      BY <1>0, <1>3, <3>2, <3>3
    <3>5. (Bare(x, p.old) => ~Carries(live, x))'
      BY <1>0, <3>1, <3>2 DEF Settled, Bare
    <3>6. OfUpdate(p, x)'
      BY <2>1, <3>4, <3>5 DEF OfUpdate
    <3> QED BY <1>2, <2>1, <3>6 DEF Course
  <2> QED BY <1>0, <1>1, <1>2, <1>3, <2>1, <2>2, <2>4, <2>5, GoKeeps
<1>4. CASE Finish(w) /\ UNCHANGED <<site, cut>> /\ (UNCHANGED budget \/ Spend("faults"))
  BY <1>0, <1>1, <1>2, <1>4, StopsSettled DEF OfUpdate
<1>5. CASE Finish(w) /\ Spend("faults") /\ site' = [site EXCEPT ![x] = Nil] /\ cut' = cut \cup {x}
  <2>1. site' \in [Refs -> Versions \cup {Nil}] /\ Elsewhere(x)
    BY <1>0, <1>2, <1>5, SiteIs DEF Elsewhere
  <2>2. KeepsOthers(w) /\ x \notin Clean'
    BY <1>0, <1>1, <1>2, <1>5, <2>1, OwnKeeps DEF MkData, Clean
  <2> QED BY <1>0, <1>1, <1>5, <2>2, FinishKeeps
<1>6. ASSUME HalfOutOfPrefix(x), cut' = IF site' = site THEN cut ELSE cut \cup {x}
      PROVE  Spend("faults") /\ (UNCHANGED <<site, cut>> \/ (site' = [site EXCEPT ![x] = Nil] /\ cut' = cut \cup {x}))
  BY <1>6 DEF HalfOutOfPrefix, Fault
<1> QED BY <1>1, <1>3, <1>4, <1>5, <1>6 DEF RemoveOld

\* An operation that goes on to a step at, and what it changed on its way.
LEMMA AdvanceKeeps ==
  ASSUME MkInv, NEW w \in Workers, op[w] # Idle, KeepsOthers(w), UNCHANGED mkLock, NEW at \in MkSteps, Go(w, at), NEW x, x = op[w].ref,
         \/ op[w].kind = "install" /\ at \in {"save", "reload", "record", "rereload", "remove"} /\ op[w].at # "check"
         \/ op[w].kind = "uninstall" /\ at \in {"reload", "remove", "drop"} /\ op[w].at # "check"
         \/ op[w].kind = "update" /\ at \in {"repip", "save", "reload", "record", "unwindPip", "restore", "rereload"} /\ op[w].at # "check",
         op[w].kind # "uninstall" /\ at \in {"reload", "record", "restore", "rereload"} => op[w].saved # Nil,
         \A p \in MkOps : /\ p.at = at /\ p.kind = op[w].kind /\ p.ref = x /\ p.ver = op[w].ver /\ p.old = op[w].old /\ p.saved = op[w].saved
                          /\ x \in Clean'
                         => /\ p.kind = "install" => OfInstall(p, x)'
                            /\ p.kind = "uninstall" => OfUninstall(p, x)'
                            /\ p.kind = "update" => OfUpdate(p, x)'
  PROVE  MkInv'
<1>1. MkShaped(op[w]) /\ op[w] \in MkOps
  BY Here
<1>2. PICK p \in MkOps : /\ op' = [op EXCEPT ![w] = p] /\ p.at = at /\ p.kind = op[w].kind /\ p.ref = op[w].ref /\ p.ver = op[w].ver
                         /\ p.old = op[w].old /\ p.saved = op[w].saved
  BY <1>1, GoneOn
<1>3. MkShaped(p)
  BY <1>1, <1>2 DEF MkShaped
<1>4. x \in Clean' => Course(p, x)'
  BY <1>2 DEF Course
<1> QED BY <1>2, <1>3, <1>4, GoKeeps

LEMMA PipInstallDoes == ASSUME MkInv, NEW w \in Workers, PipInstall(w) PROVE MkInv'
<1>0. op[w] # Idle /\ op[w].at = "pip" /\ UNCHANGED <<mkManifest, live, mkRow, mkTold, escalated, cut>>
  BY DEF PipInstall
<1>1. PICK x, o : x = op[w].ref /\ o = op[w]
  OBVIOUS
<1>2. /\ MkTypes /\ MkData /\ MkShaped(o) /\ o \in MkOps /\ x \in Refs /\ Nil \notin Versions /\ Clean' = Clean
      /\ o.kind \in {"install", "update"} /\ o.at = "pip" /\ o.ver \in Versions
      /\ (x \in Clean /\ o.kind = "install" => OfInstall(o, x)) /\ (x \in Clean /\ o.kind = "update" => OfUpdate(o, x))
  <2>1. MkTypes /\ MkShaped(o) /\ o \in MkOps /\ x \in Refs /\ Nil \notin Versions /\ (x \in Clean => Course(o, x))
    BY <1>0, <1>1, Here
  <2>2. o.kind \in {"install", "update"} /\ o.at = "pip" /\ o.ver \in Versions
    BY <1>0, <1>1, <2>1 DEF MkShaped, MkOps
  <2> QED BY <1>0, <2>1, <2>2 DEF MkTypes, Course, Clean
<1>3. CASE Pip(x, o.ver) /\ Go(w, "save") /\ UNCHANGED <<mkLock, budget>>
  <2>1. /\ site' \in [Refs -> Versions \cup {Nil}] /\ Elsewhere(x)
        /\ budget.env[x] = Nil => site'[x] = o.ver
        /\ budget.env[x] = o.ver => site'[x] = site[x]
    BY <1>0, <1>2, <1>3, PipIs
  <2>2. KeepsOthers(w) /\ SameDeployment
    BY <1>0, <1>1, <1>2, <1>3, <2>1, OwnKeeps DEF MkData
  <2>3. ASSUME NEW p \in MkOps, p.at = "save", p.kind = o.kind, p.ver = o.ver, p.old = o.old, x \in Clean'
        PROVE  (p.kind = "install" => OfInstall(p, x)') /\ (p.kind = "update" => OfUpdate(p, x)')
    <3>1. ASSUME p.kind = "install" PROVE OfInstall(p, x)'
      <4>1. OfInstall(o, x) /\ Settled(x)
        BY <1>2, <2>3, <3>1 DEF OfInstall
      <4>2. mkTold[x] = Nil /\ budget.env[x] \in {Nil, o.ver} /\ ~Carries(mkManifest, x) /\ ~Carries(live, x)
        BY <4>1 DEF OfInstall, Settled, Fits, FitsAs, Bare
      <4>3. Installed(x)' = o.ver
        BY <1>2, <1>3, <2>1, <4>2 DEF Installed, InEnvironment
      <4>4. (mkTold[x] = Nil /\ budget.env[x] \in {Nil, p.ver} /\ ~Carries(mkManifest, x) /\ ~Carries(live, x) /\ Installed(x) = p.ver)'
        BY <1>0, <1>3, <2>3, <4>2, <4>3
      <4> QED BY <2>3, <4>4 DEF OfInstall
    <3>2. ASSUME p.kind = "update" PROVE OfUpdate(p, x)'
      <4>1. OfUpdate(o, x)
        BY <1>2, <2>3, <3>2
      <4>2. mkTold[x] = o.old /\ budget.env[x] = Nil /\ Wires(mkManifest, x, o.old)
        BY <1>2, <4>1 DEF OfUpdate
      <4>3. (mkTold[x] = p.old /\ budget.env[x] = Nil /\ Wires(mkManifest, x, p.old) /\ site[x] = p.ver)'
        BY <1>0, <1>3, <2>1, <2>3, <4>2
      <4>4. (Bare(x, p.old) => ~Carries(live, x))'
        BY <1>0, <1>2, <2>3, <4>1 DEF OfUpdate, Bare
      <4> QED BY <2>3, <4>3, <4>4 DEF OfUpdate
    <3> QED BY <3>1, <3>2
  <2> QED BY <1>0, <1>1, <1>2, <1>3, <2>2, <2>3, AdvanceKeeps DEF MkSteps
<1>4. CASE PipFails /\ budget.prefixed /\ o.kind = "update" /\ Go(w, "repip") /\ UNCHANGED mkLock
  <2>1. UNCHANGED site /\ Spend("faults")
    BY <1>4 DEF PipFails, Fault
  <2>2. KeepsOthers(w) /\ SameDeployment
    BY <1>0, <2>1, StillKeeps
  <2>3. ASSUME NEW p \in MkOps, p.at = "repip", p.kind = o.kind, p.ver = o.ver, p.old = o.old, x \in Clean'
        PROVE  OfUpdate(p, x)'
    <3>1. mkTold[x] = o.old /\ budget.env[x] = Nil /\ Wires(mkManifest, x, o.old)
      BY <1>2, <1>4, <2>3 DEF OfUpdate
    <3>2. (mkTold[x] = p.old /\ budget.env[x] = Nil /\ budget.prefixed /\ Wires(mkManifest, x, p.old))'
      BY <1>0, <1>4, <2>2, <2>3, <3>1 DEF SameDeployment
    <3>3. (Bare(x, p.old) => ~Carries(live, x))'
      BY <1>0, <1>2, <1>4, <2>3 DEF OfUpdate, Bare
    <3> QED BY <2>3, <3>2, <3>3 DEF OfUpdate
  <2> QED BY <1>0, <1>1, <1>2, <1>4, <2>2, <2>3, AdvanceKeeps DEF MkSteps
<1>5. CASE PipFails /\ ~(budget.prefixed /\ o.kind = "update") /\ Finish(w)
  <2>1. UNCHANGED site /\ Spend("faults")
    BY <1>5 DEF PipFails, Fault
  <2>2. x \in Clean => Settled(x)
    BY <1>2, <1>5 DEF OfInstall, OfUpdate
  <2> QED BY <1>0, <1>1, <1>5, <2>1, <2>2, StopsSettled
<1> QED BY <1>1, <1>3, <1>4, <1>5 DEF PipInstall

LEMMA PipBackDoes == ASSUME MkInv, NEW w \in Workers, PipBack(w) PROVE MkInv'
<1>0. op[w] # Idle /\ op[w].at = "repip" /\ UNCHANGED <<mkManifest, live, mkRow, mkTold, cut>>
  BY DEF PipBack
<1>1. PICK x, o : x = op[w].ref /\ o = op[w]
  OBVIOUS
<1>2. /\ MkTypes /\ MkData /\ MkShaped(o) /\ o \in MkOps /\ x \in Refs /\ Nil \notin Versions
      /\ o.kind = "update" /\ o.at = "repip" /\ o.old \in Versions /\ (x \in Clean => OfUpdate(o, x))
  <2>1. MkTypes /\ MkShaped(o) /\ o \in MkOps /\ x \in Refs /\ Nil \notin Versions /\ (x \in Clean => Course(o, x))
    BY <1>0, <1>1, Here
  <2>2. o.kind = "update" /\ o.at = "repip" /\ o.old \in Versions
    BY <1>0, <1>1, <2>1 DEF MkShaped, MkOps
  <2> QED BY <2>1, <2>2 DEF MkTypes, Course
<1>3. CASE Pip(x, o.old) /\ Finish(w) /\ UNCHANGED <<budget, escalated>>
  <2>1. /\ site' \in [Refs -> Versions \cup {Nil}] /\ Elsewhere(x)
        /\ budget.env[x] = Nil => site'[x] = o.old
    BY <1>0, <1>2, <1>3, PipIs
  <2>2. KeepsOthers(w) /\ SameDeployment
    BY <1>0, <1>1, <1>2, <1>3, <2>1, OwnKeeps DEF MkData
  <2>3. ASSUME x \in Clean' PROVE Settled(x)'
    <3>1. OfUpdate(o, x)
      BY <1>0, <1>2, <1>3, <2>3 DEF Clean
    <3>2. mkTold[x] = o.old /\ budget.env[x] = Nil /\ Wires(mkManifest, x, o.old)
      BY <1>2, <3>1 DEF OfUpdate
    <3>3. (Bare(x, o.old) => ~Carries(live, x))'
      BY <1>0, <1>2, <3>1 DEF OfUpdate, Bare
    <3>4. (mkTold[x] = o.old /\ budget.env[x] = Nil /\ Wires(mkManifest, x, o.old) /\ site[x] = o.old)'
      BY <1>0, <1>3, <2>1, <3>2
    <3> QED BY <1>2, <3>3, <3>4 DEF Settled, Fits, FitsAs, Installed, InEnvironment
  <2> QED BY <1>0, <1>1, <1>3, <2>2, <2>3, FinishKeeps
<1>4. CASE PipFails /\ Escalate(w)
  BY <1>0, <1>4, EscalateKeeps DEF PipFails, Fault
<1> QED BY <1>1, <1>3, <1>4 DEF PipBack

\* The step an operation is at: its fields, and what holds of its plugin.
LEMMA AtStep ==
  ASSUME MkInv, NEW w \in Workers, op[w] # Idle, NEW x, x = op[w].ref, NEW o, o = op[w], o.at # "check"
  PROVE  /\ MkTypes /\ MkData /\ MkShaped(o) /\ o \in MkOps /\ x \in Refs /\ Nil \notin Versions
         /\ (o.kind = "install" /\ x \in Clean => OfInstall(o, x)) /\ (o.kind = "uninstall" /\ x \in Clean => OfUninstall(o, x))
         /\ (o.kind = "update" /\ x \in Clean => OfUpdate(o, x))
         /\ o.kind \in {"install", "uninstall", "update"} /\ (o.kind # "install" => o.old \in Versions) /\ (o.kind # "uninstall" => o.ver \in Versions)
<1>1. MkTypes /\ MkShaped(o) /\ o \in MkOps /\ x \in Refs /\ Nil \notin Versions /\ (x \in Clean => Course(o, x))
  BY Here
<1>2. o.kind \in {"install", "uninstall", "update"} /\ (o.kind # "install" => o.old \in Versions) /\ (o.kind # "uninstall" => o.ver \in Versions)
  BY <1>1 DEF MkShaped, MkOps
<1> QED BY <1>1, <1>2 DEF MkTypes, Course

LEMMA SaveDoes == ASSUME MkInv, NEW w \in Workers, Save(w) PROVE MkInv'
<1>0. op[w] # Idle /\ op[w].at = "save" /\ UNCHANGED <<mkLock, site, mkManifest, live, mkRow, mkTold, escalated, cut, budget>>
  BY DEF Save
<1>1. PICK x, o : x = op[w].ref /\ o = op[w]
  OBVIOUS
<1>2. /\ MkTypes /\ MkData /\ MkShaped(o) /\ o \in MkOps /\ x \in Refs /\ Nil \notin Versions /\ Clean' = Clean
      /\ (o.kind = "install" /\ x \in Clean => OfInstall(o, x)) /\ (o.kind = "update" /\ x \in Clean => OfUpdate(o, x))
      /\ o.kind \in {"install", "update"} /\ o.at = "save"
  <2>1. o.kind # "uninstall"
    BY <1>0, <1>1, AtStep DEF MkShaped
  <2> QED BY <1>0, <1>1, <2>1, AtStep DEF Clean
<1>3. PICK m \in Manifests : m = mkManifest
  BY <1>2 DEF MkData
<1>4. PICK p : p = [o EXCEPT !.at = "apply", !.saved = m]
  OBVIOUS
<1>5. p \in MkOps /\ p.at = "apply" /\ p.saved = m /\ p.kind = o.kind /\ p.ref = o.ref /\ p.ver = o.ver /\ p.old = o.old /\ m # Nil
  BY <1>2, <1>4, MarketConstants DEF MkOps, MkSteps
<1>6. op' = [op EXCEPT ![w] = p]
  BY <1>1, <1>3, <1>4 DEF Save
<1>7. MkShaped(p)
  BY <1>2, <1>5 DEF MkShaped
<1>8. ASSUME x \in Clean PROVE Course(p, x)
  <2>1. CASE o.kind = "install"
    BY <1>2, <1>3, <1>5, <1>8, <2>1 DEF Course, OfInstall
  <2>2. CASE o.kind = "update"
    BY <1>2, <1>3, <1>5, <1>8, <2>2 DEF Course, OfUpdate
  <2> QED BY <1>2, <2>1, <2>2
<1>9. Course(p, x)' = Course(p, x)
  BY <1>0 DEF Course, OfInstall, OfUninstall, OfUpdate, Settled, Fits, Installed, InEnvironment, Bare
<1>10. KeepsOthers(w)
  BY <1>0, StillKeeps
<1> QED BY <1>0, <1>1, <1>2, <1>3, <1>5, <1>6, <1>7, <1>8, <1>9, <1>10, GoKeeps

\* A failed change or reload; the manifest was persisted unless the change itself was refused.
LEMMA UnwindKeeps ==
  ASSUME MkInv, NEW w \in Workers, op[w] # Idle, NEW persisted \in BOOLEAN, Unwind(w, persisted),
         UNCHANGED <<site, mkManifest, mkTold, escalated, cut>>, UNCHANGED budget \/ Spend("faults"),
         UNCHANGED mkRow \/ mkRow' \in [Refs -> Versions \cup {Nil}], live' \in (IF persisted THEN {live, mkManifest} ELSE {live}),
         op[w].kind # "uninstall", IF persisted THEN op[w].at \in {"reload", "record"} ELSE op[w].at = "apply"
  PROVE  MkInv'
<1>1. PICK x, o : x = op[w].ref /\ o = op[w]
  OBVIOUS
<1>2. /\ MkTypes /\ MkData /\ MkShaped(o) /\ o \in MkOps /\ x \in Refs /\ Nil \notin Versions /\ Clean' = Clean
      /\ (o.kind = "install" /\ x \in Clean => OfInstall(o, x)) /\ (o.kind = "update" /\ x \in Clean => OfUpdate(o, x))
      /\ o.kind \in {"install", "update"} /\ o.saved \in Manifests \cup {Nil} /\ o.saved # Nil
  <2>1. /\ MkTypes /\ MkData /\ MkShaped(o) /\ o \in MkOps /\ x \in Refs /\ Nil \notin Versions /\ o.kind \in {"install", "update"}
        /\ (o.kind = "install" /\ x \in Clean => OfInstall(o, x)) /\ (o.kind = "update" /\ x \in Clean => OfUpdate(o, x))
    BY <1>1, AtStep
  <2> QED BY <1>1, <2>1 DEF MkShaped, MkOps, Clean
<1>3. PICK at \in {"restore", "remove", "unwindNew", "unwindPip"} :
         at = IF o.kind = "install" THEN (IF persisted THEN "restore" ELSE "remove")
              ELSE IF budget.prefixed THEN "unwindNew" ELSE "unwindPip"
  OBVIOUS
<1>4. PICK saved \in Manifests \cup {Nil} : saved = IF persisted THEN o.saved ELSE Nil
  BY <1>2
<1>5. PICK p : p = [o EXCEPT !.saved = saved, !.at = at]
  OBVIOUS
<1>6. p \in MkOps /\ p.at = at /\ p.saved = saved /\ p.kind = o.kind /\ p.ref = o.ref /\ p.ver = o.ver /\ p.old = o.old
  BY <1>2, <1>5 DEF MkOps, MkSteps
<1>7. op' = [op EXCEPT ![w] = p] /\ UNCHANGED mkLock
  BY <1>1, <1>3, <1>4, <1>5 DEF Unwind
<1>8. MkShaped(p)
  BY <1>1, <1>2, <1>3, <1>4, <1>6 DEF MkShaped
<1>9. KeepsOthers(w) /\ SameDeployment
  BY StillKeeps
<1>10. ASSUME x \in Clean' PROVE Course(p, x)'
  <2>1. CASE o.kind = "install"
    <3>1. /\ mkTold[x] = Nil /\ budget.env[x] \in {Nil, p.ver}
          /\ (persisted => at = "restore" /\ ~Carries(p.saved, x))
          /\ (~persisted => at = "remove" /\ ~Carries(mkManifest, x) /\ ~Carries(live, x))
      BY <1>1, <1>2, <1>3, <1>4, <1>6, <1>10, <2>1 DEF OfInstall
    <3>2. (/\ mkTold[x] = Nil /\ budget.env[x] \in {Nil, p.ver}
           /\ (persisted => at = "restore" /\ ~Carries(p.saved, x))
           /\ (~persisted => at = "remove" /\ ~Carries(mkManifest, x) /\ ~Carries(live, x)))'
      BY <1>9, <3>1 DEF SameDeployment
    <3>3. OfInstall(p, x)'
      BY <1>6, <3>2 DEF OfInstall
    <3> QED BY <1>3, <1>6, <2>1, <3>3 DEF Course
  <2>2. CASE o.kind = "update"
    <3>1. mkTold[x] = p.old /\ budget.env[x] = Nil /\ Wires(IF p.saved = Nil THEN mkManifest ELSE p.saved, x, p.old)
      BY <1>1, <1>2, <1>4, <1>6, <1>10, <2>2 DEF OfUpdate
    <3>2. (mkTold[x] = p.old /\ budget.env[x] = Nil /\ Wires(IF p.saved = Nil THEN mkManifest ELSE p.saved, x, p.old))'
      BY <1>9, <3>1 DEF SameDeployment
    <3>3. p.at \in {"unwindNew", "unwindPip"}
      BY <1>3, <1>6, <2>2
    <3>5. (p.saved = Nil => (Bare(x, p.old) => ~Carries(live, x)))'
      BY <1>1, <1>2, <1>4, <1>6, <1>10, <2>2 DEF OfUpdate, Bare
    <3>4. OfUpdate(p, x)'
      BY <3>2, <3>3, <3>5 DEF OfUpdate
    <3> QED BY <1>6, <2>2, <3>3, <3>4 DEF Course
  <2> QED BY <1>2, <2>1, <2>2
<1> QED BY <1>1, <1>2, <1>4, <1>6, <1>7, <1>8, <1>9, <1>10, GoKeeps

LEMMA MkApplyDoes == ASSUME MkInv, NEW w \in Workers, MkApply(w) PROVE MkInv'
<1>0. op[w] # Idle /\ op[w].at = "apply" /\ UNCHANGED <<site, live, mkRow, mkTold, escalated, cut, budget>>
  BY DEF MkApply
<1>1. PICK x, o : x = op[w].ref /\ o = op[w]
  OBVIOUS
<1>2. /\ MkTypes /\ MkData /\ MkShaped(o) /\ o \in MkOps /\ x \in Refs /\ Nil \notin Versions
      /\ (o.kind = "install" /\ x \in Clean => OfInstall(o, x)) /\ (o.kind = "uninstall" /\ x \in Clean => OfUninstall(o, x))
      /\ (o.kind = "update" /\ x \in Clean => OfUpdate(o, x))
      /\ o.kind \in {"install", "uninstall", "update"} /\ (o.kind # "install" => o.old \in Versions) /\ (o.kind # "uninstall" => o.ver \in Versions)
  BY <1>0, <1>1, AtStep
<1>3. (o.old = Nil <=> o.kind = "install") /\ (o.kind # "uninstall" => o.saved # Nil) /\ Clean' = Clean
  BY <1>0, <1>1, <1>2 DEF MkShaped, Clean
<1>4. PICK m : m = Stripped(o)
  OBVIOUS
<1>5. m \in Manifests /\ (\A q \in Refs : Thins(m, mkManifest, q)) /\ (x \in Clean => ~Carries(m, x))
  <2>1. CASE o.kind = "install"
    <3>1. m = mkManifest
      BY <1>3, <1>4, <2>1 DEF Stripped
    <3> QED BY <1>0, <1>1, <1>2, <2>1, <3>1 DEF MkData, Thins, OfInstall
  <2>2. CASE o.kind # "install"
    <3>1. m = Removed(mkManifest, Provides[x][o.old]) /\ mkManifest \in Manifests
      BY <1>1, <1>2, <1>3, <1>4, <2>2 DEF Stripped, MkData
    <3>2. x \in Clean => Wires(mkManifest, x, o.old)
      BY <1>0, <1>1, <1>2, <2>2 DEF OfUninstall, OfUpdate, Settled, Fits, FitsAs
    <3> QED BY <1>2, <2>2, <3>1, <3>2, RemovedIs
  <2> QED BY <2>1, <2>2
<1>6. ASSUME NEW n \in Manifests, mkManifest' = n, \A q \in Refs \ {x} : Thins(n, mkManifest, q) PROVE KeepsOthers(w)
  BY <1>0, <1>1, <1>2, <1>6 DEF KeepsOthers, MkData, Elsewhere, SameDeployment
<1>7. CASE o.kind = "uninstall"
  <2>0. mkManifest' = m /\ Go(w, IF DOMAIN Provides[x][o.old] = {} THEN "remove" ELSE "reload") /\ UNCHANGED mkLock
    BY <1>1, <1>4, <1>7 DEF MkApply
  <2>1. PICK at \in {"remove", "reload"} : at = (IF DOMAIN Provides[x][o.old] = {} THEN "remove" ELSE "reload") /\ Go(w, at)
    BY <2>0
  <2>2. KeepsOthers(w)
    BY <1>5, <1>6, <2>0
  <2>3. ASSUME NEW p \in MkOps, p.at = at, p.old = o.old, x \in Clean' PROVE OfUninstall(p, x)'
    <3>1. mkTold[x] = o.old /\ Installed(x) \in {Nil, o.old} /\ budget.env[x] \in {Nil, o.old}
      BY <1>2, <1>3, <1>7, <2>3 DEF OfUninstall
    <3>2. Installed(x)' = Installed(x)
      BY <1>0 DEF Installed, InEnvironment
    <3>3. (mkTold[x] = p.old /\ Installed(x) \in {Nil, p.old} /\ budget.env[x] \in {Nil, p.old} /\ ~Carries(mkManifest, x))'
      BY <1>0, <1>3, <1>5, <2>0, <2>3, <3>1, <3>2
    <3>4. (at = "reload" => ~Bare(x, p.old)) /\ (at = "remove" => ~Carries(live', x))
      BY <1>0, <1>1, <1>2, <1>3, <1>7, <2>1, <2>3 DEF OfUninstall, Settled, Bare, MkShaped
    <3>5. ((at = "reload" => ~Bare(x, p.old)) /\ (at = "remove" => ~Carries(live, x)))'
      BY <3>4 DEF Bare
    <3> QED BY <2>1, <2>3, <3>3, <3>5 DEF OfUninstall
  <2> QED BY <1>0, <1>1, <1>7, <2>0, <2>1, <2>2, <2>3, AdvanceKeeps DEF MkSteps
<1>8. CASE o.kind # "uninstall" /\ MkCollides(m, Provides[x][o.ver])
  <2>1. Unwind(w, FALSE) /\ UNCHANGED mkManifest
    BY <1>1, <1>4, <1>8 DEF MkApply
  <2>2. PICK b \in BOOLEAN : b = FALSE
    OBVIOUS
  <2>3. Unwind(w, b) /\ ~b
    BY <2>1, <2>2
  <2> QED BY <1>0, <1>1, <1>8, <2>1, <2>3, UnwindKeeps
<1>9. CASE o.kind # "uninstall" /\ ~MkCollides(m, Provides[x][o.ver])
  <2>1. mkManifest' = Added(m, Provides[x][o.ver]) /\ Go(w, "reload") /\ UNCHANGED mkLock
    BY <1>1, <1>4, <1>9 DEF MkApply
  <2>2. PICK n : n = Added(m, Provides[x][o.ver])
    OBVIOUS
  <2>3. n \in Manifests /\ (\A q \in Refs \ {x} : Thins(n, m, q)) /\ (x \in Clean => Wires(n, x, o.ver))
    BY <1>2, <1>5, <1>9, <2>2, AddedIs
  <2>4. \A q \in Refs \ {x} : Thins(n, mkManifest, q)
    BY <1>5, <2>3 DEF Thins
  <2>5. KeepsOthers(w)
    BY <1>6, <2>1, <2>2, <2>3, <2>4
  <2>6. ASSUME NEW p \in MkOps, p.at = "reload", p.kind = o.kind, p.ver = o.ver, p.old = o.old, p.saved = o.saved, x \in Clean'
        PROVE  (p.kind = "install" => OfInstall(p, x)') /\ (p.kind = "update" => OfUpdate(p, x)')
    <3>1. ASSUME p.kind = "install" PROVE OfInstall(p, x)'
      <4>1. mkTold[x] = Nil /\ budget.env[x] \in {Nil, o.ver} /\ Installed(x) = o.ver /\ ~Carries(o.saved, x)
        BY <1>0, <1>1, <1>2, <1>3, <2>6, <3>1 DEF OfInstall
      <4>2. Installed(x)' = Installed(x)
        BY <1>0 DEF Installed, InEnvironment
      <4>3. (mkTold[x] = Nil /\ budget.env[x] \in {Nil, p.ver} /\ Installed(x) = p.ver /\ ~Carries(p.saved, x) /\ Wires(mkManifest, x, p.ver))'
        BY <1>0, <1>3, <2>1, <2>2, <2>3, <2>6, <4>1, <4>2
      <4> QED BY <2>6, <4>3 DEF OfInstall
    <3>2. ASSUME p.kind = "update" PROVE OfUpdate(p, x)'
      <4>1. mkTold[x] = o.old /\ budget.env[x] = Nil /\ site[x] = o.ver /\ Wires(o.saved, x, o.old)
        BY <1>0, <1>1, <1>2, <1>3, <2>6, <3>2 DEF OfUpdate
      <4>2. (mkTold[x] = p.old /\ budget.env[x] = Nil /\ site[x] = p.ver /\ Wires(p.saved, x, p.old) /\ Wires(mkManifest, x, p.ver))'
        BY <1>0, <1>3, <2>1, <2>2, <2>3, <2>6, <4>1
      <4> QED BY <2>6, <4>2 DEF OfUpdate
    <3> QED BY <3>1, <3>2
  <2> QED BY <1>0, <1>1, <1>2, <1>3, <1>9, <2>1, <2>5, <2>6, AdvanceKeeps DEF MkSteps
<1> QED BY <1>7, <1>8, <1>9

LEMMA ReloadDoes == ASSUME MkInv, NEW w \in Workers, Reload(w) PROVE MkInv'
<1>0. op[w] # Idle /\ op[w].at = "reload" /\ UNCHANGED <<site, mkManifest, mkRow, mkTold, escalated, cut>>
  BY DEF Reload
<1>1. PICK x, o : x = op[w].ref /\ o = op[w]
  OBVIOUS
<1>2. /\ MkTypes /\ MkShaped(o) /\ o \in MkOps /\ x \in Refs /\ Nil \notin Versions
      /\ (o.kind = "install" /\ x \in Clean => OfInstall(o, x)) /\ (o.kind = "uninstall" /\ x \in Clean => OfUninstall(o, x))
      /\ (o.kind = "update" /\ x \in Clean => OfUpdate(o, x))
      /\ o.kind \in {"install", "uninstall", "update"} /\ (o.kind # "install" => o.old \in Versions) /\ (o.kind # "uninstall" => o.ver \in Versions)
  BY <1>0, <1>1, AtStep
<1>3. (o.kind # "uninstall" => o.saved # Nil) /\ Clean' = Clean
  BY <1>0, <1>1, <1>2 DEF MkShaped, Clean
<1>4. CASE live' = mkManifest /\ UNCHANGED <<mkLock, budget>> /\ Go(w, IF o.kind = "uninstall" THEN "remove" ELSE "record")
  <2>1. KeepsOthers(w)
    BY <1>0, <1>4, StillKeeps
  <2>2. PICK at \in {"remove", "record"} : at = IF o.kind = "uninstall" THEN "remove" ELSE "record"
    OBVIOUS
  <2>3. Go(w, at) /\ at \in MkSteps
    BY <1>4, <2>2 DEF MkSteps
  <2>4. ASSUME NEW p \in MkOps, p.at = at, p.kind = o.kind, p.ver = o.ver, p.old = o.old, p.saved = o.saved, x \in Clean'
        PROVE  /\ p.kind = "install" => OfInstall(p, x)'
               /\ p.kind = "uninstall" => OfUninstall(p, x)'
               /\ p.kind = "update" => OfUpdate(p, x)'
    <3>0. Installed(x)' = Installed(x)
      BY <1>0, <1>4 DEF Installed, InEnvironment
    <3>1. ASSUME p.kind = "install" PROVE OfInstall(p, x)'
      <4>1. mkTold[x] = Nil /\ budget.env[x] \in {Nil, p.ver} /\ Installed(x) = p.ver /\ ~Carries(p.saved, x) /\ Wires(mkManifest, x, p.ver) /\ p.at = "record"
        BY <1>0, <1>1, <1>2, <1>3, <2>2, <2>4, <3>1 DEF OfInstall
      <4>2. (mkTold[x] = Nil /\ budget.env[x] \in {Nil, p.ver} /\ Installed(x) = p.ver /\ ~Carries(p.saved, x) /\ Wires(mkManifest, x, p.ver) /\ p.at = "record")'
        BY <1>0, <1>4, <3>0, <4>1
      <4>3. (Bare(x, p.ver) => ~Carries(live, x))'
        <5>1. Bare(x, p.ver) => ~Carries(mkManifest, x)
          BY <1>2, <2>4, <3>1, <4>1, BareCarries
        <5> QED BY <1>0, <1>4, <5>1 DEF Bare
      <4> QED BY <4>2, <4>3 DEF OfInstall
    <3>2. ASSUME p.kind = "update" PROVE OfUpdate(p, x)'
      <4>1. mkTold[x] = p.old /\ budget.env[x] = Nil /\ site[x] = p.ver /\ Wires(p.saved, x, p.old) /\ Wires(mkManifest, x, p.ver) /\ p.at = "record"
        BY <1>0, <1>1, <1>2, <1>3, <2>2, <2>4, <3>2 DEF OfUpdate
      <4>2. (mkTold[x] = p.old /\ budget.env[x] = Nil /\ site[x] = p.ver /\ Wires(p.saved, x, p.old) /\ Wires(mkManifest, x, p.ver) /\ p.at = "record")'
        BY <1>0, <1>4, <4>1
      <4>3. (Bare(x, p.ver) => ~Carries(live, x))'
        <5>1. Bare(x, p.ver) => ~Carries(mkManifest, x)
          BY <1>2, <2>4, <3>2, <4>1, BareCarries
        <5> QED BY <1>0, <1>4, <5>1 DEF Bare
      <4> QED BY <4>2, <4>3 DEF OfUpdate
    <3>3. ASSUME p.kind = "uninstall" PROVE OfUninstall(p, x)'
      <4>1. mkTold[x] = p.old /\ Installed(x) \in {Nil, p.old} /\ budget.env[x] \in {Nil, p.old} /\ ~Carries(mkManifest, x) /\ p.at = "remove"
        BY <1>0, <1>1, <1>2, <1>3, <2>2, <2>4, <3>3 DEF OfUninstall
      <4>2. (mkTold[x] = p.old /\ Installed(x) \in {Nil, p.old} /\ budget.env[x] \in {Nil, p.old} /\ ~Carries(mkManifest, x) /\ ~Carries(live, x) /\ p.at = "remove")'
        BY <1>0, <1>4, <3>0, <4>1
      <4> QED BY <4>2 DEF OfUninstall
    <3> QED BY <3>1, <3>2, <3>3
  <2> QED BY <1>0, <1>1, <1>2, <1>3, <1>4, <2>1, <2>2, <2>3, <2>4, AdvanceKeeps
<1>5. CASE (UNCHANGED budget \/ Spend("faults")) /\ live' \in {live, mkManifest} /\ o.kind = "uninstall" /\ Finish(w)
  <2>1. KeepsOthers(w) /\ SameDeployment
    BY <1>0, <1>5, StillKeeps
  <2>2. ASSUME x \in Clean' PROVE Settled(x)'
    <3>1. mkTold[x] = o.old /\ Installed(x) \in {Nil, o.old} /\ budget.env[x] \in {Nil, o.old} /\ ~Carries(mkManifest, x) /\ o.old # Nil
      BY <1>0, <1>1, <1>2, <1>3, <1>5, <2>2 DEF OfUninstall
    <3>2. Wires(mkManifest, x, o.old)
      BY <3>1, BareWires
    <3>3. Installed(x)' = Installed(x)
      BY <1>0, <2>1, InstalledSame
    <3>4. (mkTold[x] = o.old /\ Installed(x) \in {Nil, o.old} /\ budget.env[x] \in {Nil, o.old} /\ ~Carries(mkManifest, x) /\ o.old # Nil /\ Wires(mkManifest, x, o.old))'
      BY <1>0, <2>1, <3>1, <3>2, <3>3, BareWires DEF SameDeployment
    <3>5. ~Bare(x, o.old)'
      BY <1>0, <1>1, <1>2, <1>3, <1>5, <2>2 DEF OfUninstall, Bare
    <3> QED BY <3>4, <3>5 DEF Settled, Fits, FitsAs
  <2> QED BY <1>0, <1>1, <1>5, <2>1, <2>2, FinishKeeps
<1>6. CASE (UNCHANGED budget \/ Spend("faults")) /\ live' \in {live, mkManifest} /\ o.kind # "uninstall" /\ Unwind(w, TRUE)
  <2>1. PICK b \in BOOLEAN : b = TRUE
    OBVIOUS
  <2>2. Unwind(w, b) /\ b
    BY <1>6, <2>1
  <2> QED BY <1>0, <1>1, <1>6, <2>2, UnwindKeeps
<1>7. ReloadFails => (UNCHANGED budget \/ Spend("faults")) /\ live' \in {live, mkManifest}
  BY DEF ReloadFails, Fault
<1> QED BY <1>1, <1>4, <1>5, <1>6, <1>7 DEF Reload

LEMMA RecordDoes == ASSUME MkInv, NEW w \in Workers, Record(w) PROVE MkInv'
<1>0. op[w] # Idle /\ op[w].at = "record" /\ UNCHANGED <<site, mkManifest, live, escalated, cut>>
  BY DEF Record
<1>1. PICK x, o : x = op[w].ref /\ o = op[w]
  OBVIOUS
<1>2. /\ MkTypes /\ MkData /\ MkShaped(o) /\ o \in MkOps /\ x \in Refs /\ Nil \notin Versions /\ Clean' = Clean
      /\ (o.kind = "install" /\ x \in Clean => OfInstall(o, x)) /\ (o.kind = "update" /\ x \in Clean => OfUpdate(o, x))
      /\ o.kind \in {"install", "update"} /\ o.ver \in Versions
  <2>1. MkShaped(o) /\ o.kind # "uninstall"
    BY <1>0, <1>1, AtStep DEF MkShaped
  <2> QED BY <1>0, <1>1, <2>1, AtStep DEF Clean
<1>3. CASE mkRow' = Upserted(x, o.ver) /\ mkTold' = [mkTold EXCEPT ![x] = o.ver] /\ Finish(w) /\ UNCHANGED budget
  <2>1. mkTold' \in [Refs -> Versions \cup {Nil}] /\ mkTold'[x] = o.ver /\ Elsewhere(x)
    BY <1>0, <1>2, <1>3, ToldIs DEF Elsewhere
  <2>2. KeepsOthers(w)
    <3>1. mkRow' \in [Refs -> Versions \cup {Nil}]
      BY <1>2, <1>3, RowIs DEF Upserted
    <3> QED BY <1>0, <1>1, <1>2, <1>3, <2>1, <3>1, OwnKeeps DEF MkData
  <2>3. ASSUME x \in Clean' PROVE Settled(x)'
    <3>1. Installed(x) = o.ver /\ budget.env[x] \in {Nil, o.ver} /\ Wires(mkManifest, x, o.ver)
      BY <1>0, <1>1, <1>2, <2>3 DEF OfInstall, OfUpdate, Installed, InEnvironment
    <3>2. Installed(x)' = Installed(x)
      BY <1>0, <1>3 DEF Installed, InEnvironment
    <3>3. (mkTold[x] = o.ver /\ Installed(x) = o.ver /\ budget.env[x] \in {Nil, o.ver} /\ Wires(mkManifest, x, o.ver))'
      BY <1>0, <1>3, <2>1, <3>1, <3>2
    <3>4. (Bare(x, o.ver) => ~Carries(live, x))'
      BY <1>0, <1>1, <1>2, <2>3 DEF OfInstall, OfUpdate, Bare
    <3> QED BY <1>2, <3>3, <3>4 DEF Settled, Fits, FitsAs
  <2> QED BY <1>0, <1>1, <1>3, <2>2, <2>3, FinishKeeps
<1>4. CASE Fault /\ Unwind(w, TRUE) /\ mkRow' \in {mkRow, Upserted(x, o.ver)} /\ UNCHANGED mkTold
  <2>1. PICK b \in BOOLEAN : b = TRUE
    OBVIOUS
  <2>2. Unwind(w, b) /\ b /\ Spend("faults")
    BY <1>4, <2>1 DEF Fault
  <2>3. mkRow' \in [Refs -> Versions \cup {Nil}]
    BY <1>2, <1>4, RowIs DEF Upserted, MkData
  <2> QED BY <1>0, <1>1, <1>2, <1>4, <2>2, <2>3, UnwindKeeps
<1> QED BY <1>1, <1>3, <1>4 DEF Record

LEMMA UnwindNewDoes == ASSUME MkInv, NEW w \in Workers, UnwindNew(w) PROVE MkInv'
<1>0. op[w] # Idle /\ op[w].at = "unwindNew" /\ UNCHANGED <<mkManifest, live, mkRow, mkTold, cut>>
  BY DEF UnwindNew
<1>1. PICK x, o : x = op[w].ref /\ o = op[w]
  OBVIOUS
<1>2. /\ MkTypes /\ MkData /\ MkShaped(o) /\ o \in MkOps /\ x \in Refs /\ Nil \notin Versions
      /\ (x \in Clean => OfUpdate(o, x)) /\ o.kind = "update"
  <2>1. MkShaped(o) /\ o.kind = "update"
    BY <1>0, <1>1, AtStep DEF MkShaped
  <2> QED BY <1>0, <1>1, <2>1, AtStep
<1>3. CASE OutOfPrefix(x) /\ Go(w, "unwindPip") /\ UNCHANGED <<mkLock, escalated, budget>>
  <2>1. site' \in [Refs -> Versions \cup {Nil}] /\ Elsewhere(x)
    BY <1>0, <1>2, <1>3, SiteIs DEF OutOfPrefix, Elsewhere
  <2>2. KeepsOthers(w)
    BY <1>0, <1>1, <1>2, <1>3, <2>1, OwnKeeps DEF MkData
  <2>3. ASSUME NEW p \in MkOps, p.at = "unwindPip", p.kind = o.kind, p.ver = o.ver, p.old = o.old, p.saved = o.saved, x \in Clean'
        PROVE  OfUpdate(p, x)'
    <3>1. mkTold[x] = p.old /\ budget.env[x] = Nil /\ Wires(IF p.saved = Nil THEN mkManifest ELSE p.saved, x, p.old)
      BY <1>0, <1>1, <1>2, <1>3, <2>3 DEF OfUpdate, Clean
    <3>2. (mkTold[x] = p.old /\ budget.env[x] = Nil /\ Wires(IF p.saved = Nil THEN mkManifest ELSE p.saved, x, p.old))'
      BY <1>0, <1>3, <3>1
    <3>3. (p.saved = Nil => (Bare(x, p.old) => ~Carries(live, x)))'
      BY <1>0, <1>1, <1>2, <1>3, <2>3 DEF OfUpdate, Clean, Bare
    <3> QED BY <2>3, <3>2, <3>3 DEF OfUpdate
  <2> QED BY <1>0, <1>1, <1>2, <1>3, <2>2, <2>3, AdvanceKeeps DEF MkSteps
<1>4. CASE (UNCHANGED budget \/ Spend("faults")) /\ Escalate(w) /\ site' \in {site, [site EXCEPT ![x] = Nil]}
  BY <1>0, <1>1, <1>4, EscalateKeeps
<1>5. HalfOutOfPrefix(x) => Spend("faults") /\ site' \in {site, [site EXCEPT ![x] = Nil]}
  BY DEF HalfOutOfPrefix, Fault
<1> QED BY <1>1, <1>3, <1>4, <1>5 DEF UnwindNew

LEMMA UnwindPipDoes == ASSUME MkInv, NEW w \in Workers, UnwindPip(w) PROVE MkInv'
<1>0. op[w] # Idle /\ op[w].at = "unwindPip" /\ UNCHANGED <<mkManifest, live, mkRow, mkTold, cut>>
  BY DEF UnwindPip
<1>1. PICK x, o : x = op[w].ref /\ o = op[w]
  OBVIOUS
<1>2. /\ MkTypes /\ MkData /\ MkShaped(o) /\ o \in MkOps /\ x \in Refs /\ Nil \notin Versions
      /\ (x \in Clean => OfUpdate(o, x)) /\ o.kind = "update" /\ o.old \in Versions
  <2>1. MkShaped(o) /\ o.kind = "update"
    BY <1>0, <1>1, AtStep DEF MkShaped
  <2> QED BY <1>0, <1>1, <2>1, AtStep
<1>3. CASE /\ Pip(x, o.old) /\ UNCHANGED <<escalated, budget>>
           /\ IF o.saved = Nil THEN Finish(w) ELSE Go(w, "restore") /\ UNCHANGED mkLock
  <2>1. site' \in [Refs -> Versions \cup {Nil}] /\ Elsewhere(x) /\ (budget.env[x] = Nil => site'[x] = o.old)
    BY <1>0, <1>2, <1>3, PipIs
  <2>2. KeepsOthers(w)
    BY <1>0, <1>1, <1>2, <1>3, <2>1, OwnKeeps DEF MkData
  <2>3. ASSUME x \in Clean'
        PROVE (mkTold[x] = o.old /\ budget.env[x] = Nil /\ site[x] = o.old /\ Wires(IF o.saved = Nil THEN mkManifest ELSE o.saved, x, o.old))'
    <3>1. mkTold[x] = o.old /\ budget.env[x] = Nil /\ Wires(IF o.saved = Nil THEN mkManifest ELSE o.saved, x, o.old)
      BY <1>0, <1>1, <1>2, <1>3, <2>3 DEF OfUpdate, Clean
    <3> QED BY <1>0, <1>3, <2>1, <3>1
  <2>4. CASE o.saved = Nil /\ Finish(w)
    <3>0. x \in Clean' => (Bare(x, o.old) => ~Carries(live, x))'
      BY <1>0, <1>1, <1>2, <1>3, <2>4 DEF OfUpdate, Clean, Bare
    <3>1. x \in Clean' => Settled(x)'
      BY <1>2, <2>3, <2>4, <3>0 DEF Settled, Fits, FitsAs, Installed, InEnvironment
    <3> QED BY <1>0, <1>1, <2>2, <2>4, <3>1, FinishKeeps
  <2>5. CASE o.saved # Nil /\ Go(w, "restore") /\ UNCHANGED mkLock
    <3>1. ASSUME NEW p \in MkOps, p.at = "restore", p.kind = o.kind, p.ver = o.ver, p.old = o.old, p.saved = o.saved, x \in Clean'
          PROVE  OfUpdate(p, x)'
      <4>1. (mkTold[x] = p.old /\ budget.env[x] = Nil /\ site[x] = p.old /\ Wires(p.saved, x, p.old))'
        BY <2>3, <2>5, <3>1
      <4> QED BY <3>1, <4>1 DEF OfUpdate
    <3> QED BY <1>0, <1>1, <1>2, <2>2, <2>5, <3>1, AdvanceKeeps DEF MkSteps
  <2> QED BY <1>3, <2>4, <2>5
<1>4. CASE PipFails /\ Escalate(w)
  BY <1>0, <1>4, EscalateKeeps DEF PipFails, Fault
<1> QED BY <1>1, <1>3, <1>4 DEF UnwindPip

LEMMA RestoreDoes == ASSUME MkInv, NEW w \in Workers, Restore(w) PROVE MkInv'
<1>0. /\ op[w] # Idle /\ op[w].at = "restore" /\ mkManifest' = op[w].saved /\ Go(w, "rereload")
      /\ UNCHANGED <<mkLock, site, live, mkRow, mkTold, escalated, cut, budget>>
  BY DEF Restore
<1>1. PICK x, o : x = op[w].ref /\ o = op[w]
  OBVIOUS
<1>2. /\ MkTypes /\ MkData /\ MkShaped(o) /\ o \in MkOps /\ x \in Refs /\ Nil \notin Versions /\ Clean' = Clean
      /\ (o.kind = "install" /\ x \in Clean => OfInstall(o, x)) /\ (o.kind = "update" /\ x \in Clean => OfUpdate(o, x))
      /\ o.kind \in {"install", "update"} /\ o.saved \in Manifests
  <2>1. MkShaped(o) /\ o \in MkOps
    BY <1>0, <1>1, AtStep
  <2>2. o.kind # "uninstall" /\ o.saved \in Manifests
    BY <1>0, <1>1, <2>1 DEF MkShaped, MkOps
  <2> QED BY <1>0, <1>1, <2>2, AtStep DEF Clean
<1>3. KeepsOthers(w)
  <2>1. o.saved # Nil
    BY <1>2, MarketConstants
  <2> QED BY <1>0, <1>1, <1>2, <2>1 DEF KeepsOthers, MkData, Elsewhere, SameDeployment
<1>4. ASSUME NEW p \in MkOps, p.at = "rereload", p.kind = o.kind, p.ver = o.ver, p.old = o.old, p.saved = o.saved, x \in Clean'
      PROVE  (p.kind = "install" => OfInstall(p, x)') /\ (p.kind = "update" => OfUpdate(p, x)')
  <2>1. ASSUME p.kind = "install" PROVE OfInstall(p, x)'
    <3>1. mkTold[x] = Nil /\ budget.env[x] \in {Nil, p.ver} /\ ~Carries(o.saved, x)
      BY <1>0, <1>1, <1>2, <1>4, <2>1 DEF OfInstall
    <3>2. (mkTold[x] = Nil /\ budget.env[x] \in {Nil, p.ver} /\ ~Carries(mkManifest, x))'
      BY <1>0, <1>1, <3>1
    <3> QED BY <1>4, <3>2 DEF OfInstall
  <2>2. ASSUME p.kind = "update" PROVE OfUpdate(p, x)'
    <3>1. mkTold[x] = p.old /\ budget.env[x] = Nil /\ site[x] = p.old /\ Wires(o.saved, x, p.old)
      BY <1>0, <1>1, <1>2, <1>4, <2>2 DEF OfUpdate
    <3>2. (mkTold[x] = p.old /\ budget.env[x] = Nil /\ site[x] = p.old /\ Wires(mkManifest, x, p.old))'
      BY <1>0, <1>1, <3>1
    <3> QED BY <1>4, <3>2 DEF OfUpdate
  <2> QED BY <2>1, <2>2
<1>5. o.saved # Nil
  BY <1>2, MarketConstants
<1> QED BY <1>0, <1>1, <1>2, <1>3, <1>4, <1>5, AdvanceKeeps DEF MkSteps

LEMMA RereloadDoes == ASSUME MkInv, NEW w \in Workers, Rereload(w) PROVE MkInv'
<1>0. op[w] # Idle /\ op[w].at = "rereload" /\ UNCHANGED <<site, mkManifest, mkRow, mkTold, cut>>
  BY DEF Rereload
<1>1. PICK x, o : x = op[w].ref /\ o = op[w]
  OBVIOUS
<1>2. /\ MkTypes /\ MkData /\ MkShaped(o) /\ o \in MkOps /\ x \in Refs /\ Nil \notin Versions
      /\ (o.kind = "install" /\ x \in Clean => OfInstall(o, x)) /\ (o.kind = "update" /\ x \in Clean => OfUpdate(o, x))
      /\ o.kind \in {"install", "update"} /\ (o.kind = "update" => o.old \in Versions)
  <2>1. MkShaped(o) /\ o.kind # "uninstall"
    BY <1>0, <1>1, AtStep DEF MkShaped
  <2> QED BY <1>0, <1>1, <2>1, AtStep
<1>3. CASE live' = mkManifest /\ UNCHANGED <<escalated, budget>> /\ o.kind = "install" /\ Go(w, "remove") /\ UNCHANGED mkLock
  <2>1. KeepsOthers(w)
    BY <1>0, <1>3, StillKeeps
  <2>2. ASSUME NEW p \in MkOps, p.at = "remove", p.kind = o.kind, p.ver = o.ver, x \in Clean' PROVE OfInstall(p, x)'
    <3>1. mkTold[x] = Nil /\ budget.env[x] \in {Nil, p.ver} /\ ~Carries(mkManifest, x)
      BY <1>0, <1>1, <1>2, <1>3, <2>2 DEF OfInstall, Clean
    <3>2. (mkTold[x] = Nil /\ budget.env[x] \in {Nil, p.ver} /\ ~Carries(mkManifest, x) /\ ~Carries(live, x))'
      BY <1>0, <1>3, <3>1
    <3> QED BY <2>2, <3>2 DEF OfInstall
  <2> QED BY <1>0, <1>1, <1>3, <2>1, <2>2, AdvanceKeeps DEF MkSteps
<1>4. CASE live' = mkManifest /\ UNCHANGED <<escalated, budget>> /\ o.kind = "update" /\ Finish(w)
  <2>1. KeepsOthers(w)
    BY <1>0, <1>4, StillKeeps
  <2>2. ASSUME x \in Clean' PROVE Settled(x)'
    <3>1. mkTold[x] = o.old /\ budget.env[x] = Nil /\ site[x] = o.old /\ Wires(mkManifest, x, o.old)
      BY <1>0, <1>1, <1>2, <1>4, <2>2 DEF OfUpdate, Clean
    <3>2. (mkTold[x] = o.old /\ budget.env[x] = Nil /\ site[x] = o.old /\ Wires(mkManifest, x, o.old))'
      BY <1>0, <1>4, <3>1
    <3>3. (Bare(x, o.old) => ~Carries(live, x))'
      <4>1. Bare(x, o.old) => ~Carries(mkManifest, x)
        BY <1>2, <1>4, <3>1, BareCarries DEF Bare
      <4> QED BY <1>0, <1>4, <4>1 DEF Bare
    <3> QED BY <1>2, <1>4, <3>2, <3>3 DEF Settled, Fits, FitsAs, Installed, InEnvironment
  <2> QED BY <1>0, <1>1, <1>4, <2>1, <2>2, FinishKeeps
<1>5. CASE (UNCHANGED budget \/ Spend("faults")) /\ Escalate(w) /\ live' \in {live, mkManifest}
  BY <1>0, <1>5, EscalateKeeps
<1>6. ReloadFails => (UNCHANGED budget \/ Spend("faults")) /\ live' \in {live, mkManifest}
  BY DEF ReloadFails, Fault
<1> QED BY <1>1, <1>2, <1>3, <1>4, <1>5, <1>6 DEF Rereload

LEMMA RemoveDoes == ASSUME MkInv, NEW w \in Workers, Remove(w) PROVE MkInv'
<1>0. op[w] # Idle /\ op[w].at = "remove" /\ UNCHANGED <<mkManifest, live, mkRow, mkTold, cut>>
  BY DEF Remove
<1>1. PICK x, o : x = op[w].ref /\ o = op[w]
  OBVIOUS
<1>2. /\ MkTypes /\ MkData /\ MkShaped(o) /\ o \in MkOps /\ x \in Refs /\ Nil \notin Versions
      /\ (o.kind = "install" /\ x \in Clean => OfInstall(o, x)) /\ (o.kind = "uninstall" /\ x \in Clean => OfUninstall(o, x))
      /\ o.kind \in {"install", "uninstall"} /\ (o.kind = "uninstall" => o.old \in Versions)
  <2>1. MkShaped(o) /\ o.kind # "update"
    BY <1>0, <1>1, AtStep DEF MkShaped
  <2> QED BY <1>0, <1>1, <2>1, AtStep
<1>3. CASE site' = [site EXCEPT ![x] = Nil] /\ UNCHANGED <<budget, escalated>>
           /\ IF o.kind = "install" THEN Finish(w) ELSE Go(w, "drop") /\ UNCHANGED mkLock
  <2>1. site' \in [Refs -> Versions \cup {Nil}] /\ site'[x] = Nil /\ Elsewhere(x)
    BY <1>0, <1>2, <1>3, SiteIs DEF Elsewhere
  <2>2. KeepsOthers(w)
    BY <1>0, <1>1, <1>2, <1>3, <2>1, OwnKeeps DEF MkData
  <2>3. CASE o.kind = "install" /\ Finish(w)
    <3>1. ASSUME x \in Clean' PROVE Settled(x)'
      <4>1. mkTold[x] = Nil /\ ~Carries(mkManifest, x) /\ ~Carries(live, x)
        BY <1>0, <1>1, <1>2, <1>3, <2>3, <3>1 DEF OfInstall, Clean
      <4>2. (mkTold[x] = Nil /\ ~Carries(mkManifest, x) /\ ~Carries(live, x) /\ site[x] = Nil)'
        BY <1>0, <2>1, <4>1
      <4> QED BY <4>2 DEF Settled, Fits, FitsAs
    <3> QED BY <1>0, <1>1, <2>2, <2>3, <3>1, FinishKeeps
  <2>4. CASE o.kind = "uninstall" /\ Go(w, "drop") /\ UNCHANGED mkLock
    <3>1. ASSUME NEW p \in MkOps, p.at = "drop", p.old = o.old, x \in Clean' PROVE OfUninstall(p, x)'
      <4>1. mkTold[x] = p.old /\ budget.env[x] \in {Nil, p.old} /\ ~Carries(mkManifest, x) /\ ~Carries(live, x)
        BY <1>0, <1>1, <1>2, <1>3, <2>4, <3>1 DEF OfUninstall, Clean
      <4>2. (mkTold[x] = p.old /\ budget.env[x] \in {Nil, p.old} /\ ~Carries(mkManifest, x) /\ ~Carries(live, x) /\ site[x] = Nil)'
        BY <1>0, <1>3, <2>1, <4>1
      <4>3. Installed(x)' \in {Nil, p.old}
        BY <4>2 DEF Installed, InEnvironment
      <4>4. (Installed(x) \in {Nil, p.old})'
        BY <4>3
      <4> QED BY <3>1, <4>2, <4>4 DEF OfUninstall
    <3> QED BY <1>0, <1>1, <2>2, <2>4, <3>1, AdvanceKeeps DEF MkSteps
  <2> QED BY <1>2, <1>3, <2>3, <2>4
<1>4. CASE (UNCHANGED budget \/ Spend("faults")) /\ site' \in {site, [site EXCEPT ![x] = Nil]} /\ o.kind = "install" /\ Escalate(w)
  BY <1>0, <1>1, <1>4, EscalateKeeps
<1>5. CASE (UNCHANGED budget \/ Spend("faults")) /\ site' \in {site, [site EXCEPT ![x] = Nil]} /\ o.kind = "uninstall" /\ Finish(w) /\ UNCHANGED escalated
  <2>1. site' \in [Refs -> Versions \cup {Nil}] /\ Elsewhere(x) /\ site'[x] \in {site[x], Nil}
    BY <1>0, <1>2, <1>5, SiteIs DEF Elsewhere, MkData
  <2>2. KeepsOthers(w) /\ SameDeployment
    BY <1>0, <1>1, <1>2, <1>5, <2>1, OwnKeeps DEF MkData
  <2>3. ASSUME x \in Clean' PROVE Settled(x)'
    <3>1. mkTold[x] = o.old /\ Installed(x) \in {Nil, o.old} /\ budget.env[x] \in {Nil, o.old} /\ ~Carries(mkManifest, x) /\ ~Carries(live, x)
      BY <1>0, <1>1, <1>2, <1>5, <2>3 DEF OfUninstall, Clean
    <3>2. Wires(mkManifest, x, o.old)
      BY <3>1, BareWires
    <3>3. Installed(x)' \in {Installed(x), Nil}
      BY <2>1, <2>2 DEF Installed, InEnvironment, SameDeployment
    <3>4. (/\ mkTold[x] = o.old /\ Installed(x) \in {Nil, o.old} /\ budget.env[x] \in {Nil, o.old}
           /\ ~Carries(mkManifest, x) /\ ~Carries(live, x) /\ Wires(mkManifest, x, o.old))'
      BY <1>0, <1>5, <2>2, <3>1, <3>2, <3>3 DEF SameDeployment
    <3> QED BY <1>2, <1>5, <3>4 DEF Settled, Fits, FitsAs
  <2> QED BY <1>0, <1>1, <1>5, <2>2, <2>3, FinishKeeps
<1>6. /\ HalfOutOfPrefix(x) => Spend("faults") /\ site' \in {site, [site EXCEPT ![x] = Nil]}
      /\ PipFails => Spend("faults") /\ UNCHANGED site
  BY DEF HalfOutOfPrefix, PipFails, Fault
<1> QED BY <1>1, <1>2, <1>3, <1>4, <1>5, <1>6 DEF Remove

LEMMA DropDoes == ASSUME MkInv, NEW w \in Workers, MkDrop(w) PROVE MkInv'
<1>0. op[w] # Idle /\ op[w].at = "drop" /\ UNCHANGED <<site, mkManifest, live, escalated, cut>> /\ Finish(w)
  BY DEF MkDrop
<1>1. PICK x, o : x = op[w].ref /\ o = op[w]
  OBVIOUS
<1>2. /\ MkTypes /\ MkData /\ MkShaped(o) /\ o \in MkOps /\ x \in Refs /\ Nil \notin Versions /\ Clean' = Clean
      /\ (x \in Clean => OfUninstall(o, x)) /\ o.kind = "uninstall" /\ o.old \in Versions
  <2>1. MkShaped(o) /\ o.kind = "uninstall"
    BY <1>0, <1>1, AtStep DEF MkShaped, MkOps
  <2> QED BY <1>0, <1>1, <2>1, AtStep DEF Clean
<1>3. ASSUME x \in Clean
      PROVE  mkTold[x] = o.old /\ Installed(x) \in {Nil, o.old} /\ budget.env[x] \in {Nil, o.old} /\ ~Carries(mkManifest, x) /\ ~Carries(live, x) /\ site[x] = Nil
  BY <1>0, <1>1, <1>2, <1>3 DEF OfUninstall
<1>4. CASE mkRow' = Deleted(x) /\ mkTold' = [mkTold EXCEPT ![x] = Nil] /\ (UNCHANGED budget \/ Fault)
  <2>1. mkTold' \in [Refs -> Versions \cup {Nil}] /\ mkTold'[x] = Nil /\ Elsewhere(x)
    BY <1>0, <1>2, <1>4, ToldIs DEF Elsewhere
  <2>2. KeepsOthers(w)
    <3>1. mkRow' \in [Refs -> Versions \cup {Nil}]
      BY <1>2, <1>4, RowIs DEF Deleted
    <3> QED BY <1>0, <1>1, <1>2, <1>4, <2>1, <3>1, OwnKeeps DEF MkData, Fault
  <2>3. ASSUME x \in Clean' PROVE Settled(x)'
    <3>1. (mkTold[x] = Nil /\ ~Carries(mkManifest, x) /\ ~Carries(live, x) /\ site[x] = Nil)'
      BY <1>0, <1>2, <1>3, <2>1, <2>3
    <3> QED BY <3>1 DEF Settled, Fits, FitsAs
  <2> QED BY <1>0, <1>1, <2>2, <2>3, FinishKeeps
<1>5. CASE Spend("faults") /\ UNCHANGED <<mkRow, mkTold>>
  <2>1. ASSUME x \in Clean PROVE Settled(x)
    <3>1. Wires(mkManifest, x, o.old)
      BY <1>3, <2>1, BareWires
    <3> QED BY <1>2, <1>3, <2>1, <3>1 DEF Settled, Fits, FitsAs
  <2> QED BY <1>0, <1>1, <1>5, <2>1, StopsSettled
<1> QED BY <1>1, <1>4, <1>5 DEF MkDrop, Fault

----------------------------------------------------------------------------
(* What starts an operation or breaks into one. *)

LEMMA CancelDoes == ASSUME MkInv, NEW w \in Workers, Cancel(w) PROVE MkInv'
<1>0. /\ op[w] # Idle /\ Spend("cancels") /\ cut' = cut \cup {op[w].ref} /\ op' = [op EXCEPT ![w] = Idle] /\ mkLock' = Nil
      /\ UNCHANGED <<site, mkManifest, live, mkRow, mkTold, escalated>>
  BY DEF Cancel
<1>1. PICK x : x = op[w].ref
  OBVIOUS
<1>2. KeepsOthers(w)
  BY <1>0, StillKeeps
<1>3. x \notin Clean'
  BY <1>0, <1>1 DEF Clean
<1> QED BY <1>0, <1>1, <1>2, <1>3, StepKeeps

LEMMA BeginsKeeps ==
  ASSUME MkInv, NEW w \in Workers, mkLock = Nil, mkLock' = w, NEW p, MkShaped(p), p.at = "check", p.saved = Nil,
         op' = [op EXCEPT ![w] = p], UNCHANGED <<site, mkManifest, live, mkRow, mkTold, escalated, cut, budget>>
  PROVE  MkInv'
<1>0. MkTypes /\ MkData /\ LockIsLive /\ Nil \notin Workers /\ p # Idle
  BY MkShapedRuns, MarketConstants DEF MkInv, MkTypes
<1>1. \A v \in Workers : op[v] = Idle
  BY <1>0 DEF LockIsLive
<1>2. op'[w] = p /\ DOMAIN op' = Workers /\ \A v \in Workers \ {w} : op'[v] = Idle
  BY <1>0, <1>1 DEF MkTypes
<1>3. MkTypes'
  BY <1>0, <1>1, <1>2 DEF MkTypes, MkData
<1>4. LockIsLive'
  <2>1. \A v \in Workers : op'[v] # Idle <=> mkLock' = v
    BY <1>0, <1>2
  <2>2. Idle' = Idle
    BY DEF Idle
  <2> QED BY <2>1, <2>2 DEF LockIsLive
<1>5. ASSUME NEW r \in Clean' PROVE (MkBusy(r) \/ Settled(r))' /\ \A v \in Workers : OnItsWay(v, r)'
  <2>1. r \in Clean /\ ~MkBusy(r)
    BY <1>1 DEF Clean, MkBusy
  <2>2. Settled(r)
    BY <2>1 DEF MkInv
  <2>3. Settled(r)'
    BY <2>2 DEF Settled, Fits, Installed, InEnvironment
  <2>4. Course(p, r)'
    BY <2>3 DEF Course
  <2>5. \A v \in Workers : OnItsWay(v, r)'
    BY <1>2, <2>4 DEF OnItsWay, Idle
  <2> QED BY <2>3, <2>5
<1> QED BY <1>3, <1>4, <1>5 DEF MkInv

LEMMA BeginDoes ==
  ASSUME MkInv, NEW w \in Workers, NEW r \in Refs, NEW kind \in {"install", "uninstall", "update"}, Begin(w, kind, r) PROVE MkInv'
<1>1. PICK p : p = [kind |-> kind, ref |-> r, at |-> "check", ver |-> Nil, old |-> Nil, saved |-> Nil, batch |-> {}]
  OBVIOUS
<1>2. p \in MkOps /\ p.at = "check" /\ p.saved = Nil
  BY <1>1 DEF MkOps, MkSteps
<1>3. MkShaped(p)
  BY <1>2 DEF MkShaped
<1>4. op' = [op EXCEPT ![w] = p]
  BY <1>1 DEF Begin, Request
<1> QED BY <1>2, <1>3, <1>4, BeginsKeeps DEF Begin

LEMMA BeginUpgradeAllDoes == ASSUME MkInv, NEW w \in Workers, BeginUpgradeAll(w) PROVE MkInv'
<1>1. PICK r \in Refs : op' = [op EXCEPT ![w] = [kind |-> "update", ref |-> r, at |-> "check", ver |-> Nil, old |-> Nil,
                                                 saved |-> Nil, batch |-> ListInstalled \ {r}]]
  BY DEF BeginUpgradeAll
<1>2. PICK p : p = [kind |-> "update", ref |-> r, at |-> "check", ver |-> Nil, old |-> Nil, saved |-> Nil, batch |-> ListInstalled \ {r}]
  OBVIOUS
<1>3. ListInstalled \ {r} \subseteq Refs
  BY DEF ListInstalled
<1>4. p \in MkOps /\ p.at = "check" /\ p.saved = Nil
  BY <1>2, <1>3 DEF MkOps, MkSteps
<1>5. MkShaped(p)
  BY <1>4 DEF MkShaped
<1>6. op' = [op EXCEPT ![w] = p]
  BY <1>1, <1>2
<1> QED BY <1>4, <1>5, <1>6, BeginsKeeps DEF BeginUpgradeAll

\* An edit names no module of a plugin that was not named in that slot before.
LEMMA EditDoes == ASSUME MkInv, NEW s \in Slots, NEW m \in {Own, Nil}, Edit(s, m) PROVE MkInv'
<1>0. /\ Spend("edits") /\ mkManifest' = [mkManifest EXCEPT ![s] = m] /\ live' \in {live, mkManifest'}
      /\ UNCHANGED <<mkLock, op, site, mkRow, mkTold, escalated, cut>>
  BY DEF Edit
<1>1. MkTypes /\ MkData /\ LockIsLive
  BY DEF MkInv, MkTypes
<1>2. budget' \in Scenario /\ budget'.env = budget.env /\ budget'.prefixed = budget.prefixed /\ SameDeployment
  BY <1>0, <1>1, SpendIs DEF MkData, SameDeployment
<1>3. mkManifest' \in Manifests /\ \A q \in Refs : Thins(mkManifest', mkManifest, q)
  <2>1. mkManifest \in Manifests
    BY <1>1 DEF MkData
  <2>2. mkManifest' \in Manifests
    BY <1>0, <2>1 DEF Manifests
  <2>3. \A t \in Slots : mkManifest'[t] = IF t = s THEN m ELSE mkManifest[t]
    BY <1>0, <2>1 DEF Manifests
  <2>4. \A q \in Refs : Nil \notin ModulesOf(q) /\ Own \notin ModulesOf(q)
    BY ModulesIn
  <2> QED BY <2>2, <2>3, <2>4 DEF Thins
<1>4. MkTypes'
  BY <1>0, <1>1, <1>2, <1>3 DEF MkTypes, MkData
<1>5. LockIsLive'
  BY <1>0, <1>1 DEF LockIsLive, Idle
<1>6. ASSUME NEW r \in Clean PROVE (MkBusy(r) \/ Settled(r))' /\ \A v \in Workers : OnItsWay(v, r)'
  <2>0. r \in Refs /\ Thins(mkManifest', mkManifest, r) /\ Installed(r)' = Installed(r) /\ budget'.env[r] = budget.env[r]
    BY <1>0, <1>2, <1>3, InstalledSame DEF Clean
  <2>1. /\ ~Carries(mkManifest, r) => ~Carries(mkManifest', r)
        /\ ~Carries(mkManifest, r) /\ ~Carries(live, r) => ~Carries(live', r)
        /\ \A v : Wires(mkManifest, r, v) => Wires(mkManifest', r, v)
    BY <1>0, <2>0, ThinFits
  <2>2. Settled(r) => Settled(r)'
    <3>1. Settled(r) => FitsAs(mkManifest', r, mkTold[r], Installed(r))
      BY <2>0, ThinFits DEF Settled, Fits
    <3> QED BY <1>0, <1>1, <1>2, <2>0, <3>1, SettledKept DEF MkData
  <2>5. ASSUME NEW v \in Versions, Wires(mkManifest, r, v), Bare(r, v) => ~Carries(live, r) PROVE (Bare(r, v) => ~Carries(live, r))'
    <3>1. Bare(r, v) => ~Carries(mkManifest', r)
      BY <2>0, <2>1, <2>5, BareCarries, MarketConstants DEF Bare
    <3> QED BY <1>0, <2>5, <3>1 DEF Bare
  <2>3. ASSUME NEW v \in Workers, OnItsWay(v, r) PROVE OnItsWay(v, r)'
    <3>1. PICK o : o = op[v]
      OBVIOUS
    <3>2. CASE o # Idle /\ o.ref = r
      <4>1. Course(o, r)
        BY <2>3, <3>1, <3>2 DEF OnItsWay
      <4>0. MkShaped(o)
        BY <1>1, <3>1, <3>2 DEF MkTypes
      <4>2. ASSUME o.kind = "install", OfInstall(o, r), o.at # "check" PROVE OfInstall(o, r)'
        <5>1. o.ver \in Versions
          BY <4>0, <4>2 DEF MkShaped, MkOps
        <5>2. (o.at = "record" /\ Bare(r, o.ver) => ~Carries(live, r))'
          BY <2>5, <4>2, <5>1 DEF OfInstall, Bare
        <5> QED BY <1>0, <2>0, <2>1, <2>2, <4>2, <5>2 DEF OfInstall
      <4>3. OfUninstall(o, r) => OfUninstall(o, r)'
        BY <1>0, <2>0, <2>1, <2>2 DEF OfUninstall, Bare
      <4>4. ASSUME o.kind = "update", OfUpdate(o, r), o.at # "check" PROVE OfUpdate(o, r)'
        <5>1. o.ver \in Versions /\ o.old \in Versions
          BY <4>0, <4>4 DEF MkShaped, MkOps
        <5>2. (o.at = "record" /\ Bare(r, o.ver) => ~Carries(live, r))'
          BY <2>5, <4>4, <5>1 DEF OfUpdate, Bare
        <5>3. (o.at \in {"pip", "repip", "save", "apply"} \/ (o.at \in {"unwindNew", "unwindPip"} /\ o.saved = Nil) => (Bare(r, o.old) => ~Carries(live, r)))'
          BY <2>5, <4>4, <5>1 DEF OfUpdate, Bare
        <5> QED BY <1>0, <1>2, <2>0, <2>1, <2>2, <4>4, <5>2, <5>3 DEF OfUpdate
      <4>5. Course(o, r)'
        BY <2>2, <4>1, <4>2, <4>3, <4>4 DEF Course
      <4> QED BY <1>0, <3>1, <3>2, <4>5 DEF OnItsWay
    <3>3. CASE o # Idle /\ o.ref # r
      <4>1. o.saved # Nil => FitsAs(o.saved, r, mkTold[r], Installed(r))
        BY <2>3, <3>1, <3>3 DEF OnItsWay, Fits
      <4>2. (o.saved # Nil => Fits(o.saved, r))'
        BY <1>0, <2>0, <4>1 DEF Fits
      <4> QED BY <1>0, <3>1, <3>3, <4>2 DEF OnItsWay
    <3>4. CASE o = Idle
      BY <1>0, <3>1, <3>4 DEF OnItsWay, Idle
    <3> QED BY <3>2, <3>3, <3>4
  <2>4. MkBusy(r)' = MkBusy(r)
    BY <1>0 DEF MkBusy, Idle
  <2> QED BY <2>2, <2>3, <2>4 DEF MkInv
<1>7. Clean' = Clean
  BY <1>0 DEF Clean
<1> QED BY <1>4, <1>5, <1>6, <1>7 DEF MkInv

LEMMA MkStart == Init => MkInv
<1> SUFFICES ASSUME Init PROVE MkInv
  OBVIOUS
<1>1. \A w \in Workers : op[w] = Idle
  BY DEF Init
<1>2. mkManifest \in Manifests /\ live \in Manifests /\ \A s \in Slots : mkManifest[s] = Nil /\ live[s] = Nil
  BY DEF Init, Manifests
<1>3. MkTypes
  BY <1>1, <1>2, MarketConstants DEF Init, MkTypes, MkData
<1>4. LockIsLive
  BY <1>1, MarketConstants DEF Init, LockIsLive
<1>5. ASSUME NEW r \in Refs PROVE Settled(r)
  <2>1. ~Carries(mkManifest, r) /\ ~Carries(live, r)
    BY <1>2, ModulesIn DEF Carries
  <2> QED BY <2>1 DEF Init, Settled, Fits, FitsAs
<1>6. \A r \in Clean : Settled(r) /\ \A w \in Workers : OnItsWay(w, r)
  BY <1>1, <1>5 DEF Clean, OnItsWay
<1> QED BY <1>3, <1>4, <1>6 DEF MkInv

LEMMA MkStep == MkInv /\ [Next]_vars => MkInv'
<1> SUFFICES ASSUME MkInv, [Next]_vars PROVE MkInv'
  OBVIOUS
<1>1. ASSUME NEW w \in Workers, Step(w) PROVE MkInv'
  BY <1>1, CheckDoes, RemoveOldDoes, PipInstallDoes, PipBackDoes, SaveDoes, MkApplyDoes, ReloadDoes, RecordDoes, UnwindNewDoes,
     UnwindPipDoes, RestoreDoes, RereloadDoes, RemoveDoes, DropDoes DEF Step
<1>2. ASSUME NEW w \in Workers, Cancel(w) \/ BeginUpgradeAll(w) PROVE MkInv'
  BY <1>2, CancelDoes, BeginUpgradeAllDoes
<1>3. ASSUME NEW w \in Workers, NEW r \in Refs, Begin(w, "install", r) \/ Begin(w, "uninstall", r) \/ Begin(w, "update", r) PROVE MkInv'
  BY <1>3, BeginDoes
<1>4. ASSUME NEW s \in Slots, NEW m \in {Own, Nil}, Edit(s, m) PROVE MkInv'
  BY <1>4, EditDoes
<1>5. CASE UNCHANGED vars
  <2>1. UNCHANGED <<mkLock, op, site, mkManifest, live, mkRow, mkTold, escalated, cut, budget>>
    BY <1>5 DEF vars
  <2>2. MkTypes' = MkTypes /\ LockIsLive' = LockIsLive /\ Clean' = Clean
    BY <2>1 DEF MkTypes, MkData, LockIsLive, Clean, Idle
  <2>3. ASSUME NEW r PROVE Settled(r)' = Settled(r) /\ MkBusy(r)' = MkBusy(r)
    BY <2>1 DEF Settled, Fits, Installed, InEnvironment, MkBusy, Idle
  <2>4. ASSUME NEW r, NEW w PROVE OnItsWay(w, r)' = OnItsWay(w, r)
    <3>1. PICK o : o = op[w]
      OBVIOUS
    <3>2. OfInstall(o, r)' = OfInstall(o, r) /\ OfUninstall(o, r)' = OfUninstall(o, r)
      BY <2>1, <2>3 DEF OfInstall, OfUninstall, Installed, InEnvironment
    <3>3. OfUpdate(o, r)' = OfUpdate(o, r)
      BY <2>1, <2>3 DEF OfUpdate
    <3>4. Course(o, r)' = Course(o, r)
      BY <2>3, <3>2, <3>3 DEF Course
    <3>5. o.saved # Nil => Fits(o.saved, r)' = Fits(o.saved, r)
      BY <2>1 DEF Fits, Installed, InEnvironment
    <3> QED BY <2>1, <3>1, <3>4, <3>5 DEF OnItsWay, Idle
  <2> QED BY <2>2, <2>3, <2>4 DEF MkInv
<1> QED BY <1>1, <1>2, <1>3, <1>4, <1>5 DEF Next

LEMMA MkMeans == MkInv => PluginsConsistent
<1> SUFFICES ASSUME MkInv PROVE PluginsConsistent
  OBVIOUS
<1>1. MkTypes /\ MkData /\ LockIsLive
  BY DEF MkInv, MkTypes
<1>2. TypeOK
  <2>1. ASSUME NEW w \in Workers, op[w] # Idle
        PROVE  /\ op[w].kind \in {"install", "uninstall", "update"} /\ op[w].at \in MkSteps
               /\ op[w].ref \in Refs /\ op[w].batch \subseteq Refs
               /\ op[w].saved \in Manifests \cup {Nil} /\ (op[w].at \in {"restore", "rereload"} => op[w].saved # Nil)
               /\ op[w].kind # "install" /\ op[w].at # "check" => op[w].old \in Versions
    <3>1. MkShaped(op[w]) /\ op[w] \in MkOps
      BY <1>1, <2>1 DEF MkTypes, MkShaped
    <3>2. op[w].at \in {"restore", "rereload"} => op[w].kind # "uninstall"
      BY <3>1 DEF MkShaped
    <3> QED BY <3>1, <3>2 DEF MkShaped, MkOps
  <2> QED BY <1>1, <2>1 DEF TypeOK, MkTypes, MkData
<1>3. \A r \in Clean : ~MkBusy(r) => Settled(r)
  BY DEF MkInv
<1>4. NeverHalfRegistered
  BY <1>3 DEF NeverHalfRegistered, Clean, Whole, Settled, Fits, FitsAs, Bare
<1>5. ASSUME NEW r \in Clean, mkTold[r] # Nil, ~MkBusy(r)
      PROVE  /\ \A s \in Slots : mkManifest[s] \in ModulesOf(r) => mkManifest[s] \in Range(Provides[r][mkTold[r]])
             /\ Installed(r) = mkTold[r] \/ (Installed(r) = Nil /\ ~Carries(mkManifest, r))
  <2>1. Settled(r)
    BY <1>3, <1>5
  <2>2. Wires(mkManifest, r, mkTold[r]) /\ (Installed(r) = Nil => ~Carries(mkManifest, r)) /\ Installed(r) \in {Nil, mkTold[r]}
    BY <1>5, <2>1 DEF Settled, Fits, FitsAs
  <2>3. \A s \in Slots : mkManifest[s] \in ModulesOf(r) => mkManifest[s] \in Range(Provides[r][mkTold[r]])
    BY <2>2 DEF Wires, Range
  <2> QED BY <2>2, <2>3
<1>6. RowTruthful
  BY <1>5 DEF RowTruthful, Clean
<1> QED BY <1>1, <1>2, <1>4, <1>6 DEF PluginsConsistent

\* Before it removes a package an operation has seen its registration go.
LEMMA RemovalIsLast ==
  MkInv => \A w \in Workers : op[w] # Idle /\ op[w].at = "remove" /\ op[w].ref \notin escalated \cup cut => ~Carries(live, op[w].ref)
<1> SUFFICES ASSUME MkInv, NEW w \in Workers, op[w] # Idle, op[w].at = "remove", op[w].ref \notin escalated \cup cut
             PROVE  ~Carries(live, op[w].ref)
  OBVIOUS
<1>1. PICK x, o : x = op[w].ref /\ o = op[w]
  OBVIOUS
<1>2. /\ MkShaped(o) /\ x \in Refs /\ (o.kind = "install" /\ x \in Clean => OfInstall(o, x))
      /\ (o.kind = "uninstall" /\ x \in Clean => OfUninstall(o, x)) /\ o.kind \in {"install", "uninstall", "update"}
  BY <1>1, AtStep
<1>3. x \in Clean /\ o.kind # "update"
  BY <1>1, <1>2 DEF MkShaped, Clean
<1> QED BY <1>1, <1>2, <1>3 DEF OfInstall, OfUninstall

\* A slot the operator filled is not one a plugin's modules are taken from or put into.
LEMMA EditOutlives ==
  ASSUME MkInv, [Next]_vars, NEW s \in Slots, mkManifest[s] = Own, budget'.edits = budget.edits
  PROVE  mkManifest'[s] = Own \/ \E w \in Workers : op[w] # Idle /\ op[w].at = "restore"
<1>0. Own # Nil
  BY MarketConstants
<1>1. ASSUME NEW w \in Workers, MkApply(w) PROVE mkManifest'[s] = Own
  <2>0. op[w] # Idle /\ op[w].at = "apply"
    BY <1>1 DEF MkApply
  <2>1. PICK x, o : x = op[w].ref /\ o = op[w]
    OBVIOUS
  <2>2. x \in Refs /\ MkShaped(o) /\ (o.kind # "install" => o.old \in Versions) /\ (o.kind # "uninstall" => o.ver \in Versions)
    BY <2>0, <2>1, AtStep
  <2>3. PICK m : m = Stripped(o)
    OBVIOUS
  <2>4. m[s] = Own
    <3>1. CASE o.old = Nil
      BY <2>3, <3>1 DEF Stripped
    <3>2. CASE o.old # Nil
      <4>1. o.old \in Versions
        BY <2>0, <2>1, <2>2, <3>2 DEF MkShaped
      <4>2. m = Removed(mkManifest, Provides[x][o.old])
        BY <2>1, <2>3, <3>2 DEF Stripped
      <4>3. s \in DOMAIN Provides[x][o.old] => Provides[x][o.old][s] # Own
        BY <2>2, <4>1, ProvidedIs, ModulesIn
      <4> QED BY <4>2, <4>3 DEF Removed
    <3> QED BY <3>1, <3>2
  <2>5. CASE mkManifest' = m \/ mkManifest' = mkManifest
    BY <2>4, <2>5
  <2>6. CASE ~MkCollides(m, Provides[x][o.ver]) /\ mkManifest' = Added(m, Provides[x][o.ver])
    <3>1. s \notin DOMAIN Provides[x][o.ver]
      BY <1>0, <2>4, <2>6 DEF MkCollides
    <3> QED BY <2>4, <2>6, <3>1 DEF Added
  <2> QED BY <1>1, <2>1, <2>3, <2>5, <2>6 DEF MkApply
<1>2. ASSUME NEW t \in Slots, NEW m, Edit(t, m) PROVE FALSE
  <2>1. Spend("edits") /\ budget \in Scenario
    BY <1>2 DEF Edit, MkInv, MkTypes, MkData
  <2> QED BY <2>1, SpendIs
<1>3. ASSUME NEW w \in Workers, Restore(w) PROVE op[w] # Idle /\ op[w].at = "restore"
  BY <1>3 DEF Restore
<1>4. ASSUME NEW w \in Workers, Step(w) PROVE MkApply(w) \/ Restore(w) \/ UNCHANGED mkManifest
  BY <1>4 DEF Step, Check, RemoveOld, PipInstall, PipBack, Save, Reload, Record, UnwindNew, UnwindPip, Rereload, Remove, MkDrop
<1>5. ASSUME NEW w \in Workers, Cancel(w) \/ BeginUpgradeAll(w) PROVE UNCHANGED mkManifest
  BY <1>5 DEF Cancel, BeginUpgradeAll
<1>6. ASSUME NEW w \in Workers, NEW kind, NEW r, Begin(w, kind, r) PROVE UNCHANGED mkManifest
  BY <1>6 DEF Begin
<1>7. CASE UNCHANGED vars
  BY <1>7 DEF vars
<1> QED BY <1>1, <1>2, <1>3, <1>4, <1>5, <1>6, <1>7 DEF Next

(* What the installer promises whatever call of an operation raises: a     *)
(* plugin without a row is nowhere, one with a row is wired and installed  *)
(* as the row says, the lock belongs to a running operation, a package is  *)
(* removed only after its registration, and what the operator put into the *)
(* manifest stays but for an unwind.                                       *)
THEOREM PluginsStayWhole == Spec => PluginsAgree
<1>1. Spec => []MkInv
  BY MkStart, MkStep, PTL DEF Spec
<1>2. MkInv /\ [Next]_vars =>
        [\A w \in Workers : op[w] # Idle /\ op[w].at = "remove" /\ site'[op[w].ref] # site[op[w].ref]
                            /\ op[w].ref \notin escalated \cup cut => ~Carries(live, op[w].ref)]_vars
  BY RemovalIsLast
<1>3. MkInv /\ [Next]_vars =>
        [\A s \in Slots : mkManifest[s] = Own /\ budget'.edits = budget.edits =>
           \/ mkManifest'[s] = Own
           \/ \E w \in Workers : op[w] # Idle /\ op[w].at = "restore"]_vars
  BY EditOutlives
<1>4. Spec => []PluginsConsistent
  BY <1>1, MkMeans, PTL
<1>5. Spec => RemovedIsDeregistered
  BY <1>1, <1>2, PTL DEF Spec, RemovedIsDeregistered
<1>6. Spec => OperatorEditKept
  BY <1>1, <1>3, PTL DEF Spec, OperatorEditKept
<1> QED BY <1>4, <1>5, <1>6 DEF PluginsAgree
=============================================================================

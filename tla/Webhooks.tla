------------------------------ MODULE Webhooks ------------------------------
(***************************************************************************)
(* Hooks, topic verifiers and trigger links over Redis, their two public   *)
(* doors, and the webhooks section of a backup.  Every Lua script is one   *)
(* step.  A door reads, answers, and runs the topic's hooks afterwards in  *)
(* the background, so the steps of a fire are apart.  The import runs as   *)
(* the section importer does: check, verifiers, hooks, tombstones, links,  *)
(* item by item, among everything else; the order of the sections of a     *)
(* restore (keys before webhooks) is what its execution-key check needs.   *)
(* An execution key is its generation: a revoked key's is 0, a key minted  *)
(* again under the name has another, and bindings pin the one they saw.    *)
(***************************************************************************)
EXTENDS Integers, FiniteSets

CONSTANTS
    WhTopics,    \* topics
    WhHooks,     \* hook names
    WhLinks,     \* trigger link names
    WhHashes,    \* token hashes, minted once each
    WhBadBinding,\* topics whose exported binding no longer validates
    MaxWhOps,    \* bound: operator requests
    MaxWhFires   \* bound: public requests

VARIABLES
    whHook,      \* topic -> hook -> generation bound, per-topic hash
    whMap,       \* hook -> its topic (the name map)
    whVerifier,  \* topics with a verifier bound
    whName,      \* link name -> token hash
    whRec,       \* token hash -> [name, topic, api, gen, ttl]
    whTomb,      \* tombstoned hashes
    whMinted,    \* hashes ever minted
    whKey,       \* generation of the execution key, 0 revoked
    whGen,       \* last generation minted
    whFire,      \* the public request in progress
    whBackup,    \* exported section
    whImport,    \* the import in progress
    whLeft       \* bounds: requests and fires left

whVars == <<whHook, whMap, whVerifier, whName, whRec, whTomb, whMinted, whKey, whGen, whFire, whBackup, whImport, whLeft>>

WhNone == [x \in {} |-> 0]
Only(f, S) == [x \in DOMAIN f \cap S |-> f[x]]
WhWith(f, x, v) == [y \in DOMAIN f \cup {x} |-> IF y = x THEN v ELSE f[y]]
Less(f, x) == [y \in DOMAIN f \ {x} |-> f[y]]
NoFire == [step |-> "none"]
NoImport == [step |-> "none"]
NoBackup == [taken |-> FALSE]

WhInit ==
    /\ whHook = [t \in WhTopics |-> WhNone] /\ whMap = WhNone /\ whVerifier = {}
    /\ whName = WhNone /\ whRec = WhNone /\ whTomb = {} /\ whMinted = {}
    /\ whKey = 1 /\ whGen = 1
    /\ whFire = NoFire /\ whBackup = NoBackup /\ whImport = NoImport
    /\ whLeft = [ops |-> MaxWhOps, fires |-> MaxWhFires]

Spend == whLeft.ops > 0 /\ whLeft' = [whLeft EXCEPT !.ops = @ - 1]

(* register: the Lua moves a name from its previous topic's hash.           *)
PutHook(h, t, gen) ==
    /\ whHook' = [u \in WhTopics |-> IF u = t THEN WhWith(whHook[u], h, gen)
                     ELSE IF h \in DOMAIN whMap /\ whMap[h] = u THEN Less(whHook[u], h) ELSE whHook[u]]
    /\ whMap' = WhWith(whMap, h, t)

RegisterHook(h, t) ==
    /\ Spend /\ whKey # 0
    /\ PutHook(h, t, whKey)
    /\ UNCHANGED <<whVerifier, whName, whRec, whTomb, whMinted, whKey, whGen, whFire, whBackup, whImport>>

UnregisterHook(h) ==
    /\ Spend /\ h \in DOMAIN whMap
    /\ whHook' = [whHook EXCEPT ![whMap[h]] = Less(@, h)]
    /\ whMap' = Less(whMap, h)
    /\ UNCHANGED <<whVerifier, whName, whRec, whTomb, whMinted, whKey, whGen, whFire, whBackup, whImport>>

SetTopicVerifier(t) ==
    /\ Spend /\ whVerifier' = whVerifier \cup {t}
    /\ UNCHANGED <<whHook, whMap, whName, whRec, whTomb, whMinted, whKey, whGen, whFire, whBackup, whImport>>

DeleteTopicVerifier(t) ==
    /\ Spend /\ t \in whVerifier /\ whVerifier' = whVerifier \ {t}
    /\ whImport' = IF whImport.step = "none" THEN whImport ELSE [whImport EXCEPT !.freed = @ \cup {t}]
    /\ UNCHANGED <<whHook, whMap, whName, whRec, whTomb, whMinted, whKey, whGen, whFire, whBackup>>

(* The execution key is revoked, or minted again under its name.            *)
RevokeKey ==
    /\ Spend /\ whKey # 0 /\ whKey' = 0
    /\ UNCHANGED <<whHook, whMap, whVerifier, whName, whRec, whTomb, whMinted, whGen, whFire, whBackup, whImport>>
MintKey ==
    /\ Spend /\ whKey = 0 /\ whKey' = whGen + 1 /\ whGen' = whGen + 1
    /\ UNCHANGED <<whHook, whMap, whVerifier, whName, whRec, whTomb, whMinted, whFire, whBackup, whImport>>

(* create_trigger_link: refused on a verified topic and on a taken name.    *)
CreateLink(n, h, t, api, ttl) ==
    /\ Spend /\ whKey # 0 /\ h \notin whMinted /\ t \notin whVerifier /\ n \notin DOMAIN whName
    /\ whName' = WhWith(whName, n, h)
    /\ whRec' = WhWith(whRec, h, [name |-> n, topic |-> t, api |-> api, gen |-> whKey, ttl |-> ttl])
    /\ whMinted' = whMinted \cup {h}
    /\ UNCHANGED <<whHook, whMap, whVerifier, whTomb, whKey, whGen, whFire, whBackup, whImport>>

RevokeLink(n) ==
    /\ Spend /\ n \in DOMAIN whName
    /\ whRec' = Less(whRec, whName[n])
    /\ whName' = Less(whName, n)
    /\ whTomb' = whTomb \cup {whName[n]}
    /\ UNCHANGED <<whHook, whMap, whVerifier, whMinted, whKey, whGen, whFire, whBackup, whImport>>

(* The two keys of an expiring link carry the same deadline.                *)
ExpireLink(n) ==
    /\ n \in DOMAIN whName /\ whName[n] \in DOMAIN whRec /\ whRec[whName[n]].ttl
    /\ whRec' = Less(whRec, whName[n]) /\ whName' = Less(whName, n)
    /\ UNCHANGED <<whHook, whMap, whVerifier, whTomb, whMinted, whKey, whGen, whFire, whBackup, whImport, whLeft>>

(* _verify_ingress: a topic with no verifier is open.                       *)
IngressPasses(t, verified) == t \in whVerifier => verified

(* The webhook door: the topic's verifier decides, then the hooks run.      *)
WebhookDoor(t, verified) ==
    /\ whFire = NoFire /\ whLeft.fires > 0
    /\ whLeft' = [whLeft EXCEPT !.fires = @ - 1]
    /\ whFire' = IF ~IngressPasses(t, verified) THEN NoFire
                 ELSE [step |-> "event", topic |-> t, gen |-> 0, hash |-> "", bare |-> t \notin whVerifier, todo |-> WhNone]
    /\ UNCHANGED <<whHook, whMap, whVerifier, whName, whRec, whTomb, whMinted, whKey, whGen, whBackup, whImport>>

(* The trigger door: record and tombstone in one read, then the verifier,   *)
(* then the caller's key when the link asks for one.                       *)
TriggerDoor(h) ==
    /\ whFire = NoFire /\ whLeft.fires > 0
    /\ whLeft' = [whLeft EXCEPT !.fires = @ - 1]
    /\ whFire' = IF h \in whTomb \/ h \notin DOMAIN whRec THEN NoFire
                 ELSE [step |-> "link", topic |-> whRec[h].topic, gen |-> whRec[h].gen, hash |-> h,
                       api |-> whRec[h].api, bare |-> FALSE, todo |-> WhNone]
    /\ UNCHANGED <<whHook, whMap, whVerifier, whName, whRec, whTomb, whMinted, whKey, whGen, whBackup, whImport>>

TriggerResolve(keyed) ==
    /\ whFire.step = "link"
    /\ whFire' = IF whFire.topic \in whVerifier \/ (whFire.api /\ ~keyed) THEN NoFire ELSE [whFire EXCEPT !.step = "bind"]
    /\ UNCHANGED <<whHook, whMap, whVerifier, whName, whRec, whTomb, whMinted, whKey, whGen, whBackup, whImport, whLeft>>

(* _dispatch_trigger_link: the link's key is bound in the background, or    *)
(* the fire is dropped.                                                    *)
TriggerBind ==
    /\ whFire.step = "bind"
    /\ whFire' = IF whFire.gen = whKey THEN [whFire EXCEPT !.step = "event"] ELSE NoFire
    /\ UNCHANGED <<whHook, whMap, whVerifier, whName, whRec, whTomb, whMinted, whKey, whGen, whBackup, whImport, whLeft>>

(* on_event: the topic's hooks whose condition holds (S, of the payload).   *)
Matching(t, S) == Only(whHook[t], S)

OnEvent(S) ==
    /\ whFire.step = "event"
    /\ whFire' = IF Matching(whFire.topic, S) = WhNone THEN NoFire
                 ELSE [whFire EXCEPT !.step = "run", !.todo = Matching(whFire.topic, S)]
    /\ UNCHANGED <<whHook, whMap, whVerifier, whName, whRec, whTomb, whMinted, whKey, whGen, whBackup, whImport, whLeft>>

(* _run_hook, side by side: one that cannot bind its key fails alone.       *)
RunHook(h) ==
    /\ whFire.step = "run" /\ h \in DOMAIN whFire.todo
    /\ whFire' = IF DOMAIN whFire.todo = {h} THEN NoFire ELSE [whFire EXCEPT !.todo = Less(@, h)]
    /\ UNCHANGED <<whHook, whMap, whVerifier, whName, whRec, whTomb, whMinted, whKey, whGen, whBackup, whImport, whLeft>>

----------------------------------------------------------------------------
ExportedLinks == {<<n, whName[n], whRec[whName[n]]>> : n \in {m \in DOMAIN whName : whName[m] \in DOMAIN whRec}}

(* Export reads hooks, verifiers, links and tombstones.                     *)
ExportWebhooks ==
    /\ Spend
    /\ whBackup' = [taken |-> TRUE, hooks |-> {<<h, whMap[h], whHook[whMap[h]][h]>> : h \in DOMAIN whMap},
                    verifiers |-> whVerifier,
                    links |-> ExportedLinks,
                    tombs |-> whTomb]
    /\ UNCHANGED <<whHook, whMap, whVerifier, whName, whRec, whTomb, whMinted, whKey, whGen, whFire, whImport>>

(* _reject_duplicate_hash_binding refuses the whole import when a hash is   *)
(* live under another name.                                                *)
BoundHashes == {<<n, whName[n]>> : n \in DOMAIN whName}
DuplicateHash(links) == \E l \in links, b \in BoundHashes : b[2] = l[2] /\ b[1] # l[1]

ImportBegin ==
    /\ Spend /\ whBackup.taken /\ whImport = NoImport
    /\ whImport' = IF DuplicateHash(whBackup.links) THEN NoImport
                   ELSE [step |-> "verifiers", unlocked |-> {}, freed |-> {}, put |-> {},
                         verifiers |-> whBackup.verifiers, hooks |-> whBackup.hooks,
                         tombs |-> whBackup.tombs, links |-> whBackup.links]
    /\ UNCHANGED <<whHook, whMap, whVerifier, whName, whRec, whTomb, whMinted, whKey, whGen, whFire, whBackup>>

(* A binding that no longer validates leaves its topic unlocked: nothing    *)
(* of that topic is restored.                                              *)
ImportVerifier(t) ==
    /\ whImport.step = "verifiers" /\ t \in whImport.verifiers
    /\ IF t \in WhBadBinding
       THEN UNCHANGED whVerifier /\ whImport' = [whImport EXCEPT !.verifiers = @ \ {t}, !.unlocked = @ \cup {t}]
       ELSE /\ whVerifier' = whVerifier \cup {t}
            /\ whImport' = [whImport EXCEPT !.verifiers = @ \ {t}, !.freed = @ \ {t}]
    /\ UNCHANGED <<whHook, whMap, whName, whRec, whTomb, whMinted, whKey, whGen, whFire, whBackup, whLeft>>

(* ExecutionKeyScan: the key still stands as the record bound it.           *)
KeyUsable(gen) == gen = whKey

Restorable(t, gen) == t \notin whImport.unlocked /\ KeyUsable(gen)

ImportHook(x) ==
    /\ whImport.step = "verifiers" /\ whImport.verifiers = {} /\ x \in whImport.hooks
    /\ IF Restorable(x[2], x[3])
       THEN PutHook(x[1], x[2], x[3]) /\ whImport' = [whImport EXCEPT !.hooks = @ \ {x}, !.put = @ \cup {x[2]}]
       ELSE UNCHANGED <<whHook, whMap>> /\ whImport' = [whImport EXCEPT !.hooks = @ \ {x}]
    /\ UNCHANGED <<whVerifier, whName, whRec, whTomb, whMinted, whKey, whGen, whFire, whBackup, whLeft>>

(* restore_tombstone kills the live pair of the hash it buries.             *)
ImportTomb(h) ==
    /\ whImport.step = "verifiers" /\ whImport.verifiers = {} /\ whImport.hooks = {} /\ h \in whImport.tombs
    /\ whTomb' = whTomb \cup {h}
    /\ whRec' = Less(whRec, h)
    /\ whName' = IF h \in DOMAIN whRec /\ whRec[h].name \in DOMAIN whName /\ whName[whRec[h].name] = h
                 THEN Less(whName, whRec[h].name) ELSE whName
    /\ whImport' = [whImport EXCEPT !.tombs = @ \ {h}]
    /\ UNCHANGED <<whHook, whMap, whVerifier, whMinted, whKey, whGen, whFire, whBackup, whLeft>>

(* The restore script: a tombstoned hash stays dead, a hash live under      *)
(* another name is a conflict, and a name's present link makes way with its *)
(* record.                                                                 *)
MutantSuperseded(n, h) == {}  \* a plausible mistake: the name's former record stays

Superseded(n, h) == IF n \in DOMAIN whName /\ whName[n] # h THEN {whName[n]} ELSE {}

ImportLink(l) ==
    LET n == l[1] h == l[2]
        bound == n \in DOMAIN whName /\ whName[n] = h
        refused == ~Restorable(l[3].topic, l[3].gen) \/ h \in whTomb \/ (~bound /\ h \in DOMAIN whRec) IN
    /\ whImport.step = "verifiers" /\ whImport.verifiers = {} /\ whImport.hooks = {} /\ whImport.tombs = {} /\ l \in whImport.links
    /\ IF refused THEN UNCHANGED <<whName, whRec>>
       ELSE /\ whName' = WhWith(whName, n, h)
            /\ whRec' = WhWith(Only(whRec, DOMAIN whRec \ Superseded(n, h)), h, l[3])
    /\ whImport' = [whImport EXCEPT !.links = @ \ {l}, !.put = IF refused THEN @ ELSE @ \cup {l[3].topic}]
    /\ UNCHANGED <<whHook, whMap, whVerifier, whTomb, whMinted, whKey, whGen, whFire, whBackup, whLeft>>

ImportDone(i) == i.step = "verifiers" /\ i.verifiers = {} /\ i.hooks = {} /\ i.tombs = {} /\ i.links = {}

ImportEnd ==
    /\ ImportDone(whImport)
    /\ whImport' = NoImport
    /\ UNCHANGED <<whHook, whMap, whVerifier, whName, whRec, whTomb, whMinted, whKey, whGen, whFire, whBackup, whLeft>>

WhNext ==
    \/ \E h \in WhHooks, t \in WhTopics : RegisterHook(h, t)
    \/ \E h \in WhHooks : UnregisterHook(h) \/ RunHook(h)
    \/ \E t \in WhTopics : SetTopicVerifier(t) \/ DeleteTopicVerifier(t) \/ ImportVerifier(t)
    \/ RevokeKey \/ MintKey
    \/ \E n \in WhLinks : RevokeLink(n) \/ ExpireLink(n)
    \/ \E n \in WhLinks, h \in WhHashes, t \in WhTopics, api, ttl \in BOOLEAN : CreateLink(n, h, t, api, ttl)
    \/ \E t \in WhTopics, verified \in BOOLEAN : WebhookDoor(t, verified)
    \/ \E h \in WhHashes : TriggerDoor(h) \/ ImportTomb(h)
    \/ \E keyed \in BOOLEAN : TriggerResolve(keyed)
    \/ TriggerBind \/ \E S \in SUBSET WhHooks : OnEvent(S)
    \/ ExportWebhooks \/ ImportBegin \/ ImportEnd
    \/ whImport # NoImport /\ \E x \in whImport.hooks : ImportHook(x)
    \/ whImport # NoImport /\ \E l \in whImport.links : ImportLink(l)

WhSpec == WhInit /\ [][WhNext]_whVars

----------------------------------------------------------------------------
(* Whatever creates, revocations, expiries and restores of older backups    *)
(* came before: every live link is the one its name leads to, so revoking   *)
(* the name kills it, a revoked token has no record, and every hook is in   *)
(* the hash of the topic the name map gives it and in no other.             *)
LinksRevocable ==
    /\ \A h \in DOMAIN whRec : LET n == whRec[h].name IN n \in DOMAIN whName /\ whName[n] = h
    /\ \A n \in DOMAIN whName : whName[n] \in DOMAIN whRec
    /\ whTomb \cap DOMAIN whRec = {}
    /\ \A t \in WhTopics, h \in WhHooks : h \in DOMAIN whHook[t] <=> (h \in DOMAIN whMap /\ whMap[h] = t)

(* A restore opens no door that was locked: a topic the backup shows bound  *)
(* to a verifier has a hook or link put back only when the verifier is      *)
(* bound too, unless somebody has unbound it since.                        *)
RestoreKeepsLocks ==
    whImport # NoImport => whImport.put \cap whBackup.verifiers \subseteq whVerifier \cup whImport.freed

\* The doors of the hooks stay shut as they were shut: across revocations, and across an import.
LinksSound == LinksRevocable /\ RestoreKeepsLocks
=============================================================================

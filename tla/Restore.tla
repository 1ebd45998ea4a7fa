------------------------------ MODULE Restore ------------------------------
(***************************************************************************)
(* Restoring a backup document (operations/backup.py, backup/sections.py)  *)
(* and the conversation routes, the section whose records are decided      *)
(* against what other sections restore and whose writers race              *)
(* (conversations/backup.py, operations/conversations.py).  The sections   *)
(* of webhooks, connectors, documents and tool metadata are in their       *)
(* components' modules.  A key's fingerprint is a number: every mint takes *)
(* the next one.                                                           *)
(***************************************************************************)
EXTENDS Integers, FiniteSets, Sequences, SequencesExt

CONSTANTS
    RsAdmins,      \* operators, each with one request at a time
    RsImports,     \* restores: a document, section -> payload, and the section names as they are typed
    RsCreates,     \* routes an operator may create: [name, key, pair]
    RsScheduler,   \* whether a scheduling backend is bound
    MaxRsOps,      \* bound: operations
    MaxRsFaults    \* bound: calls that fail

VARIABLES
    rsBackend,     \* the stored manifest registers a task backend
    rsEnv,         \* configured environment keys
    rsScopes,      \* scopes with a route
    rsKeys,        \* user -> [fp, cond]: its policy row
    rsSlugs,       \* sub-MCP registrations
    rsTemplates,   \* stored templates
    rsRoutes,      \* route name -> its row, with the rows its writer could not see (history)
    rsMints,       \* mints so far
    rsJob,         \* operator -> its request
    rsLeft         \* bounds: operations and faults left

rsConfig == <<rsBackend, rsEnv, rsSlugs>>
rsPolicy == <<rsScopes, rsKeys, rsMints>>
rsVars == <<rsConfig, rsPolicy, rsTemplates, rsRoutes, rsJob, rsLeft>>

RsIdle == [step |-> "idle"]
NoPair == "no pair"
NoCond == "no template"
NoClaims == [x \in {} |-> 0]

RsInit ==
    /\ rsBackend = FALSE /\ rsEnv = {} /\ rsSlugs = {}
    /\ rsScopes = {} /\ rsMints = 1 /\ rsKeys = [u \in {"old"} |-> [fp |-> 1, cond |-> "t"]]
    /\ rsTemplates = {} /\ rsRoutes = [x \in {} |-> 0]
    /\ rsJob = [a \in RsAdmins |-> RsIdle] /\ rsLeft = [ops |-> MaxRsOps, faults |-> MaxRsFaults]

RsPut(f, k, v) == [x \in DOMAIN f \cup {k} |-> IF x = k THEN v ELSE f[x]]
ItemSections == {"access_control", "sub_mcp", "templates", "conversations"}
Importing(a) == rsJob[a].step \in {"sections"} \cup ItemSections
Disturbed(jobs, a) == [b \in RsAdmins |-> IF b # a /\ Importing(b) THEN [jobs[b] EXCEPT !.alone = FALSE] ELSE jobs[b]]
RsOp == rsLeft.ops > 0 /\ rsLeft' = [rsLeft EXCEPT !.ops = @ - 1]
RsFault == rsLeft.faults > 0 /\ rsLeft' = [rsLeft EXCEPT !.faults = @ - 1]
RsBegins(a, job) ==
    /\ RsOp /\ rsJob[a] = RsIdle
    /\ rsJob' = Disturbed([rsJob EXCEPT ![a] = job], a)

(* From its look at the claims to its last write, a request does not see    *)
(* the routes that others write.                                           *)
HasLooked(job) == job.step \in {"checked", "bound", "conversations"}
RouteWritten(a, n, job) ==
    rsJob' = [b \in RsAdmins |-> IF b = a THEN job
                                ELSE IF HasLooked(rsJob[b]) THEN [Disturbed(rsJob, a)[b] EXCEPT !.unseen = @ \cup {n}]
                                ELSE Disturbed(rsJob, a)[b]]

----------------------------------------------------------------------------
(* register_core_sections.                                                  *)
RegisteredSections ==
    <<"manifest", "env", "access_control", "sub_mcp", "templates", "webhooks", "conversations", "schedules",
      "connector_catalog", "connector_connections", "versioned_documents", "tool_meta">>

Firsts(q) == FoldLeft(LAMBDA done, x : IF x \in Range(done) THEN done ELSE Append(done, x), << >>, q)

\* A plausible mistake: the sections in the order they were typed.
MutantImportOrder(requested) == Firsts(requested)

(* _import_order: what was asked for, in the order of registration, then    *)
(* the names nothing is registered under.                                   *)
ImportOrder(requested) ==
    SelectSeq(RegisteredSections, LAMBDA s : s \in Range(requested))
    \o SelectSeq(Firsts(requested), LAMBDA s : s \notin Range(RegisteredSections))

StartImport(a, doc, requested) ==
    /\ RsBegins(a, [step |-> "sections", doc |-> doc, asked |-> Range(requested), todo |-> ImportOrder(requested), left |-> << >>, ok |-> TRUE,
                    refused |-> {}, claimed |-> NoClaims, scan |-> {}, unseen |-> {}, alone |-> \A b \in RsAdmins \ {a} : rsJob[b] = RsIdle])
    /\ UNCHANGED <<rsConfig, rsPolicy, rsTemplates, rsRoutes>>

(* A section's report: its errors make the restore's answer not ok.          *)
SectionDone(a, errors) ==
    rsJob' = [rsJob EXCEPT ![a].step = "sections", ![a].todo = Tail(@), ![a].refused = @ \cup errors, ![a].ok = @ /\ errors = {}]

WholeSection(s) == {[section |-> s]}
AtSection(a, s) == rsJob[a].step = "sections" /\ rsJob[a].todo # << >> /\ Head(rsJob[a].todo) = s /\ s \in DOMAIN rsJob[a].doc
Payload(a, s) == rsJob[a].doc[s]

(* A name that is not registered, or not in the document.                    *)
NoSection(a) ==
    /\ rsJob[a].step = "sections" /\ rsJob[a].todo # << >>
    /\ Head(rsJob[a].todo) \notin Range(RegisteredSections) \cap DOMAIN rsJob[a].doc
    /\ SectionDone(a, WholeSection(Head(rsJob[a].todo)))
    /\ UNCHANGED <<rsConfig, rsPolicy, rsTemplates, rsRoutes, rsLeft>>

(* _reload_and_broadcast: what was persisted may still be reported as an     *)
(* error, when the reload or the broadcast fails after it.                 *)
Applied(a, ok, s) ==
    \/ SectionDone(a, IF ok THEN {} ELSE WholeSection(s)) /\ UNCHANGED rsLeft
    \/ ok /\ RsFault /\ SectionDone(a, WholeSection(s))

(* _import_manifest: the whole document is replaced if it is valid as it    *)
(* resolves now; a task backend needs the bus.                             *)
ManifestOk(backend) == backend => "bus" \in rsEnv

ImportManifest(a) ==
    LET backend == Payload(a, "manifest")
        ok == ManifestOk(backend) IN
    /\ AtSection(a, "manifest")
    /\ rsBackend' = IF ok THEN backend ELSE rsBackend
    /\ Applied(a, ok, "manifest")
    /\ UNCHANGED <<rsEnv, rsSlugs, rsPolicy, rsTemplates, rsRoutes>>

(* _import_env: the payload's keys are merged; one of them may be emptied.   *)
EnvAfter(payload) == {k \in rsEnv \cup DOMAIN payload : k \in DOMAIN payload => payload[k] # ""}

ImportEnv(a) ==
    LET after == EnvAfter(Payload(a, "env"))
        ok == rsBackend => "bus" \in after IN
    /\ AtSection(a, "env")
    /\ rsEnv' = IF ok THEN after ELSE rsEnv
    /\ Applied(a, ok, "env")
    /\ UNCHANGED <<rsBackend, rsSlugs, rsPolicy, rsTemplates, rsRoutes>>

(* import_conversation_routes: the live claims; of two rows on one pair the *)
(* later listed is kept.                                                   *)
Claims(routes) ==
    FoldLeft(LAMBDA c, n : IF routes[n].pair # NoPair THEN RsPut(c, routes[n].pair, n) ELSE c, NoClaims, SetToSeq(DOMAIN routes))
Contended(n) == rsRoutes[n].pair # NoPair /\ \E m \in DOMAIN rsRoutes \ {n} : rsRoutes[m].pair = rsRoutes[n].pair

(* A section that is written item by item, each behind an await; the        *)
(* conversations section first looks at the live rows and claims, and of    *)
(* an identity that is claimed twice already it sees one holder.            *)
OpenSection(a, s) ==
    /\ AtSection(a, s) /\ s \in ItemSections
    /\ rsJob' = [rsJob EXCEPT ![a].step = s, ![a].left = Payload(a, s), ![a].scan = {},
                    ![a].claimed = IF s = "conversations" THEN Claims(rsRoutes) ELSE NoClaims,
                    ![a].unseen = IF s = "conversations" THEN {n \in DOMAIN rsRoutes : Contended(n)} ELSE {}]
    /\ UNCHANGED <<rsConfig, rsPolicy, rsTemplates, rsRoutes, rsLeft>>

AtItem(a, s) == rsJob[a].step = s /\ rsJob[a].left # << >>
ItemDone(a, good) ==
    rsJob' = [rsJob EXCEPT ![a].left = Tail(@), ![a].ok = @ /\ good, ![a].refused = IF good THEN @ ELSE @ \cup {Head(rsJob[a].left)}]

(* An importer raises, at any of its awaits: what it wrote stands.           *)
SectionRaises(a) ==
    /\ RsFault /\ rsJob[a].step \in ItemSections
    /\ SectionDone(a, WholeSection(rsJob[a].step))
    /\ UNCHANGED <<rsConfig, rsPolicy, rsTemplates, rsRoutes>>

SectionEnds(a) ==
    /\ rsJob[a].step \in ItemSections /\ rsJob[a].left = << >>
    /\ SectionDone(a, {})
    /\ UNCHANGED <<rsConfig, rsPolicy, rsTemplates, rsRoutes, rsLeft>>

(* _import_access_control: the routes of every scope,                       *)
RestoreScope(a) ==
    LET item == Head(rsJob[a].left) IN
    /\ AtItem(a, "access_control") /\ "scope" \in DOMAIN item
    /\ rsScopes' = rsScopes \cup {item.scope}
    /\ ItemDone(a, TRUE)
    /\ UNCHANGED <<rsConfig, rsKeys, rsMints, rsTemplates, rsRoutes, rsLeft>>

(* then the tokens, each with a key minted anew; a user that exists or a    *)
(* scope without a route is an error of that token.                        *)
Mintable(token, keys, scopes) == token.user \notin DOMAIN keys /\ token.scopes \subseteq scopes

RestoreToken(a) ==
    LET token == Head(rsJob[a].left)
        good == Mintable(token, rsKeys, rsScopes) IN
    /\ AtItem(a, "access_control") /\ "user" \in DOMAIN token
    /\ IF good THEN /\ rsMints' = rsMints + 1
                    /\ rsKeys' = RsPut(rsKeys, token.user, [fp |-> rsMints + 1, cond |-> token.cond])
               ELSE UNCHANGED <<rsMints, rsKeys>>
    /\ ItemDone(a, good)
    /\ UNCHANGED <<rsConfig, rsScopes, rsTemplates, rsRoutes, rsLeft>>

(* _import_sub_mcp: the entries that are well formed.                       *)
RestoreSlug(a) ==
    LET item == Head(rsJob[a].left) IN
    /\ AtItem(a, "sub_mcp")
    /\ rsSlugs' = IF item.good THEN rsSlugs \cup {item.slug} ELSE rsSlugs
    /\ ItemDone(a, item.good)
    /\ UNCHANGED <<rsBackend, rsEnv, rsPolicy, rsTemplates, rsRoutes, rsLeft>>

(* _import_templates: the paths that stay inside the store.                 *)
RestoreTemplate(a) ==
    LET item == Head(rsJob[a].left) IN
    /\ AtItem(a, "templates")
    /\ rsTemplates' = IF item.good THEN rsTemplates \cup {item.path} ELSE rsTemplates
    /\ ItemDone(a, item.good)
    /\ UNCHANGED <<rsConfig, rsPolicy, rsRoutes, rsLeft>>

(* _import_schedules: the scheduling backend's own tool, if one is bound.    *)
ImportSchedules(a) ==
    /\ AtSection(a, "schedules")
    /\ SectionDone(a, IF RsScheduler THEN {} ELSE WholeSection("schedules"))
    /\ UNCHANGED <<rsConfig, rsPolicy, rsTemplates, rsRoutes, rsLeft>>

----------------------------------------------------------------------------
(* A key a fire could run under: minted as the record says, and its         *)
(* condition renders.                                                      *)
Usable(key, fp) == key \in DOMAIN rsKeys /\ rsKeys[key].fp = fp /\ rsKeys[key].cond \in rsTemplates \cup {NoCond}

(* The row may have moved off the pair it held.                             *)
ClaimedAfter(claimed, row) ==
    LET kept == [x \in {x \in DOMAIN claimed : claimed[x] # row.name} |-> claimed[x]]
    IN IF row.pair = NoPair THEN kept ELSE RsPut(kept, row.pair, row.name)

(* One row: the verdict on its key, reached once per key and fingerprint,    *)
(* then its claim, then the write.                                         *)
RestoreRow(a) ==
    LET j == rsJob[a]
        row == Head(j.left)
        known == {v \in j.scan : v.key = row.key /\ v.fp = row.fp}
        usable == IF known = {} THEN Usable(row.key, row.fp) ELSE \E v \in known : v.ok
        free == row.pair \in DOMAIN j.claimed => j.claimed[row.pair] = row.name
        next == [j EXCEPT !.left = Tail(@), !.scan = IF row.good THEN @ \cup {[key |-> row.key, fp |-> row.fp, ok |-> usable]} ELSE @] IN
    /\ AtItem(a, "conversations")
    /\ IF row.good /\ usable /\ free
       THEN /\ rsRoutes' = RsPut(rsRoutes, row.name, [key |-> row.key, fp |-> row.fp, pair |-> row.pair, unseen |-> j.unseen])
            /\ RouteWritten(a, row.name, [next EXCEPT !.claimed = ClaimedAfter(@, row)])
       ELSE /\ UNCHANGED rsRoutes
            /\ rsJob' = [rsJob EXCEPT ![a] = [next EXCEPT !.ok = FALSE, !.refused = IF row.good /\ ~usable THEN @ \cup {row} ELSE @]]
    /\ UNCHANGED <<rsConfig, rsPolicy, rsTemplates, rsLeft>>

ImportAnswers(a) ==
    /\ rsJob[a].step = "sections" /\ rsJob[a].todo = << >>
    /\ rsJob' = [rsJob EXCEPT ![a] = RsIdle]
    /\ UNCHANGED <<rsConfig, rsPolicy, rsTemplates, rsRoutes, rsLeft>>

----------------------------------------------------------------------------
(* create_conversation_route: the pair is unclaimed by any other route,      *)
Unclaimed(c) == c.pair # NoPair => \A n \in DOMAIN rsRoutes \ {c.name} : rsRoutes[n].pair # c.pair

CheckClaim(a, c) ==
    /\ Unclaimed(c)
    /\ RsBegins(a, [step |-> "checked", row |-> c, unseen |-> {}])
    /\ UNCHANGED <<rsConfig, rsPolicy, rsTemplates, rsRoutes>>

(* its key is usable as it is minted now,                                   *)
BindRouteKey(a) ==
    LET c == rsJob[a].row IN
    /\ rsJob[a].step = "checked"
    /\ rsJob' = [rsJob EXCEPT ![a] = IF c.key \in DOMAIN rsKeys /\ Usable(c.key, rsKeys[c.key].fp)
                                     THEN [step |-> "bound", row |-> c, fp |-> rsKeys[c.key].fp, unseen |-> rsJob[a].unseen] ELSE RsIdle]
    /\ UNCHANGED <<rsConfig, rsPolicy, rsTemplates, rsRoutes, rsLeft>>

(* and the row is written, over one of its name, whether or not the answer  *)
(* of the write arrives.                                                   *)
PutCreated(a) ==
    LET c == rsJob[a].row IN
    /\ rsJob[a].step = "bound"
    /\ rsRoutes' = RsPut(rsRoutes, c.name, [key |-> c.key, fp |-> rsJob[a].fp, pair |-> c.pair, unseen |-> rsJob[a].unseen])
    /\ RouteWritten(a, c.name, RsIdle)
    /\ UNCHANGED <<rsConfig, rsPolicy, rsTemplates, rsLeft>>

(* A read or the write fails, or the caller goes away.                      *)
CreateEnds(a) ==
    /\ RsFault /\ rsJob[a].step \in {"checked", "bound"}
    /\ rsJob' = [rsJob EXCEPT ![a] = RsIdle]
    /\ UNCHANGED <<rsConfig, rsPolicy, rsTemplates, rsRoutes>>

DeleteConversationRoute(a, n) ==
    /\ n \in DOMAIN rsRoutes
    /\ RsOp /\ rsJob[a] = RsIdle
    /\ rsRoutes' = [x \in DOMAIN rsRoutes \ {n} |-> rsRoutes[x]]
    /\ rsJob' = Disturbed(rsJob, a)
    /\ UNCHANGED <<rsConfig, rsPolicy, rsTemplates>>

(* An access-control operator revokes a key.                                *)
RevokeKey(a, u) ==
    /\ u \in DOMAIN rsKeys
    /\ RsOp /\ rsJob[a] = RsIdle
    /\ rsKeys' = [x \in DOMAIN rsKeys \ {u} |-> rsKeys[x]]
    /\ rsJob' = Disturbed(rsJob, a)
    /\ UNCHANGED <<rsConfig, rsScopes, rsMints, rsTemplates, rsRoutes>>

RsNext ==
    \E a \in RsAdmins :
        \/ \E i \in RsImports : StartImport(a, i.doc, i.requested)
        \/ NoSection(a) \/ ImportManifest(a) \/ ImportEnv(a) \/ ImportSchedules(a)
        \/ \E s \in ItemSections : OpenSection(a, s)
        \/ RestoreScope(a) \/ RestoreToken(a) \/ RestoreSlug(a) \/ RestoreTemplate(a) \/ RestoreRow(a)
        \/ SectionRaises(a) \/ SectionEnds(a)
        \/ ImportAnswers(a)
        \/ \E c \in RsCreates : CheckClaim(a, c)
        \/ BindRouteKey(a) \/ PutCreated(a) \/ CreateEnds(a)
        \/ \E n \in DOMAIN rsRoutes : DeleteConversationRoute(a, n)
        \/ \E u \in DOMAIN rsKeys : RevokeKey(a, u)

RsSpec == RsInit /\ [][RsNext]_rsVars

----------------------------------------------------------------------------
(* Nobody takes an identity that is taken: of two routes with one claim,     *)
(* which no message to it survives (_resolve_channel_route), the writer of *)
(* one had looked before the other was written, or looked at an identity   *)
(* with two holders already, whatever the rows of imports and creates claim, move *)
(* or drop side by side, and wherever an import raises.                    *)
IdentityClaimedOnce ==
    \A n, m \in DOMAIN rsRoutes : n # m /\ rsRoutes[n].pair # NoPair /\ rsRoutes[n].pair = rsRoutes[m].pair =>
        m \in rsRoutes[n].unseen \/ n \in rsRoutes[m].unseen

Answered(a) == rsJob[a].step = "sections" /\ rsJob[a].todo = << >>

(* A restore nobody disturbs needs no second pass: a token or a route it     *)
(* refused is one the store it leaves behind refuses too, in whatever order  *)
(* its sections were typed.                                                 *)
RestoreInOneGo ==
    \A a \in RsAdmins : Answered(a) /\ rsJob[a].alone =>
        \A x \in rsJob[a].refused :
            ("user" \in DOMAIN x => ~Mintable(x, rsKeys, rsScopes)) /\ ("fp" \in DOMAIN x => ~Usable(x.key, x.fp))

(* A restore that answers ok and that nobody disturbed left what it was      *)
(* asked to store, although sections of one document are applied one after *)
(* the other and each may raise after part of it: the manifest stands under *)
(* the environment that came after it, every token has its key, and every  *)
(* route is there with its claim under a key it can fire with.             *)
OkMeansRestored ==
    \A a \in RsAdmins : LET doc == rsJob[a].doc IN Answered(a) /\ rsJob[a].alone /\ rsJob[a].ok =>
        /\ rsJob[a].asked \subseteq DOMAIN doc
        /\ "manifest" \in rsJob[a].asked => rsBackend = doc["manifest"] /\ ManifestOk(rsBackend)
        /\ "access_control" \in rsJob[a].asked => \A t \in Range(doc["access_control"]) : "user" \in DOMAIN t => t.user \in DOMAIN rsKeys
        /\ "templates" \in rsJob[a].asked => \A t \in Range(doc["templates"]) : t.path \in rsTemplates
        /\ "conversations" \in rsJob[a].asked => \A row \in Range(doc["conversations"]) :
              /\ row.name \in DOMAIN rsRoutes /\ rsRoutes[row.name].pair = row.pair
              /\ Usable(rsRoutes[row.name].key, rsRoutes[row.name].fp)

\* What an import leaves behind: one claim to an identity, every restorable row at the first
\* attempt, and an ok that means restored.
RestoreSound == IdentityClaimedOnce /\ RestoreInOneGo /\ OkMeansRestored
=============================================================================

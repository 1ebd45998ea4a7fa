# A verification development for tai-skeleton

TLA+ modules for the server skeleton under `src/src/tai42_skeleton` (all paths below are relative
to it), checked with TLC on small instances and, for eight of them, proved with TLAPS for every
instance.  `PROJECT.json` holds the machine-readable side: components, runs, mutants, the map from
definitions to source lines, hazards and theorems.

## 1. The system

tai-skeleton is an application server for agents and MCP tools.  A deployment is a fleet of worker
processes (each one asyncio loop) over a shared Postgres, a shared Redis and a shared configuration
(an env document and a manifest).  Nothing but those stores is shared, so almost every hard
behaviour of the system is of one kind: two workers, or two tasks of one worker, interleave between
round trips to a store; or one of them stops between two round trips.

### Inventory

| part | state it keeps | what is hard | what makes it correct | modelled by |
|---|---|---|---|---|
| conversation record store (`conversations/records.py`) | Redis rows with a status, two leases, attempt counter, grace deadline; six status indexes; inbound dedupe markers | every Lua script races every other; leases lapse under their holders | a row and its indexes agree; one outcome; the status only moves forward | `RecordStore` |
| turn engine (`conversations/turn.py`) | background tasks, lease heartbeats, thread reservations | redelivery, lost replies, a crash between persist and claim, a late heartbeat | one turn per inbound pair; no live turn reaped; nothing stranded; no reservation leaked | `TurnEngine` |
| delivery executor (`delivery.py`, `ledger.py`) | send ledger, outbound-id index | resume by another worker under another split cap, timeouts with unknown outcome, takeover | nothing dropped, nothing ledgered sent twice, bounded attempts, every answer settles | `DeliveryEngine` |
| turn caps (`caps.py`) | per-thread FIFO and lock, concurrency gate, token buckets | cancellation at the moment of admission; a lock object replaced under a waiter | exact accounting, no lost wake-up, one turn per thread | `TurnCaps`, `Limits` |
| worker bus and config pipeline (`app/bus.py`, `config/service.py`, `app/reload_gate.py`) | presence keys, subscriptions, each worker's loaded configuration | at-most-once pub/sub, a report cut by a deadline, workers that reload for each other | no silently stale worker, truthful reports, convergence | `FleetReload` |
| config files and the secret seal (`config/file_manager.py`, `secret_seal.py`) | files, a lock file | a failing step or a power loss between write, rename and sync | acknowledged changes survive, no resolved secret is written | `ConfigFiles`, `SecretSeal` |
| lifecycle, tools, MCP servers (`app/lifecycle.py`, `tools/`) | registries, bound tools, failed servers | a reload that fails half way, a server rebound meanwhile, calls under a reload | what is served is tracked; calls survive; a failed server recovers | `ToolSurface` |
| sub-MCP applications (`app/sub_mcp_app.py`, `sub_mcp/`) | router table, cached applications, owner tasks | eviction or replacement while a first request builds | an application is its registration's, and no lifespan leaks | `SubMcp` |
| interactions (`interactions/`, both routers) | question state, counts, pending and open indexes, reply lists, event stream | WATCH/EXEC races, killed waiters, budgets that run out while an answer lands | one answer wins, counts exact, the cap holds, the inbox is complete, every ask ends | `Interactions` |
| asynchronous tool runs (`operations/tool_runs.py`) | run records, liveness keys, a recent window, capacity count | readers that reconcile a run its supervisor is about to end | one terminal state, no slot lost, no newest run missed | `ToolRuns` |
| versioned documents, presets (`versioning/`, `presets/`, `operations/presets.py`) | documents, versions, per-worker registrations | numbering under READ COMMITTED, compensation, fan-out | gapless versions, one live document per name, workers converge | `VersionedStore`, `DocumentHistory`, `Presets` |
| tool metadata (`tool_meta/`) | folders, one overlay row per tool | two merges of one row | no edit lost | `ToolMeta` |
| hooks and trigger links (`hooks/`, `operations/trigger_links.py`) | hooks, verifiers, links, tombstones | restores of older backups, deferred fires | a link can be revoked, a restore opens no locked door | `Webhooks` |
| access control (`access_control/`, `operations/api_keys.py`, `roles.py`, `authz/`) | routes, scopes, policies, roles, keys, claim links; version-keyed caches | write skew under READ COMMITTED, stale caches, two edges that decide separately | attenuation, agreement of the edges, revocation, single-use claims | `AccessControl`, `AccessDecision`, `TokenFree` |
| marketplace installer (`marketplace/installer.py`) | attribution rows, manifest, package site, registration, fleet lock | any awaited call may raise; operators edit meanwhile; requests are cancelled | a failure unwinds or escalates; a row never lies; the lock is never left | `Marketplace` |
| connectors (`connectors/`) | token rows behind a fenced cache, a refresh lock and breaker, connection records and manifest entries, the catalog | late cache fills, rotating refresh tokens, consent open for minutes | reads never go back, verdicts are real, record and manifest agree | `TokenStore`, `TokenRefresh`, `Connections`, `Catalog` |
| backup and restore (`backup/`, `operations/backup.py`) | none of its own | sections that depend on one another, imports beside creates | an ok means restored, in one pass | `Restore` and each section's module |
| templates (`template/`) | two caches over a storage provider | a fetch under way when a write evicts | no render after a write uses older text | `Templates` |
| doors (`middleware/`) | fixed windows, byte counts | the window's edge, forged forwarding headers | the limits hold | `Limits` |

How the parts meet: channels and the API call the turn engine, which writes the record store and
hands an answered record to the delivery executor; both sweeps run in every worker.  The marketplace
installer and the connection service change the manifest through the config pipeline, whose reload
every worker learns of over the bus; the reload rebuilds the tool surface, the presets and the
sub-applications.  Tool calls obtain tokens from the resolver, which reads and writes the token
store.  ask_user is called by tools and answered through routers.  Every request passes access
control and the doors.

## 2. The modules

| module | models | its theorems | checked by |
|---|---|---|---|
| `RecordStore` | `conversations/records.py`, `models.py`; the abstract store of the two engines | `RecordStoreProofs` | through both engines |
| `TurnEngine` (on `RecordStore`) | `conversations/turn.py` | `TurnEngineProofs` | `MCTurnEngine` |
| `DeliveryEngine` (on `RecordStore`) | `conversations/delivery.py`, `ledger.py` | `DeliveryEngineProofs` | `MCDeliveryEngine` |
| `TurnCaps` | `conversations/caps.py` | `TurnCapsProofs` | `MCProgress` |
| `FleetReload` | `app/bus.py`, `config/service.py`, `operations/_broadcast.py`, the reload of `app/lifecycle.py` | `PlatformProofs` | `MCFleetReload` |
| `Interactions` | `interactions/helper.py`, `store.py`, `routers/interactions.py`, `operations/interactions.py` | `InteractionsProofs` | `MCInteractions` |
| `Marketplace` | `marketplace/installer.py`, `manifest_patch.py`, `store.py`, `prefix.py` | `ConnectorsProofs` | `MCPlugins` |
| `TokenRefresh` | `connectors/runtime/resolver.py`, `locks.py`, `token_injection.py` | `ConnectorsProofs` | `MCPlugins` |
| `TokenStore` | `connectors/store/redis_pg.py`, `store/backup.py` | `ConnectorsProofs` | `MCDocuments` |
| `Connections` | `connectors/service/connection_service.py`, `manifest_writer.py`, `oauth/state.py` | `ConnectorsProofs` | `MCAccess` |
| `Catalog` | `connectors/store/catalog_write.py`, `catalog_store.py`, `backup.py`, `providers/registry.py` | `ConnectorsProofs` | `MCPlatform` |
| `AccessDecision` | the decisions of `access_control/` and `authz/` as operators over one state of the stores | | through `AccessControl` |
| `AccessControl` (on `AccessDecision`) | `access_control/store.py`, `management.py`, `roles.py`, `claim_links.py`, `operations/api_keys.py`, `roles.py`, the request path | `InteractionsProofs` | `MCAccess` |
| `TokenFree` | `authz/token_free.py` | | `MCAccess` |
| `DocumentHistory` | what the versioned store promises | | as `VersionedStore`'s abstraction |
| `VersionedStore` | `versioning/store.py`, statement by statement | `DocumentsProofs` | `MCDocuments` |
| `Presets` (on `DocumentHistory`) | `operations/presets.py`, `presets/manager.py` | | `MCDocuments` |
| `ToolMeta` | `tool_meta/store.py` | `DocumentsProofs` | `MCDocuments` |
| `Webhooks` | `hooks/`, `operations/trigger_links.py`, the webhooks section of `backup/sections.py` | `DocumentsProofs` | `MCDocuments` |
| `ToolRuns` | `operations/tool_runs.py` | `PlatformProofs` | `MCPlatform`, `MCProgress` |
| `SubMcp` | `app/sub_mcp_app.py`, `sub_mcp/` | `PlatformProofs` | `MCPlatform` |
| `ToolSurface` | `app/lifecycle.py`, `tools/binding.py`, `tools/registry.py` | | `MCPlatform`, `MCProgress` |
| `ConfigFiles` (on `SecretSeal`) | `config/file_manager.py`, `config/service.py`; `config/secret_seal.py` | | `MCPlatform` |
| `Restore` | `operations/backup.py`, `backup/sections.py`, `conversations/backup.py`, `operations/conversations.py` | | `MCPlatform` |
| `Limits` | the buckets of `conversations/caps.py`, `middleware/rate_limit.py`, `body_limit.py` | `TurnCapsProofs` | `MCPlatform` |
| `Templates` | `template/resource_manager.py`, `operations/templates.py` | `DocumentsProofs` | `MCPlatform` |

`MCSurface` holds the manifests and servers the two runs with `ToolSurface` share.  An MC module
with several components explores them side by side, one per behaviour: its variable `look` (`concern`
in `MCAccess`) is chosen in the initial state and never changes, only the chosen component moves, and
the others keep one initial state.  The state spaces add up instead of multiplying, and every
property is stated under its look where the component alone would not say so.

Conventions shared by all of them.

* A step is the code between two points at which somebody else can act: one round trip to Redis,
  Postgres, a provider or pip, with the synchronous code around it.  A Lua script, an SQL statement
  and a committed transaction are atomic; two round trips never are.
* A call that may raise has a failing alternative at the same place.  Where the answer of a store can
  be lost, the failing alternative exists with and without the effect.
* Disturbances are bounded per behaviour by a record, the variable `budget`, whose initial value is
  drawn from the constant `Scenarios`.  One run therefore explores several kinds of trouble (two
  faults; one death and one stall; two deletes) without their full product.  Every bound is a field of
  `Scenario` or a constant `Max...`, with its comment.
* A variable marked *history* in its declaration is read by properties only.
* A definition named `Mutant...` is a plausible bug of the definition that follows it; no specification
  uses it.  `PROJECT.json` says which property each one must break.

### Conversations

`RecordStore`: a script is modelled by the integer it replies and the effect it has when that is 1.  A
lease value is its token while live and `NoToken` once it has lapsed or been released, since no guard of
the scripts distinguishes the two; the clock is the actions `LapseIntake`, `LapseDelivery`,
`ElapseGrace`, `ExpireRow`, `ExpireMarker`.  `UnboundedSpec` is the store under *any* callers that meet
two obligations: a delivery write is made by a worker that once won the delivery claim, and a row is
deleted only while it carries no answer.  `StoreSpec` adds the runs' bound on attempts.  The theorems
are about `UnboundedSpec`, and both engines are proved to implement the store.

`TurnEngine`: each message is one accept with its own intake token.  `pc` walks the channel door (dedupe
read, admission, create, claim, schedule), the shed branches and the API door; `res` holds the
resolutions of records left at intake, one per accept and one per re-drive pass; `pass` each worker's
sweep.  The agent run is an opaque choice of outcome.  A crash ends every task of a worker and leaves
the store.  Assumed: the dedupe marker (48 h) outlives every attempt in flight (`MarkerExpires`); in
scenarios without stalls a heartbeat is on time (`settings.py` keeps the refresh interval under the
lease).

`DeliveryEngine`: a driver is one running `deliver()` or `mark_wait_delivered()`.  The answer is its
characters, some of them spaces, cut as `split_message` cuts it (`ChunkEnd`), the ledger the number of characters accounted for, the provider a count per character;
`overtaken` names the records whose lease lapsed under a live driver, which the settings are meant to
prevent (`_send_timeout_stays_under_the_delivery_lease`) and which the comments do not cover: the
properties about sending are stated for the others, the properties about the record for all of them.

`TurnCaps`: one asyncio loop.  Lock objects are values, so that a turn waiting on an object that has
been dropped from the map is visible.  `asyncio.Lock` is external and modelled by its contract.

### Fleet and tool surface

`FleetReload`: two tasks per process, the subscription and one request.  Pub/sub is one queue per live
connection; what is published meanwhile is lost to the others.  Versions of the env document and of the
manifest are numbers, and a reload reads one after the other under the reload gate.  Assumed: a lost
pub/sub connection surfaces as a transport error; the presence scan is atomic; a reply in flight at the
cut is one sent after it.  A PUBLISH whose reply is lost may have taken effect.  A change looks at the
gate when it enters and not again (`operations/adapter.py:84`), so it may write while a reload runs.  Left out:
the process environment a change of the env is validated under (section 5).

`ToolSurface` is the surface of one worker under boot, reload with restore, MCP load, reload, re-probe
and removal; a structural operation holds the reload gate and the calls interleave with each of its
steps.  A bound name is the sequence of its tool and the extensions stacked on it.  Left out:
list_changed notifications, schema adaptation, context and sampling bridges.  The removal of a server goes
name by name on a thread and swallows what it cannot remove (`lifecycle.py:1497`), and the rebind of one is
followed by the reconciliation of the presets on it (`:1225`): each is one step here, and that reconciliation
does not raise.

`SubMcp` is one worker's router over the durable registrations.  A registration carries the generation
token of the code, a build holds the token it captured under the state lock, and an application carries
its number, so that a stale install, a leaked lifespan and a double close are visible.

`ConfigFiles` follows every mutation through lock, read, seal, temporary file, rename and directory
sync; a power loss undoes a rename the directory was not synced after.  Markers resolve against the
stored env.  `SecretSeal` is recursive over document trees.  `write_manifest` has no caller and is left
out.

### Questions, runs, documents

`Interactions`: the clock is `now`; every question has a deadline.  WATCH/EXEC transactions are read and
commit steps with a mark on every open transaction whose watched key changed.  The inbox is one client's
backlog read followed by the live tail.  Left out: answer formats and schemas, audiences, verifiers
(each a verdict), `notify_user`.  Assumed: a group's idle TTL is no shorter than the answer budget of
its questions.

`ToolRuns`: the record's terminal write is a compare-and-set script; everything between two Redis calls
may interleave, and a key may expire at any moment.  A cancellation between the capacity increment and
the spawn leaks a slot, as in the code; the history variable `trLeaked` counts those.

`VersionedStore`: a locking statement first picks the row its snapshot shows and then waits for the row
lock and re-checks, as Postgres does; what a transaction writes becomes visible at its commit.  It
implements `DocumentHistory` under the mapping `Abstract`; tags are dropped there and errors are
unconditional (a NotFound is not linearized).  A commit's answer may be lost, and the caller then knows
neither.  An export is its two statements, each with a snapshot of its own; the history reads the documents
and then the versions too, and says what is saved of a document that was removed in between.  An import is
one step, of the newest backup: after an import that set the sequence back, an older one may hold the id of
a document that has been created since.
`Presets` stands on `DocumentHistory`; the read and the save of a preset save are one store step, and a
rehydrate is one step.  A request may stop at any of its steps (`PsStop`: a call that raised before its effect or after
it, a bus that is down, a compensation that failed, a cancellation), and a reload's read of the store may fail.  `ToolMeta` merges under the row's lock; its insert and its locking read are one step, so a row
deleted between the two, where the code raises (`tool_meta/store.py:209`), is left out.  An export is one step in
`ToolMeta` (two statements, so a backup may name a folder it does not hold) and in `Webhooks` (hooks, verifiers,
names, records and tombstones one after the other, so a link revoked meanwhile may be saved with its tombstone).  In `Webhooks` every Lua script is a step, a link's
two keys expire together, and a door's background fire is apart from its answer.

`Templates` models an entry of the async LRU cache from the moment its fetch starts; eviction by size or
age is one action.  An id is one spelling of a path: two spellings of one file (`path_guard.py:51` returns
the path as typed) are two entries to the cache, and a write through one leaves the other to its TTL.  Other
workers stay stale until the TTL and are not modelled.

### Access control

A management operation is read, commit, version bump and history write, each a step, and it may stop
after any of them.  `AccessDecision` decides over one state of the stores; `AccessControl` adds a request
that reads them through its worker's version-keyed caches.  The key-minting provider is external and
refuses an id it already has; owners minted by the admin are restricted to `Accounts`.
`OwnedNeverExceedsOwner` and `ToolEdgeNotEasier` are about principals whose identity record and policy
row are of one minting and name one owner: a revoke that races a mint leaves a policy row without its
record, and a rollback across mintings leaves another owner (section 5).  Decisions
are examined in quiet states.  The concerns of `MCAccess`: managing; keys (three operations of two
workers); remints (four operations, one after the other); a request
among two of its kind with one operation; claims (two operations, decisions not re-examined because the
stores they reach are a subset of managing's); programs; connections.  In `TokenFree` a program is its
tokens, without the lexer; the parser's budgets are not reached in the instance.

### Plugins and connectors

`Marketplace`: the manifest maps slots to modules; the site is the version of each package; `live` is
what the last successful reload registered.  Assumed: a module is of one plugin only, as a file of a
Python environment is of one distribution; a failing pip leaves the site as it was; the session of the
advisory lock is not lost in the middle of an operation.

An uninstall of a plugin that provides nothing to the manifest (all of it selected by the environment)
applies nothing.  A store's COMMIT may land with its answer lost, a package be removed by half and a reload
fail before or after it registered.

`TokenStore`, `TokenRefresh`, `Connections`: one connection's row and cache; several replicas' calls on
one stored record; the records, entries and flows of one provider.  Each takes the layer below it as
atomic.  `unfenced`, `stalled` and `mishap` record that a call went around the fence, that a body ran
without its lock, or that an operation was cut between its two stores; properties that the code gives up
in those cases say so.  Assumed: a tombstone outlives the calls in flight when it was set; restored
ciphertext counts as a new write; providers grant a non-empty part of what was asked and fail finitely
often.  A call of the token store that stops between its COMMIT and its cache step is one that takes no further
step; the plain upsert (`redis_pg.py:352`) has no caller.  In `TokenRefresh` a reconnect's exchange is one step with
its persist, and its breaker clear another; two reconnects at once are the matter of `Connections`.  A record that
refreshes has a refresh token: a connect insists on one (`connection_service.py:396`), so the raise of
`:634` has no cause.

`Catalog`: a descriptor is whether it passes the per-row checks.  A worker's refresh reads categories
and rows in two transactions, publishes in a third step, and fails when an add falls between the reads or
when the store does not answer; a reload's refresh and an import's run on one worker at the same time.  An
announcement reaches any of the other workers, or none, and a worker may crash before it or lose the answer
of its commit.  The histories `ctMissed` and `ctLate` mark the workers that missed a change and the reads
that cannot make up for it; `AddedServed` excepts them until a refresh has read since.  `Restore`: a document's sections
in the order they are imported, scope by scope, token by token, template by template and row by row, an importer
that raises after part of it, and a configuration that is persisted and then reported as failed; a route's claim to a channel identity; a key's fingerprint is the number
of its minting; an imported identity is not canonicalised, as in the code.  `Limits`: a tick is a unit of time and
a token a number of units; one family of doors, the others have disjoint keys.

## 3. The runs

| run | instance | checks |
|---|---|---|
| `turns` | one message and its redelivery, two workers, a queue of one; one fault among stalling workers, or one crash and one marker expiry | `TurnsAccounted` (exact reservations, an outcome is backed by its claim, a live turn is not reaped), `OutcomeOnce` |
| `turns_resolved` | a channel message and an API submit on one worker, one fault and one crash | `IntakeResolved` (liveness), `StoreSpec` (refinement) |
| `delivery` | an answer of four characters, the third of them a space, split at one to three into at most three chunks, or an API answer with its sync wait; two drivers, three lease tokens, two attempts; two deaths, one death and one stall, or one stall | `StoreConsistent`, `AnswersCarried`, `ForwardOnly`, `NothingSentTwice`, `DeliverySettles` (liveness) |
| `progress` | three looks: five turns on three threads under ceilings of one and two; one tool run and one reader; the tool surface with two manifests, three operations and two changes outside | `CapsSound`, and the liveness `TurnsProceed`, `OrphansSettle`, `FailedMcpRecovers` |
| `fleet` | two workers and a forked child; two changes with a lost connection, or one request amid boot, drop, fault, failing reload and death | `FleetHonest` (truthful reports, no silent staleness, no older version put back) |
| `fleet_converges` | two publishers that must reload for each other; churn around one change | `EveryRequestAnswered`, `FleetConverges` (liveness) |
| `asks` | three questions in two groups, two humans, a cap of one, a clock of two ticks; six scenarios of kills, cancels, expiring keys, hanging deliveries and an inbox opened twice | `AsksAccounted`, `AnsweredOnce`, `EveryAskEnds` (liveness) |
| `plugins` | two plugins that want one slot, two versions, two workers, a venv or a prefix, up to three faults, three edits and a cancellation; two replicas on one record with six mints, rotating and non-rotating providers, faults and stalls | `PluginsAgree`, `UninstallConverges`, `TokensHeld`, `RefreshProgresses` |
| `access` | four users, two scopes, two workers, one claim token, up to three operations side by side, four in sequence, or one with two requests; token-free programs; two connections and two flows under up to four operations | `Decisions` (the two edges, over every quiet state of managing and keys), `AccessSettled` (retired keys, claim tokens and the age of what a request reads, in every concern), `Programs`, `ConnectionsAgree` |
| `access_scopes` | removals of urls and nothing else | **violation** of `ScopesBacked`, see section 5 |
| `documents` | the store: two names, two callers, two documents, three versions, four operations; presets: two workers, two requests, two operations, three versions, one fault; tool metadata: two folders, two tools, four operations; links: two topics, one hook, one name, two hashes, five operations, one fire; tokens: three processes, three writes, four scenarios | `StoreImplements` (refinement), `PresetsHold`, `OverlayKept`, `LinksSound`, `CacheSound` |
| `platform` | ten looks: two tool runs; one slug with two configs, two requests, two overlapping operations, two writes and two builds; the tool surface; two config writers; the catalog; restores; buckets, doors and bodies; templates | `RunsAccounted`, `SlugsCurrent`, `SurfaceSound`, `FilesSound`, `CatalogSound`, `RestoreSound`, `LimitsHold`, `RendersCurrent` |

Why the bounds suffice to be interesting: each property is about two actors on one key (a record, a
group, a connection, a slot, a slug) and one or two disturbances between their steps; a third actor is
present where a property compares two with an observer (`documents`' token reader, `asks`' inbox).  That
the bounds are not too small is shown by the mutants: every property is broken by a small change of the
code under the very configuration of its run.  The properties with a theorem hold for every instance.

Deadlock is not checked where the system may come to rest when its bounded work is done.

### Fairness

Weak fairness on the steps of a running task (asyncio resumes every ready task; every provider, pip and
Redis call is bounded by a timeout), on the sweeps and the bus loops (they never return), and on the
clock (leases, graces, TTLs and breakers run out):

* `TurnEngine`: the accept steps, the agent turn and its completion, the wait's return, the sweeps and
  resolutions, the lapse of a lease nobody refreshes;
* `DeliveryEngine`: every step of a driver, the start of a sweep, grace, the lapse of a lease;
* `TurnCaps`: the scheduling of a ready task; `FleetReload`: the subscription, the request, expiry;
* `Interactions`: the clock and the steps of a waiter; `ToolRuns`: a reader's steps, the expiry of a
  liveness key nobody keeps;
* `Marketplace` and `TokenRefresh`: the steps of an operation and of a replica, the lapse of lock and
  breaker;
* `ToolSurface`: the re-probe loop, and that the gate is free infinitely often, since whoever takes it
  lets go of it.

Strong fairness only where somebody keeps retrying: `Acquire` of a contended refresh lock, a reader that
polls its run (`GetRun`), an operator who repeats an uninstall.  Faults, crashes, cancellations, receipts,
humans and disconnects are never owed.  Stalls are finite per behaviour.

## 4. What is proved

Every theorem is of the specification the runs check, for all values of the constants that satisfy the
named assumption of its module (`TokenAssumption`, `MessageAssumption`, `AttemptAssumption`,
`TurnConstants`, `DeliveryConstants`, `InteractionConstants`, `StoreConstants`, `VsConstants`,
`TrConstants`, `SmConstants`, `CapsConstants`, `TmConstants`, `CtConstants`, `RefreshConstants`, `ConnectionConstants`,
`FleetConstants`, `TpConstants`, `LmConstants`, `MarketConstants`, `AccessConstants`): that an
absent value is no member of the set it stands beside (and `"inline"` no template id), that bounds are
numbers, that the ids under a directory are template ids, that no client is a proxy and the hourly rates have a largest, that the send limits are positive, and that
plugins provide known slots and no two of them the same module, and that the access-control stores start with
policies whose roles, owners and mints exist, one minted key at most and no account with a mint.  TLC evaluates them in every run.  Each proof has
the same shape: an inductive invariant, checked with TLC on the run's instance before it was proved; one
lemma per action, `ASSUME Inv, action PROVE Inv'`; lemmas about the tables (how one row is replaced, what
a key's removal leaves); one step lemma; the theorem by `PTL`.

| module | theorems | the inductive invariant, and why the property alone is not inductive |
|---|---|---|
| `RecordStoreProofs` | `StoreTypeCorrect`, `StoreIsConsistent` (`StoreConsistent`), `OutcomeWrittenOnce` (`OutcomeOnce`), `MovesForward` (`ForwardOnly`) | `StoreInv` adds `MintedRows`, a row exists only under an id that was minted: `CreateRecord` writes fields whose old values it does not look at |
| `TurnEngineProofs` | `TurnsAreAccounted` (`TurnsAccounted`), `EngineImplementsStore` (`StoreSpec`), `EngineAnswersOnce` | `TurnInv`: `TurnOwns` and `ResolverOwns` (whoever will answer a record has its pair, whoever will delete it does not), `Retired` (a marker that expired was of an accept that was over), `TurnHeld` (the lease of a turn in progress) and `SlotsCounted` |
| `DeliveryEngineProofs` | `AnswersAreCarried` (`AnswersCarried`), `NothingIsSentTwice` (`NothingSentTwice`), `DeliveryImplementsStore`, `DeliveryMovesForward` | `DeliveryInv`: `Sole` (a driver whose record was not overtaken holds the lease and is alone with it), `Counted` (so the attempt it counted is the counter), `Ledgered` (what the ledger accounts for was accepted, and the driver resumes right after it), `Cut` |
| `ConnectorsProofs` | `TokenCacheSound` (`CacheSound`) | `CacheInv`: `VersionsOrdered`, every ciphertext in flight is bounded by the version it carries, and `Fenced`, what the fence of the key bounds while no call went around it |
| `ConnectorsProofs` | `RefreshInvariance`, `TokensStayHeld` (`TokensHeld`) | `RefreshInv`: no call holds a token that was not minted, a write-back is newer than the record it was refreshed from, and a forced refresh was forced by a refused token (`CallSound`); and as long as nothing outlived its lock, one call refreshes at a time, what it read still holds, and every verdict written is still true, but for a breaker whose clear failed or was cut off (`CallSafe`, `Verdicts`) |
| `ConnectorsProofs` | `ConnectionsStayInStep` (`ConnectionsAgree`) | `CnInv`: a flow waits, is held by one operation or is over (`OneUse`), a connection about to be created is known to nobody else (`Unknown`), a live consent has a record or a persist ahead (`Consents`), what a change read is not newer than the record (`ReadBefore`); while no body outlived its lock, who is in a body holds the lock alone and finds the record there (`Exclusive`); while none was cut short either, the sub-services it is to add and remove are what is between manifest and record (`InStep`) |
| `ConnectorsProofs` | `PluginsStayWhole` (`PluginsAgree`) | `MkInv`: the steps and fields an operation of each kind may have (`MkShaped`); a plugin no operation is on agrees in the row the installer was told of, packages, manifest and registration (`Settled`), one that an operation is on agrees as far as the step has come (`Course`), and the manifest an operation saved to go back to fits every other plugin, for nothing but that operation changes what a manifest names of them |
| `TurnCapsProofs` | `CapsInvariance`, `CapsAreSound` (`CapsSound`) | `CapsInv`: a waiter at the gate, called off or not, means that every place is taken (`Full`), the turns of a thread that are past their reservation have the one lock object the map shows (`OneLock`), a turn is at the gate or beyond exactly when it holds its lock (`Held`), and who waits is in a queue, once (`GateQueue`, `Waits`) |
| `TurnCapsProofs` | `LimitsInvariance`, `LimitsStayHeld` (`LimitsHold`) | `LimitsInv`: the turns admitted since any admitted turn, with the tokens that are left, fit a full bucket and the refill since (`Promise`), and a key whose bucket lapsed has waited for a full one (`Rested`); a window of a door counted at least what passed in it (`WindowOK`); what the application may have read of a body is within the cap while it is open (`BodyInv`) |
| `DocumentsProofs` | `StoreTables`, `StoreRefines` (`StoreImplements`) | `VsInv`: `TablesAgree` (gapless numbers, one live row per name, no id handed out again that the backup has versions of), `BackupKept` (the versions of the backup are the first ones of the document with their id), `ReadingKept` (what the export under way has read is still there, unless a document was removed), `LockedOps` (what an operation read of the row it locked still holds) |
| `DocumentsProofs` | `LinksInvariance`, `LinksStaySound` (`LinksSound`) | `LinksInv`: a hash is minted once, so an import restores no link created since its backup (`Minted`); names and records are each other's inverse (`Paired`, `Named`), a tombstone and a record exclude each other (`Buried`), a hook is under the topic the map shows (`Placed`), and a verifier of the backup is bound, still to be bound, or its topic was unlocked since (`VerifierKept`) |
| `DocumentsProofs` | `OverlayStaysKept` (`OverlayKept`) | `OverlayInv`: a merge between its read and its write holds the row's lock and the row is as it read it (`RowsHeld`) |
| `DocumentsProofs` | `RenderInvariance`, `RendersStayCurrent` (`RendersCurrent`) | `RenderInv`: no acknowledged write is ahead of what is stored (`AckedStored`); an entry that is finished is tracked and as new as what was acknowledged, and so is what a pending one has read (`CacheFresh`); a caller waits for a fetch of its id that has read nothing older than it was promised (`CallsKept`) |
| `PlatformProofs` | `RunsAreAccounted` (`RunsAccounted`), `RunsSettle` | `TrInv`: `OneEnd` (a status that was given, is about to be given or would be read now is the same terminal one), `Doubts` (a reader about to declare a run lost saw it running), `SlotsTaken`, `Ordered` and `Indexed` |
| `InteractionsProofs` | `StoreOfQuestions`, `CountsAndCap`, `AnswersStand` (`AnsweredOnce`), `AsksAreAccounted` (`AsksAccounted`) | `AskInv`: `TxCurrent` (an open transaction is marked, or what it read still holds), `Opened` (the index the cap is enforced on holds what the cap is about), `Told` (the end of a question comes after its add); for the inbox `InboxInv` with `NoneMissed` (what can be answered is shown, announced ahead or still to be read) |
| `InteractionsProofs` | `AccessStaysSettled` (`AccessSettled`) | `AcInv`: a mint is in one policy row or one unfinished mint at most, and nowhere once retired (`Mints`); a token in an exchange is burned and in no other hand, and a key that was dead when it was taken stays dead (`ClaimsHeld`); no bump settles more than was committed (`Stamps`); a slot of the version of now is not older than what has settled (`CacheFresh`), and the slot a request may read at the version it fetched is not older than what had settled when it began, although the version has moved since (`RequestFresh`); what an operation has in hand between its steps is of the kind its next step writes (`OpsShaped`) |
| `PlatformProofs` | `SlugInvariance`, `SlugsServeTheirConfig` (`SlugsCurrent`) | `SlugInv`: tokens only grow (`Tokens`), one request builds at a time and while its token stands its slug is as it was captured (`Builds`), what a request, an operation or a reload holds is the stored config or the slug counts as stale (`Reads`, `Writes`) |
| `ConnectorsProofs` | `CatalogInvariance`, `CatalogStaysSound` (`CatalogSound`) | `CtInv`: a create between its insert and its commit holds the lock, and its order is above every native one and below the last (`Inserting`); a provider on its way in names a category that is stored or brings it (`CategoryStands`); a worker that does not serve an added provider has a reload ahead, running or failed, or one is to be announced to it, or it missed the change (`AddedComing`); a refresh that has read, and that nothing overtook, read every added provider or ends with one of those ahead (`ReadAll`) |
| `PlatformProofs` | `FleetInvariance`, `FleetStaysHonest` (`FleetHonest`) | `FleetInv`: what a connected worker does not run with is in its queue or will be read by the reload it is at (`Known`); no version in flight is newer than the stored one, and a message carries the base of the request it names (`Versioned`); a reload that has read holds its process's gate and read nothing older than what is loaded (`Gated`); who is said, or about to be said, to have applied runs with it (`ForOp`, `ForRequest`, `Applied`, `Staged`) |

The theorems of `RecordStore` and the refinement by the delivery executor are about `UnboundedSpec`, the
store without the runs' bound on attempts.  `AsksAreAccounted` has a hypothesis:
no scenario of the deployment has both an expiry of a group's keys and an inbox that connects.  With both
the property is false of the code: the backlog reads a group as empty and then removes it from two
indexes with separate commands (`store.py:565`), and a question added in between is lost to the inbox.
`CountsAndCap` and `AnswersStand` need no hypothesis.

What stays with TLC, and why:

* liveness (`IntakeResolved`, `DeliverySettles`, `TurnsProceed`, `OrphansSettle`, `FailedMcpRecovers`,
  `EveryRequestAnswered`, `FleetConverges`, `EveryAskEnds`, `UninstallConverges`, `RefreshProgresses`):
  fairness and ENABLED are out of the prover's reach;
* `Programs` and `FilesSound`: `TokenFree` and `SecretSeal` are recursive over programs and trees;
* `Decisions`: what the two edges decide of one state of the stores, evaluated path by path and role by
  role, not attempted;
* `PresetsHold`, `SurfaceSound` and `RestoreSound`: not attempted.

## 5. Where the code and its comments part

`access_scopes` keeps the one that is a run: `access_control/store.py:32` says that a durable policy never
holds a scope with no backing route; `remove_url_from_scope` deletes one row and looks for another under
READ COMMITTED without locking it, so two removals of a scope's last two urls each see the other's row.
Re-pointing or pinning the last url, and a rollback, leave such a scope as well.

The others were met while modelling.  The properties are stated for what the code does.

* Marketplace: a mid-flight failure "unwinds" (`installer.py:5`), but the handlers catch `Exception` (`:465`),
  so a request cancelled between persist and attribution leaves a wired plugin without a row.  An uninstall
  whose row delete failed cannot be repeated in a plugin prefix (`:520` against `:362`); an unwind puts back a
  manifest read before an operator's edit (`:39` against `:496`).  A row's upsert whose COMMIT landed and whose
  answer was lost counts as failed: the unwind leaves the row of a plugin, or of a version, that is not wired
  (`:673-694`, `store.py:91-119`), and the next operation works from that row: an uninstall then strips the modules of
  the version the row names and may leave the manifest with one that is no longer installed, which no reload
  passes.  `PluginsAgree` is about the rows the installer was told of; a package removed from the prefix by half
  (`prefix.py:176`) is an escalation there.
* Delivery: the ledger's RPUSH is not fenced on the lease, so a stalled worker shifts the position of its
  successor (`ledger.py:81`, `delivery.py:228`); after an indeterminate first chunk a re-drive under a smaller
  cap may send the oversized refusal although text went out (`delivery.py:197`).
* Fleet: a worker whose resync failed registers as converged (`lifecycle.py:330`, `bus.py:549`); one that is
  reconnecting is reported departed (`bus.py:741`).
* Interactions: the phantom removal of section 4; a recorded answer is discarded when the delivery hangs for
  the whole budget (`helper.py:385`, `operations/interactions.py:66`); more waiters than `max_concurrent` after a
  slow delivery; an answer between the status and the count read raises the torn-index error (`store.py:439`).
* Tokens: a failed cache write, an import and a second delete each drop the key and with it the fence
  (`redis_pg.py:213`, `:415`, `backup.py:390`); when the refresh lock lapsed, the loser's `invalid_grant` may be
  stored before the winner's tokens (`locks.py:36`, `resolver.py:263`).  Redis errors of the breaker are swallowed
  (`locks.py:106`, `:121-126`), so one that could not be cleared after a repair, or whose caller stopped between the
  persist and the clear (`connection_service.py:542`, `:548`), turns calls away for up to the cooldown although the
  record works; `BreakerMatchesRecord` leaves those out (`uncleared`).
* Documents: the export reads documents and versions in two statements under READ COMMITTED
  (`versioning/backup.py:56`, `:71`).  A document deleted between them is restored without versions, its
  pointer at none, and every save of it fails; one created between them has versions and no document, and
  the whole import fails on them unless the document is still there.  An import sets the id sequence to the
  largest id there is (`:157`), which may be lower than ids already handed out.
* Connections: a disconnect that could not take the lock strands an entry (`connection_service.py:604`); a
  toggle's consent undoes a patch made while it was open (`:535`); a consent whose connection is gone, or a
  first one without a refresh token, is not revoked at the provider.  A first connect whose persist committed
  and lost its answer revokes the consent it was given and leaves the record (`:448-463`, `:475`): a connection
  without entries that no token will be got for.  A change committed like that leaves the record ahead of the
  manifest until the next one.
* Catalog: an import validates its rows, but not against the ids plugins register in code, and a boot raises
  on such a row (`connectors/store/backup.py:139`, `:231`, `providers/registry.py:88`); a refresh or an export
  fails when an add with a new category falls between its two reads.  "A fleet never strands stale behind a
  local error" (`catalog_write.py:210`), but the report of the broadcast is ignored and `publish` swallows a
  transport error (`app/bus.py:320`): siblings that were not told keep an older catalog until their next
  reload, as they do when the adding worker crashes, or loses the answer of its commit, before it tells
  them.  An import refreshes outside the reload gate (`backup.py:233`) and may publish what it read over
  what a later reload served.
* Backup: the manifest section is registered before the env section it may refer to
  (`backup/sections.py:594`); a row refused for a claim that a later row of the document frees stays refused
  until the next pass.  The claim of an identity is checked and written in two steps (`operations/conversations.py:51`, `:171`; an import reads the claims once, `conversations/backup.py:88`), so two writers that overlap
  may both take it, and a create is not behind the reload gate an import holds; `IdentityClaimedOnce` says that it
  takes such an overlap: one of the two rows was written by a request that had looked before the other was.
* Access control: "the tool edge is never easier than the route" (`authz/check.py:14`), but a rollback writes
  the recorded owner into a row whose mint it keeps (`store.py:510`): mint a key for one owner, revoke it,
  mint the id again for another, roll back to version 1, and a fire is bounded by the owner of the row
  (`authz/execution.py:137`), the HTTP edge by that of the identity record (`backend.py:174`).  The
  `remints` concern of `MCAccess` reaches it; `ToolEdgeNotEasier` and `OwnedNeverExceedsOwner` leave such
  principals out through `OneMinting`.  `apply_role` racing `set_user_disabled` loses the disabled marker; `delete_role` counts the
  holders before its transaction.
* Presets: a quarantined name "was never registered as a preset" (`app/instance.py:134`), but a reload that finds its name taken
  after it had served is quarantined too (`presets/manager.py:228`); a reload's
  removal tears down another tool of the name, and reads the body after the teardown, so a missing row drops
  the live tool, and so does a store that does not answer that read (`presets/manager.py:248` stands before the `try`
  that puts the captured spec back, although `reload` "never drops the live primitive"); a create whose registration
  fails hard-deletes a save made meanwhile.  A save or rollback whose reload fails re-points the document to the version it read at its
  start (`operations/presets.py:806-810`, "store + live never diverge"): a save another request made and had
  acknowledged meanwhile is no longer the active one, and the workers that heard of it keep serving it, since
  the compensation is announced to nobody.  `PresetsHold` leaves such a name out (`psMixed`), and with it
  the names whose creations, renames or deletions overlapped.
* Tool metadata: two moves may close a cycle of folders (`tool_meta/store.py:14` against `move_folder`, `:105`).
* Tool surface: after a failed reload the restored MCP tools are on no list and `_failed_mcps` may be emptied;
  a quarantined module imported by half leaves its tools served; a recovered server without a tool that was
  asked for is reported ok; a server whose operator reload cannot bind is neither bound nor failed.
* Sub-MCP: nothing spans the store write and the router swap (`sub_mcp/service.py:29-31`, `:42-46`) and the gate
  is only looked at on entry (`operations/adapter.py:84`), so of two registrations of one slug that overlap the one stored
  last may be bound first: the worker serves the other until the slug is written again or a reload. So it does
  after a read-through that put a replaced or deleted config back, a save or delete that took effect and whose
  answer was lost, and a sibling's replacement. `RoutesCurrent` excepts these slugs and says when they are
  current again.
* Tool runs: a cancellation between the capacity increment and the spawn leaks a slot. An identity's index of
  recent runs gets its expiry with a submission (`tool_runs.py:183`, `:190`) and a terminal write renews the
  record's only (`:92-94`), so a run that ended long after the last submission can be read by id and is on no list.
* Config: a change is validated and sealed before the file's lock is taken.  A change of the env is validated
  with the process environment swapped for the one it would produce (`config/service.py:224`); nobody else's
  coroutine runs meanwhile, but a reload runs on a thread (`app/reload_gate.py:97`) and may resolve its markers
  against an environment that is then refused.
* Templates: the engine's own cache never reloads an included template (`resource_manager.py:478`); a directory
  delete evicts by tracked ids, so a fetch under way is cached after it (`:509`); text and schema are two loads.
* Limits: a key re-rated upward refills its elapsed time at the new rate; an evicted key starts full.

## 6. Not modelled, and what is next

Not modelled: text (message splitting beyond its lengths, templates, schemas, HMACs, encryption), HTTP
framing, the command line, settings parsing, third-party plugins, the operation framework, the
marketplace client.  `PROJECT.json` lists every part with its reason.

Next, most important first: `PresetsHold` of the presets and `Decisions` of the access control as
theorems.
